------------------------------ MODULE MCProtocol ------------------------------
(* A small instance of Protocol for TLC.                                       *)
EXTENDS ProtocolProps

\* A text that fits into a packet and one that does not.
MCTexts == {<<82>>, [i \in 1..20 |-> 76]}
MCNotices == {ChatNotice(p, text) : p \in Others, text \in Texts}

MCRequests ==
    {Wire("HeartbeatReq", HeartbeatReqFields, HeartbeatReq(5, -1)),
     Wire("HeartbeatReq", HeartbeatReqFields, HeartbeatReq(6, 7)),
     Wire("HeartbeatReq", HeartbeatReqFields, HeartbeatReq(7, 0)),
     Wire("RankingReq", RankingReqFields, RankingReq(1)),
     Wire("RankingReq", RankingReqFields, RankingReq(9)),
     [msg_id |-> 4003, body |-> <<>>]}

MCHeartbeats == {Wire("HeartbeatReq", HeartbeatReqFields, HeartbeatReq(6, 7))}

Scores == [Others \cup {Self} -> 0..MaxScore]
MCReplies(m) == UNION {Answers(m, s) : s \in Scores}

MCSamples ==
    [nums |-> {-1, 0, 1, 300},
     strings |-> {<<>>, <<65>>, [i \in 1..130 |-> 66]},
     lists |-> {<<>>, <<10001>>, <<-1, 0, 5>>}]
===============================================================================
