------------------------------- MODULE Protocol -------------------------------
(***************************************************************************)
(* A connection and what the server does with its packets: the dispatcher  *)
(* (src/net/MessageDispatcher.cpp), heartbeat and ranking, the chats of    *)
(* the other players of the room, and the server's metrics.  The requests  *)
(* that log in, match, chat or reconnect are GameServer's, where the ones  *)
(* of this module are the request "ping".                                  *)
(***************************************************************************)
EXTENDS Connection, GameMessages, RankingService

CONSTANTS
    Self,           \* the player of the connection
    Others,         \* the players who chat in its room
    RoomId,         \* the room
    Texts,          \* what they say
    ServerTime,     \* the server's clock
    MaxScore,       \* bound on the score of each of the others
    Half,           \* half the range of a packet counter
    HalfMs,         \* half the range of the round trips' sum
    MaxReports      \* bound on the reports of the metrics

ASSUME HalfAssumption == Half \in Nat \ {0} /\ HalfMs \in Nat \ {0}
ASSUME OthersAssumption == IsFiniteSet(Others)
\* Players, scores and times are numbers of 64 bits; two of them fit into a packet.
ASSUME NumbersAssumption ==
    /\ Others \cup {Self} \subseteq Int64s /\ ServerTime \in Int64s
    /\ MaxScore \in Nat /\ 0..MaxScore \subseteq Int64s
    /\ MAX_BODY_SIZE >= 22

VARIABLES
    scores,         \* the repository's: player -> score
    reports,        \* the reports so far
    total_recv_packets, total_send_packets, last_recv_packets, last_send_packets,
    req_count, heartbeat_rtt_count, total_heartbeat_rtt_ms,
    recv_reported, send_reported

\* MessageId.
Ids == [LoginReq |-> 1001, LoginResp |-> 1002, MatchReq |-> 2001, MatchResp |-> 2002,
        RoomCreatedNotify |-> 3001, ChatReq |-> 4001, ChatNotify |-> 4002, ChatResp |-> 4003,
        HeartbeatReq |-> 9001, HeartbeatResp |-> 9002, ReconnectReq |-> 9101,
        ReconnectResp |-> 9102, RankingReq |-> 5001, RankingResp |-> 5002]

\* The messages a handler is registered for.
Registered == {"LoginReq", "MatchReq", "ChatReq", "HeartbeatReq", "ReconnectReq", "RankingReq"}

Metrics == INSTANCE ServerMetrics WITH Kinds <- Registered
connection_vars == <<up, requests, closed, reading_vars, writing_vars, client_vars>>
metrics_vars ==
    <<total_recv_packets, total_send_packets, last_recv_packets, last_send_packets,
      req_count, heartbeat_rtt_count, total_heartbeat_rtt_ms, recv_reported, send_reported>>
protocol_vars == <<connection_vars, scores, reports, metrics_vars>>

Wire(type, fields, m) == [msg_id |-> Ids[type], body |-> Serialize(fields, m)]

ProtocolInit ==
    /\ Init
    /\ Metrics!Init
    /\ reports = 0
    /\ scores = [p \in Others \cup {Self} |-> 0]

-------------------------------------------------------------------------------
(***************************************************************************)
(* The handlers: the answers to a message.                                 *)
(***************************************************************************)
\* HeartbeatService::handle_heartbeat.
\* Mutant: the answer carries the server's time twice.
HeartbeatAnswers_Now(body) ==
    {<<Wire("HeartbeatResp", HeartbeatRespFields, HeartbeatResp(ServerTime, ServerTime))>>}
HeartbeatAnswers(body) ==
    LET req == Parse(HeartbeatReqFields, body) IN
    {<<Wire("HeartbeatResp", HeartbeatRespFields, HeartbeatResp(req.client_time_ms, ServerTime))>>}

\* RankingService::handle_ranking_req: int top_n = req.top_n().
RankingAnswers(body, score) ==
    LET req == Parse(RankingReqFields, body) IN
    {<<Wire("RankingResp", RankingRespFields, resp)>> : resp \in Rankings(score, Narrowed(req.top_n))}

\* MessageDispatcher::dispatch: an id without a handler is ignored.
Answers(m, score) ==
    CASE m.msg_id = Ids["HeartbeatReq"] -> HeartbeatAnswers(m.body)
      [] m.msg_id = Ids["RankingReq"] -> RankingAnswers(m.body, score)
      [] OTHER -> {<<>>}

\* The handler of m records the round trip the client last saw, -1 before any.
\* Mutant: whatever the client says.
RecordedRtt_Any(m) ==
    IF m.msg_id = Ids["HeartbeatReq"] THEN {Parse(HeartbeatReqFields, m.body).last_rtt_ms} ELSE {}
RecordedRtt(m) ==
    IF m.msg_id # Ids["HeartbeatReq"] THEN {}
    ELSE LET rtt == Parse(HeartbeatReqFields, m.body).last_rtt_ms IN
         IF rtt > 0 THEN {rtt} ELSE {}

RecordRtt(m) ==
    IF RecordedRtt(m) = {} THEN UNCHANGED <<heartbeat_rtt_count, total_heartbeat_rtt_ms>>
    ELSE \E rtt \in RecordedRtt(m) : Metrics!record_heartbeat(rtt)

Handle ==
    /\ HandlePacket
    /\ LET m == Decoded(recv_buffer) IN
          /\ replies' \in {replies \o ms : ms \in Answers(m, scores)}
          /\ Metrics!incr_recv_packet
          /\ Metrics!incr_send_packet(Len(replies') - Len(replies))
          /\ Metrics!incr_req({k \in Registered : Ids[k] = m.msg_id})
          /\ RecordRtt(m)
    /\ UNCHANGED <<scores, reports, last_recv_packets, last_send_packets, recv_reported, send_reported>>

ChatNotice(p, text) == Wire("ChatNotify", ChatNotifyFields, ChatNotify(RoomId, p, text))
ASSUME ChatsAssumption == \A p \in Others, text \in Texts : ChatNotice(p, text) \in Notices

\* ChatService::handle_chat on the session of another player of the room: it
\* scores, and both sessions are sent the notification.
Chat(p, text) ==
    /\ scores[p] < MaxScore
    /\ scores' = [scores EXCEPT ![p] = @ + 1]
    /\ Notify(ChatNotice(p, text))
    /\ Metrics!incr_recv_packet
    /\ Metrics!incr_send_packet(2)
    /\ Metrics!incr_req({"ChatReq"})
    /\ UNCHANGED <<reports, last_recv_packets, last_send_packets, recv_reported, send_reported,
                   heartbeat_rtt_count, total_heartbeat_rtt_ms>>

\* MetricsReporter, once a second.  One without a packet changes nothing.
Report ==
    /\ Idle
    /\ reports < MaxReports /\ (total_recv_packets # last_recv_packets \/ total_send_packets # last_send_packets)
    /\ reports' = reports + 1
    /\ Metrics!report_once
    /\ UNCHANGED <<connection_vars, scores>>

\* The steps of the connection that are no handler of a message.
Transport ==
    /\ \/ \E n \in ReadSizes : ServerRead(n) \/ ClientRead(n)
       \/ OnRead \/ OnWrite \/ OnWriteAborted \/ Close \/ ClientParse
       \/ write = "busy" /\ Writes
       \/ \E m \in Requests : ClientSend(m)
    /\ UNCHANGED <<scores, reports, metrics_vars>>

ProtocolNext ==
    \/ Transport
    \/ Handle
    \/ \E p \in Others, text \in Texts : Chat(p, text)
    \/ Report

ProtocolSpec == ProtocolInit /\ [][ProtocolNext]_protocol_vars
===============================================================================
