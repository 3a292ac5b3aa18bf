----------------------------- MODULE ProtocolProps -----------------------------
(* What the connection and the services behind it guarantee end to end.       *)
EXTENDS Protocol, ConnectionProps

FairProtocolSpec == ProtocolSpec /\ Fairness

OfType(ms, type) == Selected(ms, {i \in DOMAIN ms : ms[i].msg_id = Ids[type]})

\* Every heartbeat answer that the client gets carries the time of the heartbeat it
\* answers, the k-th answer that of the k-th heartbeat: the client computes its
\* round trip from it, across two codecs, two buffers and one queue.
HeartbeatEcho ==
    LET asked == OfType(requests, "HeartbeatReq")
        answered == OfType(received, "HeartbeatResp")
    IN  /\ Len(answered) <= Len(asked)
        /\ \A k \in DOMAIN answered :
              Parse(HeartbeatRespFields, answered[k].body).client_time_ms =
                  Parse(HeartbeatReqFields, asked[k].body).client_time_ms

RankingsSeen ==
    LET resps == OfType(received, "RankingResp")
    IN  [k \in DOMAIN resps |-> Parse(RankingRespFields, resps[k].body).items]

Listed(items) == {items[i].player_id : i \in DOMAIN items}
ScoreIn(items, p) == items[CHOOSE i \in DOMAIN items : items[i].player_id = p].score

\* Rankings are true and in order: each is sorted and lists nobody twice, no score
\* is above the present one, a player's score never falls from one ranking to the
\* next, and whoever drops out of a ranking had no higher score than its last one.
RankingsTrue ==
    \A k \in DOMAIN RankingsSeen : LET items == RankingsSeen[k] IN
        /\ \A i, j \in DOMAIN items :
              i < j => items[i].player_id # items[j].player_id /\ items[i].score >= items[j].score
        /\ \A p \in Listed(items) : ScoreIn(items, p) <= scores[p]
        /\ \A n \in 1..(k - 1) : \A p \in Listed(items) \cap Listed(RankingsSeen[n]) :
              ScoreIn(RankingsSeen[n], p) <= ScoreIn(items, p)
        /\ \A n \in 1..(k - 1) : \A p \in Listed(RankingsSeen[n]) \ Listed(items) :
              items # <<>> => ScoreIn(RankingsSeen[n], p) <= Last(items).score

Chats == SumFunction(scores)

\* Whole turns of a counter apart, and the same while there is no turn.
SameCount(n, counted, half) == (n - counted) % (2 * half) = 0 /\ (n < half => n = counted)

\* The rates of all reports and of the time since add up to the packets, and the
\* counters to the requests, also when the 32-bit counters wrap between two reports
\* (then up to whole turns of the counter): nothing is counted twice or missed
\* where the reporter's timer meets a half-parsed read or a half-written queue.
PacketsCounted ==
    /\ \A rate \in Metrics!calc_recv_qps : SameCount(Len(handled) + Chats, recv_reported + rate, Half)
    /\ \A rate \in Metrics!calc_send_qps : SameCount(Len(replies) + Chats, send_reported + rate, Half)
    /\ \A k \in Registered :
          SameCount(Len(OfType(handled, k)) + IF k = "ChatReq" THEN Chats ELSE 0, req_count[k], Half)

\* The two numbers behind the average round trip of the report, how many there are and
\* what they add up to, are those of the positive round trips that the handled
\* heartbeats have told: the first heartbeat of a client, which has none yet, neither
\* lowers it nor counts.  The sum is the client's to choose and wraps: it is right up
\* to whole turns of 64 bits, and exactly while the round trips fit into them.
Told ==
    LET beats == OfType(handled, "HeartbeatReq")
    IN  [k \in DOMAIN beats |-> Parse(HeartbeatReqFields, beats[k].body).last_rtt_ms]
Measured == LET told == Told IN Selected(told, {k \in DOMAIN told : told[k] > 0})
AverageRtt ==
    LET measured == Measured IN
    /\ SameCount(Len(measured), heartbeat_rtt_count, HalfMs)
    /\ SameCount(Total(measured), total_heartbeat_rtt_ms, HalfMs)

-------------------------------------------------------------------------------
(* The generated classes, over sample values of each kind of field. *)
CONSTANT Samples    \* [nums, strings, lists]: sets of values
ASSUME SamplesAssumption ==
    Samples.nums \subseteq Int64s /\ Samples.strings \subseteq Strings /\ Samples.lists \subseteq Lists

SampleMessages == MessagesOf(Samples.nums, Samples.strings, Samples.lists)

\* The classes keep no state: it is enough to try the samples before any message.
Quiet == requests = <<>> /\ replies = <<>> /\ ~closed

\* Every message that is built is read back as it was, whatever is negative, empty,
\* longer than one length byte or nested in it: the bytes hold all of its fields.
RoundTrip ==
    Quiet => \A sample \in SampleMessages :
        LET fields == sample[1]
            m == sample[2]
            bytes == Serialize(fields, m)
        IN  Parses(bytes) /\ Parse(fields, bytes) = m

\* ByteSizeLong, which sizes the buffer, announces what _InternalSerialize writes.
SizeExact ==
    Quiet => \A sample \in SampleMessages :
        LET fields == sample[1]
            m == sample[2]
        IN  ByteSize(fields, m) = Len(Serialize(fields, m))
===============================================================================
