----------------------------- MODULE ServerMetrics -----------------------------
(***************************************************************************)
(* src/util/ServerMetrics.cpp and the report of MetricsReporter.cpp: the   *)
(* counters of packets and requests, and the rates over the time between   *)
(* two reports.                                                            *)
(*                                                                         *)
(* The packet and request counters are 32-bit atomics, whatever their      *)
(* accessors return: they wrap.  The difference of two of them overflows,  *)
(* which is undefined: a build may wrap it, or widen it to the 64 bits it  *)
(* is returned in.  The round trips and how many they are have 64 bits and *)
(* wrap too: a client tells what it likes.  Half stands for 2^31, HalfMs    *)
(* for 2^63.                                                               *)
(*                                                                         *)
(* The four gauges (players, connections, rooms, queue) are overwritten    *)
(* from the managers by each report, are read by nothing but the line it   *)
(* prints, and are left out.                                               *)
(***************************************************************************)
EXTENDS Integers

CONSTANTS
    Half,        \* half the range of a counter of packets or requests
    HalfMs,      \* half the range of the round trips
    Kinds        \* the requests that are counted by themselves

VARIABLES
    total_recv_packets, total_send_packets,
    last_recv_packets, last_send_packets,
    req_count,                                      \* kind -> its counter
    heartbeat_rtt_count, total_heartbeat_rtt_ms,
    recv_reported, send_reported                    \* the sums of the rates reported

packet_vars == <<total_recv_packets, total_send_packets, last_recv_packets, last_send_packets>>
request_vars == <<req_count, heartbeat_rtt_count, total_heartbeat_rtt_ms>>
report_vars == <<recv_reported, send_reported>>
vars == <<packet_vars, request_vars, report_vars>>

Init ==
    /\ total_recv_packets = 0 /\ total_send_packets = 0
    /\ last_recv_packets = 0 /\ last_send_packets = 0
    /\ req_count = [k \in Kinds |-> 0]
    /\ heartbeat_rtt_count = 0 /\ total_heartbeat_rtt_ms = 0
    /\ recv_reported = 0 /\ send_reported = 0

Wrapped(n, half) == ((n + half) % (2 * half)) - half

incr_recv_packet == total_recv_packets' = Wrapped(total_recv_packets + 1, Half)
incr_send_packet(n) == total_send_packets' = Wrapped(total_send_packets + n, Half)

incr_req(kinds) ==
    req_count' = [k \in Kinds |-> IF k \in kinds THEN Wrapped(req_count[k] + 1, Half) ELSE req_count[k]]

record_heartbeat(rtt) ==
    /\ heartbeat_rtt_count' = Wrapped(heartbeat_rtt_count + IF rtt < 0 THEN 0 ELSE 1, HalfMs)
    /\ total_heartbeat_rtt_ms' = Wrapped(total_heartbeat_rtt_ms + IF rtt < 0 THEN 0 ELSE rtt, HalfMs)

\* What the difference may come out as.
Rates(current, last) == {Wrapped(current - last, Half), current - last}
calc_recv_qps == Rates(total_recv_packets, last_recv_packets)
calc_send_qps == Rates(total_send_packets, last_send_packets)

\* Mutant: a report forgets to start the next period.
last_packets_Kept == UNCHANGED <<last_recv_packets, last_send_packets>>
last_packets ==
    /\ last_recv_packets' = total_recv_packets
    /\ last_send_packets' = total_send_packets

report_once ==
    /\ \E rate \in calc_recv_qps : recv_reported' = recv_reported + rate
    /\ \E rate \in calc_send_qps : send_reported' = send_reported + rate
    /\ last_packets
    /\ UNCHANGED <<total_recv_packets, total_send_packets, request_vars>>
===============================================================================
