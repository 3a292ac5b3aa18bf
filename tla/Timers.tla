-------------------------------- MODULE Timers --------------------------------
(***************************************************************************)
(* The timing that GameServer leaves open: one player, the activity time   *)
(* of its session, the time of its disconnection, and the timers of the    *)
(* server and of its client, on a clock of half seconds.                   *)
(*                                                                         *)
(* A timer is the time left until it is due; once due, its handler runs    *)
(* within Lag, and arms it again for a whole period: the periods drift.    *)
(* Ages and timers move with Tick, which waits for what is overdue.        *)
(***************************************************************************)
EXTENDS Integers

CONSTANTS
    Lag,       \* how late a due handler may run
    Delay      \* how long a heartbeat may be on its way

Second == 2
Period == 5 * Second            \* of both checks, and of the client's heartbeat
HeartbeatTimeout == 15
ReconnectTimeout == 30

ASSUME TimingAssumption ==
    /\ Lag \in Nat /\ Delay \in Nat
    /\ Delay < Period
    /\ Period + Lag + Delay < (HeartbeatTimeout + 1) * Second

VARIABLES
    status,        \* the player: "online", "offline" or "gone"
    idle,          \* online: time since last_active_time_
    away,          \* offline: time since disconnected_time
    to_check,      \* heartbeat_timer_
    to_recheck,    \* check_reconnect_timer_
    client,        \* "beating", or "silent": heart_beat_enable_ is false
    to_beat,       \* beating: the client's timer_
    on_its_way,    \* how long a heartbeat may still travel, -1: none does
    silent         \* history: how long a silent client has been kept
                   \* (idle, away and to_beat are 0 when they mean nothing)

server_vars == <<status, idle, away, to_check, to_recheck>>
client_vars == <<client, to_beat, on_its_way, silent>>
vars == <<server_vars, client_vars>>

None == -1

Init ==
    /\ status = "online" /\ idle = 0 /\ away = 0
    /\ to_check \in 1..Period /\ to_recheck \in 1..Period
    /\ client = "beating" /\ to_beat = Period
    /\ on_its_way = None /\ silent = 0

\* Session::close, and the callback that marks the player as disconnected.
Closed == status' = "offline" /\ idle' = 0 /\ away' = 0 /\ on_its_way' = None

-------------------------------------------------------------------------------
\* Time passes, unless something must happen first.
Tick ==
    /\ to_check > -Lag /\ to_recheck > -Lag
    /\ client = "beating" => to_beat > -Lag
    /\ on_its_way # 0
    /\ to_check' = to_check - 1
    /\ to_recheck' = to_recheck - 1
    /\ idle' = IF status = "online" THEN idle + 1 ELSE idle
    /\ away' = IF status = "offline" THEN away + 1 ELSE away
    /\ to_beat' = IF client = "beating" THEN to_beat - 1 ELSE to_beat
    /\ on_its_way' = IF on_its_way = None THEN None ELSE on_its_way - 1
    /\ silent' = IF client = "silent" /\ status # "gone" THEN silent + 1 ELSE silent
    /\ UNCHANGED <<status, client>>

\* duration_cast rounds down: more than 15 s is 16 s at least.
\* Mutant: the limit itself is too long.
Overdue_AtLimit(age, seconds) == age \div Second >= seconds
Overdue(age, seconds) == age \div Second > seconds

\* ConnectionManager::check_timeout closes a silent session.
HeartbeatCheck ==
    /\ to_check <= 0
    /\ to_check' = Period
    /\ IF status = "online" /\ Overdue(idle, HeartbeatTimeout)
       THEN Closed
       ELSE UNCHANGED <<status, idle, away, on_its_way>>
    /\ UNCHANGED <<to_recheck, client, to_beat, silent>>

\* Mutant: the next check is set up twice as late.
Rearmed_Late == 2 * Period
Rearmed == Period

\* GameServer::check_reconnect_timeout removes a player whose window is over.
ReconnectCheck ==
    /\ to_recheck <= 0
    /\ to_recheck' = Rearmed
    /\ IF status = "offline" /\ Overdue(away, ReconnectTimeout)
       THEN status' = "gone" /\ away' = 0
       ELSE UNCHANGED <<status, away>>
    /\ UNCHANGED <<idle, to_check, client_vars>>

\* A packet of the client arrives: Session::parse_packet, handle_heartbeat.
Arrive ==
    /\ on_its_way # None
    /\ on_its_way' = None
    /\ idle' = 0
    /\ UNCHANGED <<status, away, to_check, to_recheck, client, to_beat, silent>>

\* The client stops sending (ClientSimulator::stop_heartbeat).
StopsBeating == client' = "silent" /\ to_beat' = 0

\* A read or write error closes the session, and a client that was sending ends too.
ConnectionLost ==
    /\ status = "online"
    /\ Closed
    /\ IF client = "beating" THEN StopsBeating ELSE UNCHANGED <<client, to_beat>>
    /\ UNCHANGED <<to_check, to_recheck, silent>>

-------------------------------------------------------------------------------
\* ClientSimulator::duration_send: the next heartbeat is timed from this one.
SendHeartbeat ==
    /\ client = "beating"
    /\ to_beat <= 0
    /\ on_its_way = None
    /\ on_its_way' = Delay
    /\ to_beat' = Period
    /\ UNCHANGED <<server_vars, client, silent>>

\* The client stops sending while its session lives on.
StopHeartbeat ==
    /\ client = "beating"
    /\ StopsBeating
    /\ UNCHANGED <<server_vars, on_its_way, silent>>

\* Session::start sets the activity time of the new session.
\* Mutant: it is not set.
ReconnectedIdle_Unset == (HeartbeatTimeout + 1) * Second
ReconnectedIdle == 0

\* A silent client reconnects (ClientSimulator::reconnect), at any time, and starts
\* its heartbeat again.  ReconnectService::handle_reconnect refuses it, and changes
\* nothing, unless the player is offline.
Reconnect ==
    /\ client = "silent" /\ status = "offline"
    /\ status' = "online" /\ idle' = ReconnectedIdle /\ away' = 0
    /\ client' = "beating" /\ to_beat' = Period
    /\ on_its_way' = None /\ silent' = 0
    /\ UNCHANGED <<to_check, to_recheck>>

Next ==
    \/ Tick \/ HeartbeatCheck \/ ReconnectCheck \/ Arrive \/ ConnectionLost
    \/ SendHeartbeat \/ StopHeartbeat \/ Reconnect

Spec == Init /\ [][Next]_vars

-------------------------------------------------------------------------------
TypeOK ==
    /\ status \in {"online", "offline", "gone"}
    /\ client \in {"beating", "silent"}
    /\ idle \in Nat /\ away \in Nat /\ silent \in Nat
    /\ to_check \in (-Lag)..Period /\ to_recheck \in (-Lag)..Period
    /\ to_beat \in (-Lag)..Period
    /\ on_its_way \in None..Delay

\* A client that sends its heartbeats is never closed by the heartbeat check, as late
\* as both sides' timers run and heartbeats arrive within TimingAssumption, and also
\* right after it has reconnected.
BeatingIsServed == client = "beating" => status = "online"

\* How long a limit may be exceeded: a check may just miss it.
JustMissed(seconds) == (seconds + 1) * Second - 1 + Period + Lag

\* There is a time to reconnect that is right whatever the phases and the drift of the
\* two checks: a client that has been silent for longer than the server may take to
\* notice, and for less than the window, is offline, and its reconnection is accepted.
\* Earlier the server may still hold the old session, later it may have removed the
\* player: either is refused.
ReconnectWindow ==
    /\ client = "silent"
    /\ silent > Delay + JustMissed(HeartbeatTimeout)
    /\ silent < (ReconnectTimeout + 1) * Second
    => status = "offline"

\* A client that falls silent for good is kept for a bounded time, whatever the
\* phases and the drift of the two checks: its last heartbeat may be on its way, the
\* heartbeat timeout passes, then the window, and each may just miss a check.
Forgotten == Delay + JustMissed(HeartbeatTimeout) + JustMissed(ReconnectTimeout)
SilentIsForgotten == silent <= Forgotten
===============================================================================
