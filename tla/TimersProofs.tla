------------------------------ MODULE TimersProofs ------------------------------
(***************************************************************************)
(* The three bounds of Timers, for every lag of the timers and every delay *)
(* of a heartbeat that satisfy TimingAssumption: what the assumption asks  *)
(* for is what the code needs.                                             *)
(***************************************************************************)
EXTENDS Timers, TLAPS

\* An age that the last check let pass grew at most since then.
Checked ==
    /\ status = "online" => idle <= 2 * HeartbeatTimeout + 1 + (Period - to_check)
    /\ status = "offline" => away <= 2 * ReconnectTimeout + 1 + (Period - to_recheck)

\* A beating client's session is as old as its timer says, or, while a heartbeat is
\* on its way, as old as it was when that was sent and the time since.
Beating ==
    client = "beating" =>
        /\ status = "online"
        /\ on_its_way = None => idle <= Period - to_beat
        /\ on_its_way # None => idle <= Period + Lag + (Delay - on_its_way)

\* How long a silent client was kept, against the ages the server goes by.
Silent ==
    /\ client # "silent" => silent = 0
    /\ client = "silent" /\ status = "online" =>
          /\ silent <= idle + Delay
          /\ on_its_way # None => silent <= Delay - on_its_way
    /\ client = "silent" /\ status = "offline" =>
          away <= silent /\ silent <= away + Delay + JustMissed(HeartbeatTimeout)
    /\ client = "silent" /\ status = "gone" => silent >= (ReconnectTimeout + 1) * Second
    /\ silent <= Forgotten

TimersInv == TypeOK /\ Checked /\ Beating /\ Silent

\* The constants of the code, and what the assumption says of the others.
LEMMA Numbers ==
  /\ Second = 2 /\ Period = 10 /\ HeartbeatTimeout = 15 /\ ReconnectTimeout = 30 /\ None = -1
  /\ Lag \in Nat /\ Delay \in Nat
  /\ 10 + Lag + Delay < 32
  /\ JustMissed(HeartbeatTimeout) = 41 + Lag /\ JustMissed(ReconnectTimeout) = 71 + Lag
  /\ Forgotten = 112 + Delay + Lag + Lag
  BY TimingAssumption, SMT DEF Second, Period, HeartbeatTimeout, ReconnectTimeout, None, JustMissed,
     Forgotten

\* More than s whole seconds are s + 1 of them.
LEMMA OverdueFrom ==
  ASSUME NEW age \in Nat, NEW s \in Nat
  PROVE  Overdue(age, s) <=> age >= 2 * s + 2
  BY SMT DEF Overdue, Second

LEMMA InitTimers == Init => TimersInv
  BY Numbers, SMT DEF Init, TimersInv, TypeOK, Checked, Beating, Silent

LEMMA TickKeeps ==
  ASSUME TimersInv, Tick PROVE TimersInv'
<1>1. TypeOK'
  BY Numbers, SMT DEF TimersInv, TypeOK, Tick
<1>2. Checked'
  BY Numbers, SMT DEF TimersInv, TypeOK, Checked, Tick
<1>3. Beating'
  BY Numbers, SMT DEF TimersInv, TypeOK, Beating, Tick
<1>4. Silent'
  BY Numbers, SMT DEF TimersInv, TypeOK, Checked, Silent, Tick
<1> QED BY <1>1, <1>2, <1>3, <1>4 DEF TimersInv

LEMMA HeartbeatCheckKeeps ==
  ASSUME TimersInv, HeartbeatCheck PROVE TimersInv'
<1>1. Overdue(idle, HeartbeatTimeout) <=> idle >= 32
  BY Numbers, OverdueFrom, SMT DEF TimersInv, TypeOK
<1>2. CASE status = "online" /\ Overdue(idle, HeartbeatTimeout)
  <2>1. /\ status' = "offline" /\ idle' = 0 /\ away' = 0 /\ on_its_way' = None /\ to_check' = Period
        /\ UNCHANGED <<to_recheck, client, to_beat, silent>>
    BY <1>2 DEF HeartbeatCheck, Closed
  <2>2. TypeOK' /\ Checked'
    BY <1>1, <1>2, <2>1, Numbers, SMT DEF TimersInv, TypeOK, Checked
  <2>3. Beating'
    BY <1>1, <1>2, <2>1, Numbers, SMT DEF TimersInv, TypeOK, Beating
  <2>4. Silent'
    BY <1>1, <1>2, <2>1, Numbers, SMT DEF TimersInv, TypeOK, Checked, Silent
  <2> QED BY <2>2, <2>3, <2>4 DEF TimersInv
<1>3. CASE ~(status = "online" /\ Overdue(idle, HeartbeatTimeout))
  <2>1. to_check' = Period
        /\ UNCHANGED <<status, idle, away, on_its_way, to_recheck, client, to_beat, silent>>
    BY <1>3 DEF HeartbeatCheck
  <2>2. TypeOK' /\ Checked'
    BY <1>1, <1>3, <2>1, Numbers, SMT DEF TimersInv, TypeOK, Checked
  <2>3. Beating' /\ Silent'
    BY <2>1, Zenon DEF TimersInv, Beating, Silent
  <2> QED BY <2>2, <2>3 DEF TimersInv
<1> QED BY <1>2, <1>3

LEMMA ReconnectCheckKeeps ==
  ASSUME TimersInv, ReconnectCheck PROVE TimersInv'
<1>1. Overdue(away, ReconnectTimeout) <=> away >= 62
  BY Numbers, OverdueFrom, SMT DEF TimersInv, TypeOK
<1>2. to_recheck' = Period /\ UNCHANGED <<idle, to_check, client_vars>>
  BY DEF ReconnectCheck, Rearmed
<1>3. CASE status = "offline" /\ Overdue(away, ReconnectTimeout)
  <2>1. status' = "gone" /\ away' = 0
    BY <1>3 DEF ReconnectCheck
  <2>2. TypeOK' /\ Checked'
    BY <1>1, <1>2, <1>3, <2>1, Numbers, SMT DEF TimersInv, TypeOK, Checked, client_vars
  <2>3. Beating' /\ Silent'
    BY <1>1, <1>2, <1>3, <2>1, Numbers, SMT DEF TimersInv, TypeOK, Beating, Silent, client_vars
  <2> QED BY <2>2, <2>3 DEF TimersInv
<1>4. CASE ~(status = "offline" /\ Overdue(away, ReconnectTimeout))
  <2>1. UNCHANGED <<status, away>>
    BY <1>4 DEF ReconnectCheck
  <2>2. TypeOK' /\ Checked'
    BY <1>1, <1>2, <1>4, <2>1, Numbers, SMT DEF TimersInv, TypeOK, Checked, client_vars
  <2>3. Beating' /\ Silent'
    BY <1>2, <2>1, Zenon DEF TimersInv, Beating, Silent, client_vars
  <2> QED BY <2>2, <2>3 DEF TimersInv
<1> QED BY <1>3, <1>4

LEMMA ArriveKeeps ==
  ASSUME TimersInv, Arrive PROVE TimersInv'
<1>1. TypeOK' /\ Checked'
  BY Numbers, SMT DEF TimersInv, TypeOK, Checked, Arrive
<1>2. Beating'
  BY Numbers, SMT DEF TimersInv, TypeOK, Beating, Arrive
<1>3. Silent'
  BY Numbers, SMT DEF TimersInv, TypeOK, Silent, Arrive
<1> QED BY <1>1, <1>2, <1>3 DEF TimersInv

LEMMA ConnectionLostKeeps ==
  ASSUME TimersInv, ConnectionLost PROVE TimersInv'
<1>1. TypeOK' /\ Checked'
  BY Numbers, SMT DEF TimersInv, TypeOK, Checked, ConnectionLost, Closed, StopsBeating
<1>2. Beating'
  BY Numbers, SMT DEF TimersInv, TypeOK, Beating, ConnectionLost, Closed, StopsBeating
<1>3. Silent'
  BY Numbers, SMT DEF TimersInv, TypeOK, Checked, Silent, ConnectionLost, Closed, StopsBeating
<1> QED BY <1>1, <1>2, <1>3 DEF TimersInv

\* The steps of the client.
LEMMA ClientKeeps ==
  ASSUME TimersInv, SendHeartbeat \/ StopHeartbeat \/ Reconnect PROVE TimersInv'
<1>1. CASE SendHeartbeat
  <2>1. TypeOK' /\ Checked' /\ Beating' /\ Silent'
    BY <1>1, Numbers, SMT DEF TimersInv, TypeOK, Checked, Beating, Silent, SendHeartbeat,
       server_vars
  <2> QED BY <2>1 DEF TimersInv
<1>2. CASE StopHeartbeat
  <2>1. TypeOK' /\ Checked' /\ Beating' /\ Silent'
    BY <1>2, Numbers, SMT DEF TimersInv, TypeOK, Checked, Beating, Silent, StopHeartbeat,
       StopsBeating, server_vars
  <2> QED BY <2>1 DEF TimersInv
<1>3. CASE Reconnect
  <2>1. TypeOK' /\ Checked' /\ Beating' /\ Silent'
    BY <1>3, Numbers, SMT DEF TimersInv, TypeOK, Checked, Beating, Silent, Reconnect,
       ReconnectedIdle
  <2> QED BY <2>1 DEF TimersInv
<1> QED BY <1>1, <1>2, <1>3

LEMMA TimersInductive ==
  ASSUME TimersInv, [Next]_vars PROVE TimersInv'
<1>1. CASE UNCHANGED vars
  BY <1>1, Zenon DEF vars, server_vars, client_vars, TimersInv, TypeOK, Checked, Beating,
     Silent
<1> QED
  BY <1>1, TickKeeps, HeartbeatCheckKeeps, ReconnectCheckKeeps, ArriveKeeps, ConnectionLostKeeps,
     ClientKeeps DEF Next

LEMMA TimersAlways == Spec => []TimersInv
<1>1. Init => TimersInv
  BY InitTimers
<1>2. TimersInv /\ [Next]_vars => TimersInv'
  BY TimersInductive
<1> QED BY <1>1, <1>2, PTL DEF Spec

-------------------------------------------------------------------------------
\* The session of a client that beats never gets as old as check_timeout's limit: no
\* check closes it.
THEOREM BeatingServed == Spec => []BeatingIsServed
<1>1. TimersInv => BeatingIsServed
  BY DEF TimersInv, Beating, BeatingIsServed
<1> QED BY <1>1, TimersAlways, PTL

\* A client that has been silent for longer than check_timeout may take to close its
\* session, and for less than the limit of check_reconnect_timeout, is offline: its
\* reconnection is accepted.
THEOREM WindowIsOpen == Spec => []ReconnectWindow
<1>1. TimersInv => ReconnectWindow
  BY Numbers, SMT DEF TimersInv, TypeOK, Checked, Silent, ReconnectWindow
<1> QED BY <1>1, TimersAlways, PTL

\* A client that fell silent is gone from the server after the two timeouts, each with
\* a check of it just missed.
THEOREM SilentForgotten == Spec => []SilentIsForgotten
<1>1. TimersInv => SilentIsForgotten
  BY DEF TimersInv, Silent, SilentIsForgotten
<1> QED BY <1>1, TimersAlways, PTL
=================================================================================
