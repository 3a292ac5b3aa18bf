---------------------------- MODULE PlayerPresence ----------------------------
(***************************************************************************)
(* What the server promises a player, without sessions, registries or      *)
(* timers: it is new, then online; a lost connection makes it offline, and *)
(* from there it comes back or is gone for good.  A seat is given in a     *)
(* room nobody sits in, to at most a room's worth of online players, is    *)
(* kept while the player is offline, and is given up only when it is gone. *)
(***************************************************************************)
EXTENDS Integers, FiniteSets

CONSTANTS Players, Rooms, RoomSize

VARIABLES
    status,  \* player -> "new", "online", "offline" or "gone"
    seat     \* player -> its room, or NoRoom

vars == <<status, seat>>

NoRoom == -1

Init == status = [p \in Players |-> "new"] /\ seat = [p \in Players |-> NoRoom]

Move(p, from, to) == status[p] = from /\ status' = [status EXCEPT ![p] = to]

Login(p) == Move(p, "new", "online") /\ UNCHANGED seat

Disconnect(p) == Move(p, "online", "offline") /\ UNCHANGED seat

Reconnect(p) == Move(p, "offline", "online") /\ UNCHANGED seat

Expire(p) == Move(p, "offline", "gone") /\ seat' = [seat EXCEPT ![p] = NoRoom]

\* A new room is given to those of its players that have no seat yet.
Seat(S) ==
    /\ S # {} /\ Cardinality(S) <= RoomSize
    /\ \A p \in S : status[p] = "online" /\ seat[p] = NoRoom
    /\ \E r \in Rooms :
        /\ \A p \in Players : seat[p] # r
        /\ seat' = [p \in Players |-> IF p \in S THEN r ELSE seat[p]]
    /\ UNCHANGED status

Next ==
    \/ \E p \in Players : Login(p) \/ Disconnect(p) \/ Reconnect(p) \/ Expire(p)
    \/ \E S \in SUBSET Players : Seat(S)

Spec == Init /\ [][Next]_vars
===============================================================================
