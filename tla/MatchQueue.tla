------------------------------ MODULE MatchQueue ------------------------------
(***************************************************************************)
(* The queue of players waiting for a room: src/match/MatchQueue.          *)
(*                                                                         *)
(* The class keeps the same players twice: queue_, a deque in arrival      *)
(* order, and in_queue_, a hash set that answers contains().  Its only     *)
(* user, MatchService::handle_match, refuses a player that is contained,   *)
(* joins it and pops a room's worth of players in the same handler, so the *)
(* three calls are one action here.                                        *)
(***************************************************************************)
EXTENDS Integers, Sequences, FiniteSets, SequencesExt

CONSTANTS
    PlayerIds,  \* the ids that may be asked to join
    RoomSize    \* players per room (2 in handle_match)

ASSUME RoomSizeAssumption == RoomSize \in Nat \ {0}

VARIABLES
    queue,      \* queue_: waiting players, the longest waiting first
    in_queue    \* in_queue_: the same players as a set

vars == <<queue, in_queue>>

Init == queue = <<>> /\ in_queue = {}

contains(p) == p \in in_queue

(***************************************************************************)
(* join followed by try_pop_matched_players(RoomSize).                     *)
(***************************************************************************)
\* Mutant: the anonymous id 0 is queued instead of the player's.
Joined_Anonymous(p) == Append(queue, 0)

Joined(p) == Append(queue, p)

\* Mutant: <= for <.
Matched_Late(p) ==
    IF Len(Joined(p)) <= RoomSize THEN <<>> ELSE SubSeq(Joined(p), 1, RoomSize)

Matched(p) ==
    IF Len(Joined(p)) < RoomSize THEN <<>> ELSE SubSeq(Joined(p), 1, RoomSize)

join_and_pop(p) ==
    /\ ~contains(p)
    /\ queue' = SubSeq(Joined(p), Len(Matched(p)) + 1, Len(Joined(p)))
    /\ in_queue' = (in_queue \cup {p}) \ ToSet(Matched(p))

(***************************************************************************)
(* leave: nothing unless the set holds the player; then it goes from the   *)
(* set, and its first occurrence goes from the deque.                      *)
(***************************************************************************)
FirstIndex(p) ==
    CHOOSE i \in 1..Len(queue) :
        queue[i] = p /\ \A j \in 1..Len(queue) : queue[j] = p => i <= j

\* Mutants: the deque is forgotten; the call is missing from the close callback.
leave_SetOnly(p) == in_queue' = in_queue \ {p} /\ queue' = queue
leave_Missing(p) == UNCHANGED vars

leave(p) ==
    /\ in_queue' = in_queue \ {p}
    /\ queue' = IF contains(p) /\ p \in ToSet(queue)
                THEN RemoveAt(queue, FirstIndex(p))
                ELSE queue

Next == \E p \in PlayerIds : join_and_pop(p) \/ leave(p)

Spec == Init /\ [][Next]_vars

-------------------------------------------------------------------------------
\* Only known players wait, in both representations.
TypeOK == queue \in Seq(PlayerIds) /\ in_queue \subseteq PlayerIds

\* The deque and the set agree: contains() answers what the deque holds, and
\* no player is queued twice, whatever the order of joins, leaves and pops.
Mirror ==
    /\ in_queue = ToSet(queue)
    /\ \A i, j \in 1..Len(queue) : queue[i] = queue[j] => i = j

\* A room's worth of players is never left waiting when the handler returns.
NeverFull == Len(queue) < RoomSize
===============================================================================
