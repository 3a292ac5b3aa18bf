-------------------------- MODULE PlayerStateManager --------------------------
(***************************************************************************)
(* The reconnection window: src/player/PlayerStateManager.                 *)
(*                                                                         *)
(* A player enters states_ when its connection closes for the first time,  *)
(* is Offline until it reconnects or times out, and leaves states_ on a    *)
(* timeout only: a reconnected player stays, Online.  The token of an      *)
(* entry is left out: LoginService::generate_token derives it from the id  *)
(* and ids are never reused, so the token of a player never changes.       *)
(***************************************************************************)
EXTENDS Integers, UnorderedMap

CONSTANT PlayerIds

VARIABLE states  \* states_: player id -> PlayerRuntimeState

Online == "online"
Offline == "offline"

Init == states = <<>>

\* conn_state == Offline: the players a reconnection may claim, and the
\* timeout may remove.  get_reconnect_timeout_players takes those of them that
\* have been offline for more than 30 s; how long they have is not modelled.
IsOffline(p) == p \in DOMAIN states /\ states[p].conn = Offline

\* save_online(p, r, token); mark_disconnected(p).  The insert keeps an entry
\* that is there already, its room included; the mark then overwrites the
\* connection state only.
disconnect(p, r) ==
    states' = IF p \in DOMAIN states
              THEN [states EXCEPT ![p].conn = Offline]
              ELSE insert(states, [q \in {p} |-> [conn |-> Offline, room_id |-> r]])

\* Mutant: only the copy that get_state returned is set online.
mark_online_Copy(p) == UNCHANGED states

mark_online(p) ==
    states' = IF p \in DOMAIN states
              THEN [states EXCEPT ![p].conn = Online]
              ELSE states

remove_player(p) == states' = erase(states, p)

-------------------------------------------------------------------------------
\* Entries are keyed by players, 0 standing for every anonymous connection.
TypeOK ==
    /\ DOMAIN states \subseteq PlayerIds \cup {0}
    /\ \A p \in DOMAIN states : states[p] \in [conn : {Online, Offline}, room_id : Int]
===============================================================================
