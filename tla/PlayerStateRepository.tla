------------------------- MODULE PlayerStateRepository -------------------------
(***************************************************************************)
(* What the server remembers of a player for ranking and rooms:            *)
(* src/player/MemoryPlayerStateRepository, with the read-modify-write      *)
(* sequences of its users.  name, online and the login times are left out: *)
(* nothing in the server reads them.                                       *)
(***************************************************************************)
EXTENDS Integers, UnorderedMap

CONSTANT PlayerIds

VARIABLE repo  \* states_ : player id -> PlayerState

NoRoom == -1

Init == repo = <<>>

\* save_player_state as LoginService::handle_login calls it for a new player.
save_new_player(p) == repo' = insert_or_assign(repo, p, [score |-> 0, room_id |-> NoRoom])

\* The load/modify/save loop at the end of RoomManager::create_room.
\* Mutant: the loaded copy is modified and not saved.
save_room_Copy(S, r) == UNCHANGED repo

save_room(S, r) ==
    repo' = [p \in DOMAIN repo |->
                IF p \in S THEN [repo[p] EXCEPT !.room_id = r] ELSE repo[p]]

\* RankingService::add_score(p, 1): load_player_state then update_score.
add_score(p) ==
    repo' = IF p \in DOMAIN repo THEN [repo EXCEPT ![p].score = @ + 1] ELSE repo

-------------------------------------------------------------------------------
\* Only players that logged in have an entry.
TypeOK ==
    /\ DOMAIN repo \subseteq PlayerIds
    /\ \A p \in DOMAIN repo : repo[p] \in [score : Nat, room_id : Int]
===============================================================================
