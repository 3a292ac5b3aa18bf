----------------------------- MODULE MCGameServer -----------------------------
(* Small instances of GameServer for TLC. *)
EXTENDS GameServerProps, TLC

\* Clients and sessions are interchangeable; only used where no liveness is checked.
ClientAndSessionSymmetry == Permutations(Clients) \cup Permutations(Sessions)
===============================================================================
