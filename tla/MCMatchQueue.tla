----------------------------- MODULE MCMatchQueue -----------------------------
(* A small instance of MatchQueue.  RoomSize 4 rather than the 2 of           *)
(* handle_match, so that up to three players wait at once and order matters.  *)
EXTENDS MatchQueue

MCPlayerIds == 1..6
===============================================================================
