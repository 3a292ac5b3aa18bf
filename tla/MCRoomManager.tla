----------------------------- MODULE MCRoomManager -----------------------------
(* Three players and three rooms: a player may be seated in every room, and a  *)
(* room may outlive the index entries of its players.                          *)
EXTENDS RoomManager

MCPlayerIds == 1..3
===============================================================================
