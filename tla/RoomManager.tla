------------------------------ MODULE RoomManager ------------------------------
(***************************************************************************)
(* Rooms and the index from players to rooms: src/room/RoomManager and     *)
(* the state of src/room/Room.                                             *)
(*                                                                         *)
(* Two structures describe who sits where: each Room lists its players,    *)
(* and player_room_map_ names one room per player.  remove_player and the  *)
(* two mark operations go through the map and dereference the room they    *)
(* find without a check, so the map must never name a room that is gone.   *)
(***************************************************************************)
EXTENDS Integers, FiniteSets, UnorderedMap

CONSTANTS
    PlayerIds,  \* players that may be seated
    MaxRooms    \* bound on the number of rooms ever created

VARIABLES
    rooms,            \* rooms_: room id -> Room
    player_room_map,  \* player_room_map_: player id -> room id
    next_room_id      \* next_room_id_

vars == <<rooms, player_room_map, next_room_id>>

Online == "online"
Offline == "offline"
NoRoom == -1

\* A Room: the players listed (player_ids_, distinct because the match queue
\* hands out distinct ids) and the connection state of everyone it was built
\* with (player_states_, which remove_player leaves alone).
Room(S) == [player_ids |-> S, conn |-> [p \in S |-> Online]]

Init ==
    /\ rooms = <<>>
    /\ player_room_map = <<>>
    /\ next_room_id = 1

get_room_id_by_player(p) ==
    IF p \in DOMAIN player_room_map THEN player_room_map[p] ELSE NoRoom

(***************************************************************************)
(* create_room.  insert keeps an existing entry, so a player seated a      *)
(* second time stays indexed under its first room.  Notifying the players  *)
(* and saving their room in the repository is the composition's part.      *)
(***************************************************************************)
\* generate_room_id: what it leaves in next_room_id_.  Mutant: it does not count.
NextRoomId_Same == next_room_id
NextRoomId == next_room_id + 1

Indexed(S) == insert(player_room_map, [p \in S |-> next_room_id])

create_room(S) ==
    /\ next_room_id <= MaxRooms
    /\ rooms' = insert(rooms, [r \in {next_room_id} |-> Room(S)])
    /\ player_room_map' = Indexed(S)
    /\ next_room_id' = NextRoomId

\* When a room whose listed players are `left` is erased.  Mutants: a room is
\* erased while one player is still in it; it is never erased.
RoomIsOver_Early(left) == Cardinality(left) <= 1
RoomIsOver_Never(left) == FALSE
RoomIsOver(left) == left = {}

\* Mutant: remove_room, which empties the whole room, for remove_player.
remove_player_Room(p) ==
    LET r == get_room_id_by_player(p) IN
    /\ UNCHANGED next_room_id
    /\ rooms' = erase(rooms, r)
    /\ player_room_map' =
          Restrict(player_room_map, {q \in DOMAIN player_room_map : player_room_map[q] # r})

\* remove_player: the room of the map forgets the player, and goes when empty.
remove_player(p) ==
    /\ UNCHANGED next_room_id
    /\ IF p \notin DOMAIN player_room_map
       THEN UNCHANGED <<rooms, player_room_map>>
       ELSE LET r == player_room_map[p]
                left == rooms[r].player_ids \ {p}
            IN  /\ player_room_map' = erase(player_room_map, p)
                /\ rooms' = IF RoomIsOver(left)
                            THEN erase(rooms, r)
                            ELSE [rooms EXCEPT ![r].player_ids = left]

\* Room::mark_player_disconnected / mark_player_online, reached through the map.
MarkPlayer(p, c) ==
    /\ UNCHANGED <<player_room_map, next_room_id>>
    /\ rooms' = IF /\ p \in DOMAIN player_room_map
                   /\ p \in DOMAIN rooms[player_room_map[p]].conn
                THEN [rooms EXCEPT ![player_room_map[p]].conn[p] = c]
                ELSE rooms

mark_player_disconnected(p) == MarkPlayer(p, Offline)
\* Mutant: the room is not told of the reconnection.
mark_player_reconnected_Missing(p) == UNCHANGED vars
mark_player_reconnected(p) == MarkPlayer(p, Online)

Next ==
    \/ \E p, q \in PlayerIds : p # q /\ create_room({p, q})
    \/ \E p \in PlayerIds :
        \/ remove_player(p)
        \/ mark_player_disconnected(p)
        \/ mark_player_reconnected(p)

Spec == Init /\ [][Next]_vars

-------------------------------------------------------------------------------
ConnStates == UNION {[S -> {Online, Offline}] : S \in SUBSET PlayerIds}
RoomType == [player_ids : SUBSET PlayerIds, conn : ConnStates]

\* Room ids are those already handed out; the players are known ones.
TypeOK ==
    /\ next_room_id \in Nat \ {0}
    /\ DOMAIN rooms \subseteq 1..(next_room_id - 1)
    /\ \A r \in DOMAIN rooms : rooms[r] \in RoomType
    /\ DOMAIN player_room_map \subseteq PlayerIds

\* The index never dangles: the room it names for a player exists, lists the
\* player and tracks its connection, so no operation that goes through the map
\* (remove_player, the two marks) dereferences a missing room -- even when
\* players are seated in several rooms.
RoomIndex ==
    \A p \in DOMAIN player_room_map :
        /\ player_room_map[p] \in DOMAIN rooms
        /\ p \in rooms[player_room_map[p]].player_ids
        /\ p \in DOMAIN rooms[player_room_map[p]].conn

\* A room lasts exactly as long as it lists somebody.  A step takes at most one
\* player out of the index; the room the player was indexed under stops listing it,
\* and is erased in that step if it listed nobody else.  Every other room, and
\* everyone else in that one, stays: nobody is put out with another's departure or
\* timeout, and nobody is added to a room that exists.
RoomLasts ==
    [][LET Leaving == DOMAIN player_room_map \ DOMAIN player_room_map'
           Staying(r) == rooms[r].player_ids \ {p \in Leaving : player_room_map[p] = r}
       IN  /\ Cardinality(Leaving) <= 1
           /\ \A r \in DOMAIN rooms :
                 /\ r \in DOMAIN rooms' <=> Staying(r) # {}
                 /\ r \in DOMAIN rooms' => rooms'[r].player_ids = Staying(r)]_vars
===============================================================================
