--------------------------- MODULE RoomManagerProofs ---------------------------
(***************************************************************************)
(* RoomIndex and RoomLasts for every set of players and number of rooms.   *)
(* The unchecked dereferences in remove_player and in the two marks rest   *)
(* on RoomIndex; it is inductive once room ids are known to be fresh.  No  *)
(* room is ever empty, so a room that nobody leaves is never over.         *)
(***************************************************************************)
EXTENDS RoomManager, FiniteSetTheorems, TLAPS

NoEmptyRoom == \A r \in DOMAIN rooms : rooms[r].player_ids # {}

RoomInv == TypeOK /\ RoomIndex /\ NoEmptyRoom

LEMMA InitRooms == Init => RoomInv
  BY DEF Init, RoomInv, TypeOK, RoomIndex, NoEmptyRoom

\* A new room has an id no other room has, so inserting it changes no entry.
LEMMA CreateKeeps ==
  ASSUME RoomInv, NEW S \in SUBSET PlayerIds, S # {}, create_room(S)
  PROVE  RoomInv'
<1> DEFINE n == next_room_id
<1>1. /\ n \in Nat \ {0} /\ next_room_id' = n + 1
      /\ n \notin DOMAIN rooms
  BY DEF RoomInv, TypeOK, create_room, NextRoomId
<1>2. /\ DOMAIN rooms' = DOMAIN rooms \cup {n}
      /\ \A r \in DOMAIN rooms : rooms'[r] = rooms[r]
      /\ rooms'[n] = Room(S)
  BY <1>1 DEF create_room, insert
<1>3. /\ DOMAIN player_room_map' = DOMAIN player_room_map \cup S
      /\ \A p \in DOMAIN player_room_map : player_room_map'[p] = player_room_map[p]
      /\ \A p \in S \ DOMAIN player_room_map : player_room_map'[p] = n
  BY DEF create_room, Indexed, insert
<1>4. Room(S) \in RoomType
  <2>1. [p \in S |-> Online] \in [S -> {Online, Offline}]
    OBVIOUS
  <2>2. [p \in S |-> Online] \in ConnStates
    BY <2>1 DEF ConnStates
  <2> QED BY <2>2 DEF RoomType, Room
<1>5. TypeOK'
  BY <1>1, <1>2, <1>3, <1>4 DEF RoomInv, TypeOK
<1>6. RoomIndex'
  BY <1>1, <1>2, <1>3 DEF RoomInv, RoomIndex, Room
<1>7. NoEmptyRoom'
  BY <1>2 DEF RoomInv, NoEmptyRoom, Room
<1> QED BY <1>5, <1>6, <1>7 DEF RoomInv

\* Only the player itself leaves the room and the index, and the room goes only
\* when it lists nobody: whoever else is indexed under it is still listed.
LEMMA RemoveKeeps ==
  ASSUME RoomInv, NEW p, remove_player(p)
  PROVE  RoomInv'
<1>1. CASE p \notin DOMAIN player_room_map
  BY <1>1 DEF remove_player, RoomInv, TypeOK, RoomIndex, NoEmptyRoom
<1>2. CASE p \in DOMAIN player_room_map
  <2> DEFINE r == player_room_map[p]
             left == rooms[r].player_ids \ {p}
  <2>1. r \in DOMAIN rooms /\ rooms[r] \in RoomType
    BY <1>2 DEF RoomInv, RoomIndex, TypeOK
  <2>2. /\ next_room_id' = next_room_id
        /\ DOMAIN player_room_map' = DOMAIN player_room_map \ {p}
        /\ \A q \in DOMAIN player_room_map \ {p} : player_room_map'[q] = player_room_map[q]
    BY <1>2 DEF remove_player, erase, Restrict
  <2>3. CASE left = {}
    <3>1. /\ DOMAIN rooms' = DOMAIN rooms \ {r}
          /\ \A i \in DOMAIN rooms \ {r} : rooms'[i] = rooms[i]
      BY <1>2, <2>3 DEF remove_player, RoomIsOver, erase, Restrict
    <3>2. \A q \in DOMAIN player_room_map \ {p} : player_room_map[q] # r
      BY <2>3 DEF RoomInv, RoomIndex
    <3> QED BY <2>2, <3>1, <3>2 DEF RoomInv, TypeOK, RoomIndex, NoEmptyRoom
  <2>4. CASE left # {}
    <3>1. rooms' = [rooms EXCEPT ![r].player_ids = left]
      BY <1>2, <2>4 DEF remove_player, RoomIsOver
    <3>2. /\ DOMAIN rooms' = DOMAIN rooms
          /\ \A i \in DOMAIN rooms \ {r} : rooms'[i] = rooms[i]
          /\ rooms'[r] = [player_ids |-> left, conn |-> rooms[r].conn]
      BY <2>1, <3>1 DEF RoomType
    <3>3. rooms'[r] \in RoomType
      BY <2>1, <3>2 DEF RoomType
    <3> HIDE DEF left
    <3>4. TypeOK'
      BY <2>2, <3>2, <3>3 DEF RoomInv, TypeOK
    <3>5. RoomIndex' /\ NoEmptyRoom'
      BY <2>2, <2>4, <3>2 DEF RoomInv, RoomIndex, NoEmptyRoom, left
    <3> QED BY <3>4, <3>5 DEF RoomInv
  <2> QED BY <2>3, <2>4
<1> QED BY <1>1, <1>2

\* A mark changes a connection flag and nothing else.
LEMMA MarkKeeps ==
  ASSUME RoomInv, NEW p, NEW c \in {Online, Offline}, MarkPlayer(p, c)
  PROVE  RoomInv'
<1> DEFINE r == player_room_map[p]
<1>1. UNCHANGED <<player_room_map, next_room_id>>
  BY DEF MarkPlayer
<1>2. CASE ~(p \in DOMAIN player_room_map /\ p \in DOMAIN rooms[r].conn)
  BY <1>1, <1>2 DEF MarkPlayer, RoomInv, TypeOK, RoomIndex, NoEmptyRoom
<1>3. CASE p \in DOMAIN player_room_map /\ p \in DOMAIN rooms[r].conn
  <2>1. r \in DOMAIN rooms /\ rooms[r] \in RoomType
    BY <1>3 DEF RoomInv, RoomIndex, TypeOK
  <2>2. rooms' = [rooms EXCEPT ![r].conn[p] = c]
    BY <1>3 DEF MarkPlayer
  <2> DEFINE f == [rooms[r].conn EXCEPT ![p] = c]
  <2>3. /\ DOMAIN rooms' = DOMAIN rooms
        /\ \A i \in DOMAIN rooms \ {r} : rooms'[i] = rooms[i]
        /\ rooms'[r] = [player_ids |-> rooms[r].player_ids, conn |-> f]
    BY <2>1, <2>2 DEF RoomType
  <2>4. f \in ConnStates /\ DOMAIN f = DOMAIN rooms[r].conn
    <3>1. PICK S \in SUBSET PlayerIds : rooms[r].conn \in [S -> {Online, Offline}]
      BY <2>1 DEF RoomType, ConnStates
    <3>2. f \in [S -> {Online, Offline}]
      BY <3>1
    <3> QED BY <3>1, <3>2 DEF ConnStates
  <2> HIDE DEF f
  <2>5. rooms'[r] \in RoomType
    BY <2>1, <2>3, <2>4 DEF RoomType
  <2>6. TypeOK'
    BY <1>1, <2>3, <2>5 DEF RoomInv, TypeOK
  <2>7. RoomIndex' /\ NoEmptyRoom'
    BY <1>1, <2>3, <2>4 DEF RoomInv, RoomIndex, NoEmptyRoom
  <2> QED BY <2>6, <2>7 DEF RoomInv
<1> QED BY <1>2, <1>3

LEMMA RoomInvInductive == RoomInv /\ [Next]_vars => RoomInv'
<1> SUFFICES ASSUME RoomInv, [Next]_vars PROVE RoomInv'
  OBVIOUS
<1>1. ASSUME NEW p \in PlayerIds, NEW q \in PlayerIds, create_room({p, q}) PROVE RoomInv'
  BY <1>1, CreateKeeps
<1>2. ASSUME NEW p \in PlayerIds, remove_player(p) PROVE RoomInv'
  BY <1>2, RemoveKeeps
<1>3. ASSUME NEW p \in PlayerIds,
             mark_player_disconnected(p) \/ mark_player_reconnected(p)
      PROVE  RoomInv'
  BY <1>3, MarkKeeps DEF mark_player_disconnected, mark_player_reconnected
<1>4. CASE UNCHANGED vars
  BY <1>4 DEF vars, RoomInv, TypeOK, RoomIndex, NoEmptyRoom
<1> QED BY <1>1, <1>2, <1>3, <1>4 DEF Next

\* Rooms have ids that were handed out, and only players are listed and indexed.
THEOREM RoomTypes == Spec => []TypeOK
<1>1. Init => RoomInv
  BY InitRooms
<1>2. RoomInv /\ [Next]_vars => RoomInv'
  BY RoomInvInductive
<1>3. RoomInv => TypeOK
  BY DEF RoomInv
<1> QED BY <1>1, <1>2, <1>3, PTL DEF Spec

\* The index never names a missing room or one that does not list the player.
THEOREM RoomIndexSound == Spec => []RoomIndex
<1>1. Init => RoomInv
  BY InitRooms
<1>2. RoomInv /\ [Next]_vars => RoomInv'
  BY RoomInvInductive
<1>3. RoomInv => RoomIndex
  BY DEF RoomInv
<1> QED BY <1>1, <1>2, <1>3, PTL DEF Spec

-------------------------------------------------------------------------------
\* What RoomLasts says of one step.
Leaving == DOMAIN player_room_map \ DOMAIN player_room_map'
Staying(r) == rooms[r].player_ids \ {p \in Leaving : player_room_map[p] = r}

RoomStep ==
    /\ Cardinality(Leaving) <= 1
    /\ \A r \in DOMAIN rooms :
          /\ r \in DOMAIN rooms' <=> Staying(r) # {}
          /\ r \in DOMAIN rooms' => rooms'[r].player_ids = Staying(r)

\* A step that takes nobody out of the index and keeps every room's list.
LEMMA NobodyLeaves ==
  ASSUME RoomInv, Leaving = {},
         \A r \in DOMAIN rooms : /\ r \in DOMAIN rooms'
                                 /\ rooms'[r].player_ids = rooms[r].player_ids
  PROVE  RoomStep
<1>1. Cardinality(Leaving) = 0
  BY FS_EmptySet
<1>2. ASSUME NEW r \in DOMAIN rooms PROVE Staying(r) = rooms[r].player_ids
  BY DEF Staying
<1> QED BY <1>1, <1>2 DEF RoomStep, RoomInv, NoEmptyRoom

LEMMA CreateStep ==
  ASSUME RoomInv, NEW S, create_room(S)
  PROVE  RoomStep
<1>1. Leaving = {}
  BY DEF Leaving, create_room, Indexed, insert
<1>2. ASSUME NEW r \in DOMAIN rooms
      PROVE  r \in DOMAIN rooms' /\ rooms'[r] = rooms[r]
  BY DEF create_room, insert
<1> QED BY <1>1, <1>2, NobodyLeaves

LEMMA RemoveStep ==
  ASSUME RoomInv, NEW p, remove_player(p)
  PROVE  RoomStep
<1>1. CASE p \notin DOMAIN player_room_map
  BY <1>1, NobodyLeaves DEF Leaving, remove_player
<1>2. CASE p \in DOMAIN player_room_map
  <2> DEFINE r == player_room_map[p]
             left == rooms[r].player_ids \ {p}
  <2>1. r \in DOMAIN rooms /\ rooms[r] \in RoomType
    BY <1>2 DEF RoomInv, RoomIndex, TypeOK
  <2>2. Leaving = {p}
    BY <1>2 DEF Leaving, remove_player, erase, Restrict
  <2>3. Cardinality(Leaving) = 1
    BY <2>2, FS_Singleton
  <2>4. Staying(r) = left /\ \A i \in DOMAIN rooms \ {r} : Staying(i) = rooms[i].player_ids
    BY <2>2 DEF Staying
  <2>5. CASE left = {}
    <3>1. /\ DOMAIN rooms' = DOMAIN rooms \ {r}
          /\ \A i \in DOMAIN rooms \ {r} : rooms'[i] = rooms[i]
      BY <1>2, <2>5 DEF remove_player, RoomIsOver, erase, Restrict
    <3> QED BY <2>1, <2>3, <2>4, <2>5, <3>1 DEF RoomStep, RoomInv, NoEmptyRoom
  <2>6. CASE left # {}
    <3>1. rooms' = [rooms EXCEPT ![r].player_ids = left]
      BY <1>2, <2>6 DEF remove_player, RoomIsOver
    <3>2. /\ DOMAIN rooms' = DOMAIN rooms
          /\ \A i \in DOMAIN rooms \ {r} : rooms'[i] = rooms[i]
          /\ rooms'[r].player_ids = left
      BY <2>1, <3>1 DEF RoomType
    <3> HIDE DEF left
    <3> QED BY <2>1, <2>3, <2>4, <2>6, <3>2 DEF RoomStep, RoomInv, NoEmptyRoom
  <2> QED BY <2>5, <2>6
<1> QED BY <1>1, <1>2

LEMMA MarkStep ==
  ASSUME RoomInv, NEW p, NEW c, MarkPlayer(p, c)
  PROVE  RoomStep
<1>1. Leaving = {}
  BY DEF Leaving, MarkPlayer
<1>2. ASSUME NEW r \in DOMAIN rooms
      PROVE  r \in DOMAIN rooms' /\ rooms'[r].player_ids = rooms[r].player_ids
  <2>1. rooms[r] \in RoomType
    BY DEF RoomInv, TypeOK
  <2> QED BY <2>1 DEF MarkPlayer, RoomType
<1> QED BY <1>1, <1>2, NobodyLeaves

\* For every set of players and number of rooms, a room is erased in the step in
\* which its last listed player leaves, never earlier or later, and no step touches
\* anyone's seat but the leaver's.
THEOREM RoomsLast == Spec => RoomLasts
<1>1. RoomInv /\ [Next]_vars => [RoomStep]_vars
  <2> SUFFICES ASSUME RoomInv, Next PROVE RoomStep
    OBVIOUS
  <2>1. ASSUME NEW S, create_room(S) PROVE RoomStep
    BY <2>1, CreateStep
  <2>2. ASSUME NEW p, remove_player(p) PROVE RoomStep
    BY <2>2, RemoveStep
  <2>3. ASSUME NEW p, mark_player_disconnected(p) \/ mark_player_reconnected(p)
        PROVE  RoomStep
    BY <2>3, MarkStep DEF mark_player_disconnected, mark_player_reconnected
  <2> QED BY <2>1, <2>2, <2>3 DEF Next
<1>2. [RoomStep]_vars =>
        [LET L == DOMAIN player_room_map \ DOMAIN player_room_map'
             St(r) == rooms[r].player_ids \ {p \in L : player_room_map[p] = r}
         IN  /\ Cardinality(L) <= 1
             /\ \A r \in DOMAIN rooms :
                   /\ r \in DOMAIN rooms' <=> St(r) # {}
                   /\ r \in DOMAIN rooms' => rooms'[r].player_ids = St(r)]_vars
  BY DEF RoomStep, Leaving, Staying
<1>3. Init => RoomInv
  BY InitRooms
<1>4. RoomInv /\ [Next]_vars => RoomInv'
  BY RoomInvInductive
<1> QED BY <1>1, <1>2, <1>3, <1>4, PTL DEF Spec, RoomLasts
===============================================================================
