-------------------------- MODULE GameServerRoomsProofs --------------------------
(***************************************************************************)
(* Who waits and who is seated, for every number of clients, sessions,     *)
(* players, rooms and requests in flight, whatever was read before a close *)
(* and is dispatched after it: RoomsExact, when a login asks for a match   *)
(* once (~Rematch); QueueEntry, when connections identify themselves once  *)
(* (~LoginAnytime); Drained, with both.                                    *)
(***************************************************************************)
EXTENDS GameServerProofs

-------------------------------------------------------------------------------
(* RoomsExact.  A player asks for a match once, so it is in one place at most:   *)
(* its client has not asked, or the request is on the way, or it waits, or it is *)
(* seated, or it was.                                                            *)

\* The client of p, if p still has one, has asked for a match.
Spent(p) ==
    /\ p < next_player_id
    /\ \A c \in Clients : client[c].pid = p => client[c].asked

\* The i-th request that s has not handled asks for a match of p.
AsksAt(s, i, p) == i \in 1..Len(rx[s]) /\ rx[s][i] = MatchReq(p)

\* Clients share neither a session nor a player.
ClientsDistinct ==
    /\ \A c, d \in Clients : c # d =>
        /\ client[c].session = client[d].session => client[c].session = None
        /\ client[c].pid = client[d].pid => client[c].pid = 0
    /\ \A c \in Clients :
        /\ client[c].session # None => phase[client[c].session] # "free"
        /\ client[c].pid < next_player_id

AsksOnce ==
    /\ \A s \in Sessions : \A i \in Nat : \A p \in PlayerIds : AsksAt(s, i, p) =>
        /\ Spent(p) /\ p \notin in_queue /\ p \notin DOMAIN player_room_map
        /\ \A t \in Sessions : \A j \in Nat : AsksAt(t, j, p) => t = s /\ j = i
    /\ \A p \in in_queue : Spent(p) /\ p \notin DOMAIN player_room_map
    /\ \A p \in DOMAIN player_room_map : Spent(p)

\* Every player that logged in has an entry in the repository.
AllSaved == \A p \in PlayerIds : p < next_player_id => p \in DOMAIN repo

RoomsInv == ClientsDistinct /\ AsksOnce /\ AllSaved /\ RoomsExact

\* A step after which no client has a player that could ask again.
StaySpent == \A p \in PlayerIds : Spent(p) => Spent(p)'

\* A step after which fewer requests, if any, are on the way: those of a session
\* are a part of what they were, at most one of them having been taken.
NoNewAsks ==
    \E k \in [Sessions -> {0, 1}] :
        \A s \in Sessions : \A i \in 1..Len(rx'[s]) : rx'[s][i].op = "match" =>
            i + k[s] \in 1..Len(rx[s]) /\ rx'[s][i] = rx[s][i + k[s]]

LEMMA AsksOnceKept ==
  ASSUME ServerInv, AsksOnce, StaySpent, NoNewAsks,
         in_queue' \subseteq in_queue, DOMAIN player_room_map' \subseteq DOMAIN player_room_map
  PROVE  AsksOnce'
<1>1. PICK k \in [Sessions -> {0, 1}] :
        \A s \in Sessions : \A i \in 1..Len(rx'[s]) : rx'[s][i].op = "match" =>
            i + k[s] \in 1..Len(rx[s]) /\ rx'[s][i] = rx[s][i + k[s]]
  BY DEF NoNewAsks
<1>2. ASSUME NEW s \in Sessions, NEW i \in Nat, NEW p, AsksAt(s, i, p)'
      PROVE  i + k[s] \in Nat /\ AsksAt(s, i + k[s], p)
  BY <1>1, <1>2 DEF AsksAt, MatchReq
<1>3. ASSUME NEW s \in Sessions, NEW i \in Nat, NEW p \in PlayerIds, AsksAt(s, i, p)'
      PROVE  /\ Spent(p)' /\ p \notin in_queue' /\ p \notin DOMAIN player_room_map'
             /\ \A t \in Sessions : \A j \in Nat : AsksAt(t, j, p)' => t = s /\ j = i
  <2>1. i + k[s] \in Nat /\ AsksAt(s, i + k[s], p)
    BY <1>2, <1>3
  <2>2. /\ Spent(p) /\ p \notin in_queue /\ p \notin DOMAIN player_room_map
        /\ \A t \in Sessions : \A j \in Nat : AsksAt(t, j, p) => t = s /\ j = i + k[s]
    BY <2>1 DEF AsksOnce
  <2>3. ASSUME NEW t \in Sessions, NEW j \in Nat, AsksAt(t, j, p)' PROVE t = s /\ j = i
    <3>1. j + k[t] \in Nat /\ AsksAt(t, j + k[t], p)
      BY <1>2, <2>3
    <3>2. t = s /\ j + k[t] = i + k[s]
      BY <2>2, <3>1
    <3> QED BY <1>1, <3>2
  <2> QED BY <2>2, <2>3 DEF StaySpent
<1>4. \A p \in in_queue' : Spent(p)' /\ p \notin DOMAIN player_room_map'
  BY DEF StaySpent, AsksOnce, ServerInv, MQP!QueueInv, MQP!TypeOK
<1>5. \A p \in DOMAIN player_room_map' : Spent(p)'
  BY DEF StaySpent, AsksOnce, ServerInv, RMP!RoomInv, RMP!TypeOK
<1> QED BY <1>3, <1>4, <1>5 DEF AsksOnce
\* A step that gives no client a session or a player, and seats nobody.
LEMMA QuietKeepsRooms ==
  ASSUME ServerInv, RoomsInv, NoNewAsks, RoomsExact',
         \A c \in Clients :
            /\ client'[c].session # None =>
                  client'[c].session = client[c].session /\ phase'[client[c].session] # "free"
            /\ client'[c].pid # 0 =>
                  client'[c].pid = client[c].pid /\ (client[c].asked => client'[c].asked),
         next_player_id' = next_player_id,
         in_queue' \subseteq in_queue, DOMAIN player_room_map' \subseteq DOMAIN player_room_map,
         DOMAIN repo \subseteq DOMAIN repo'
  PROVE  RoomsInv'
<1>1. next_player_id \in Nat \ {0} /\ \A c \in Clients : client[c].pid \in Nat
  BY BoundsAssumption DEF ServerInv, RegistryTypes, OtherTypes, ClientType
<1>2. StaySpent
  BY BoundsAssumption DEF StaySpent, Spent, PlayerIds
<1>3. AsksOnce'
  BY <1>2, AsksOnceKept DEF RoomsInv
<1>4. ClientsDistinct'
  BY <1>1 DEF RoomsInv, ClientsDistinct
<1>5. AllSaved'
  BY DEF RoomsInv, AllSaved, PlayerIds
<1> QED BY <1>3, <1>4, <1>5 DEF RoomsInv

LEMMA RoomsExactKept ==
  ASSUME RoomsExact, DOMAIN rooms' = DOMAIN rooms,
         \A r \in DOMAIN rooms : rooms'[r].player_ids = rooms[r].player_ids,
         player_room_map' = player_room_map,
         \A p \in DOMAIN player_room_map : repo'[p].room_id = repo[p].room_id
  PROVE  RoomsExact'
<1>1. \A r \in DOMAIN rooms : \A p \in rooms[r].player_ids : p \in DOMAIN player_room_map
  BY DEF RoomsExact
<1> QED BY <1>1 DEF RoomsExact

LEMMA TailAt ==
  ASSUME NEW S, NEW q \in Seq(S), q # <<>>, NEW i \in 1..Len(Tail(q))
  PROVE  i + 1 \in 1..Len(q) /\ Tail(q)[i] = q[i + 1]
OBVIOUS

LEMMA TakenAsks ==
  ASSUME ServerInv, NEW s \in Sessions, NEW op, Dispatched(s, op), Consume(s)
  PROVE  /\ NoNewAsks
         /\ \A t \in Sessions : phase'[t] = "free" => phase[t] = "free"
<1>1. /\ rx[s] \in Seq(Request) /\ rx[s] # <<>>
      /\ rx'[s] = Tail(rx[s])
      /\ \A t \in Sessions \ {s} : rx'[t] = rx[t] /\ rx[t] \in Seq(Request)
      /\ \A t \in Sessions : phase'[t] = "free" => phase[t] = "free"
  BY DEF ServerInv, SessionTypes, Consume, Dispatched
<1> DEFINE k == [t \in Sessions |-> IF t = s THEN 1 ELSE 0]
<1>2. ASSUME NEW t \in Sessions, NEW i \in 1..Len(rx'[t])
      PROVE  i + k[t] \in 1..Len(rx[t]) /\ rx'[t][i] = rx[t][i + k[t]]
  <2>1. CASE t = s
    <3>1. k[t] = 1
      BY <2>1
    <3> HIDE DEF k
    <3>2. i + 1 \in 1..Len(rx[s]) /\ Tail(rx[s])[i] = rx[s][i + 1]
      BY <1>1, <1>2, <2>1, TailAt
    <3> QED BY <1>1, <2>1, <3>1, <3>2
  <2>2. CASE t # s
    <3>1. k[t] = 0
      BY <2>2
    <3> HIDE DEF k
    <3> QED BY <1>1, <1>2, <2>2, <3>1
  <2> QED BY <2>1, <2>2
<1>3. k \in [Sessions -> {0, 1}]
  OBVIOUS
<1> HIDE DEF k
<1>4. NoNewAsks
  BY <1>2, <1>3 DEF NoNewAsks
<1> QED BY <1>1, <1>4

\* What is not new on any session.
LEMMA KeptAsks ==
  ASSUME ServerInv,
         \A t \in Sessions : \A i \in 1..Len(rx'[t]) : rx'[t][i].op = "match" =>
            i \in 1..Len(rx[t]) /\ rx'[t][i] = rx[t][i]
  PROVE  NoNewAsks
<1> DEFINE k == [t \in Sessions |-> 0]
<1>1. k \in [Sessions -> {0, 1}] /\ \A t \in Sessions : k[t] = 0
  OBVIOUS
<1> HIDE DEF k
<1>2. ASSUME NEW t \in Sessions, NEW i \in 1..Len(rx'[t]), rx'[t][i].op = "match"
      PROVE  i + k[t] \in 1..Len(rx[t]) /\ rx'[t][i] = rx[t][i + k[t]]
  <2>1. i + k[t] = i
    BY <1>1, <1>2
  <2>2. i \in 1..Len(rx[t]) /\ rx'[t][i] = rx[t][i]
    BY <1>2
  <2> QED BY <2>1, <2>2
<1> QED BY <1>1, <1>2 DEF NoNewAsks

LEMMA AnswerKeepsRooms ==
  ASSUME ServerInv, RoomsInv, NEW s \in Sessions, NEW op, Dispatched(s, op), Consume(s),
         UNCHANGED <<client, next_player_id, player_room_map>>, in_queue' \subseteq in_queue,
         DOMAIN rooms' = DOMAIN rooms,
         \A r \in DOMAIN rooms : rooms'[r].player_ids = rooms[r].player_ids,
         DOMAIN repo' = DOMAIN repo,
         \A p \in DOMAIN player_room_map : repo'[p].room_id = repo[p].room_id
  PROVE  RoomsInv'
<1>1. RoomsExact'
  BY RoomsExactKept DEF RoomsInv
<1>2. \A c \in Clients : client[c].session # None => phase[client[c].session] # "free"
  BY DEF RoomsInv, ClientsDistinct
<1>3. \A c \in Clients : client[c].session # None => client[c].session \in Sessions
  BY DEF ServerInv, OtherTypes, ClientType
<1> QED BY <1>1, <1>2, <1>3, TakenAsks, QuietKeepsRooms

LEMMA StutterKeepsRooms ==
  ASSUME ServerInv, RoomsInv,
         UNCHANGED <<phase, rx, client, next_player_id, in_queue, player_room_map, rooms, repo>>
  PROVE  RoomsInv'
<1>1. RoomsExact'
  BY RoomsExactKept DEF RoomsInv
<1>2. NoNewAsks
  BY KeptAsks
<1>3. \A c \in Clients : client[c].session # None => phase[client[c].session] # "free"
  BY DEF RoomsInv, ClientsDistinct
<1> QED BY <1>1, <1>2, <1>3, QuietKeepsRooms

\* A client stops: whatever player it had is spent, and its connection nobody's.
LEMMA StopKeepsRooms ==
  ASSUME ServerInv, RoomsInv, NEW c \in Clients, StopClient(c)
  PROVE  RoomsInv'
<1>1. /\ client' = [client EXCEPT ![c] = NewClient]
      /\ UNCHANGED <<phase, rx, next_player_id, in_queue, player_room_map, rooms, repo>>
  BY DEF StopClient, session_vars, server_vars, registry_vars, queue_vars, room_vars
<1>2. RoomsExact'
  BY <1>1, RoomsExactKept DEF RoomsInv
<1>3. NoNewAsks
  BY <1>1, KeptAsks
<1>4. client'[c] = NewClient /\ \A d \in Clients \ {c} : client'[d] = client[d]
  BY <1>1 DEF ServerInv, OtherTypes
<1>5. NewClient.session = None /\ NewClient.pid = 0
  BY DEF NewClient
<1>6. \A d \in Clients : client[d].session # None => phase[client[d].session] # "free"
  BY DEF RoomsInv, ClientsDistinct
<1> QED BY <1>1, <1>2, <1>3, <1>4, <1>5, <1>6, QuietKeepsRooms

LEMMA ConnectAddsNoAsk ==
  ASSUME ServerInv, NEW c \in Clients, NEW first, first.op # "match", NEW known,
         Connect(c, first, known)
  PROVE  NoNewAsks
<1>1. PICK s \in Sessions : rx' = [rx EXCEPT ![s] = <<first>>]
  BY DEF Connect
<1>2. rx'[s] = <<first>> /\ \A t \in Sessions \ {s} : rx'[t] = rx[t]
  BY <1>1 DEF ServerInv, SessionTypes
<1>3. ASSUME NEW t \in Sessions, NEW i \in 1..Len(rx'[t]), rx'[t][i].op = "match"
      PROVE  i \in 1..Len(rx[t]) /\ rx'[t][i] = rx[t][i]
  <2>1. CASE t = s
    <3>1. rx'[t][i] = first
      BY <1>2, <1>3, <2>1
    <3> QED BY <1>3, <3>1
  <2>2. CASE t # s
    BY <1>2, <1>3, <2>2
  <2> QED BY <2>1, <2>2
<1> QED BY <1>3, KeptAsks

\* A client connects: the first request of a connection does not ask for a match.
LEMMA ConnectKeepsRooms ==
  ASSUME ServerInv, RoomsInv, NEW c \in Clients, NEW first, first.op # "match",
         NEW known \in ClientType, known.pid # 0 => known.pid = client[c].pid /\ known.asked,
         Connect(c, first, known)
  PROVE  RoomsInv'
<1>1. PICK s \in Sessions :
        /\ phase[s] = "free"
        /\ phase' = [phase EXCEPT ![s] = "open"]
        /\ rx' = [rx EXCEPT ![s] = <<first>>]
        /\ client' = [client EXCEPT ![c] = [known EXCEPT !.session = s]]
        /\ UNCHANGED <<next_player_id, in_queue, player_room_map, rooms, repo>>
  BY DEF Connect, server_vars, registry_vars, queue_vars, room_vars
<1>2. /\ client'[c].session = s /\ client'[c].pid = known.pid /\ client'[c].asked = known.asked
      /\ \A d \in Clients \ {c} : client'[d] = client[d]
  BY <1>1 DEF ServerInv, OtherTypes, ClientType
<1>3. /\ phase'[s] = "open" /\ \A t \in Sessions \ {s} : phase'[t] = phase[t]
      /\ rx'[s] = <<first>> /\ \A t \in Sessions \ {s} : rx'[t] = rx[t]
  BY <1>1 DEF ServerInv, SessionTypes
<1>4. RoomsExact'
  BY <1>1, RoomsExactKept DEF RoomsInv
<1>5. NoNewAsks
  BY ConnectAddsNoAsk
<1>6. \A d \in Clients :
         /\ client[d].session # None => client[d].session \in Sessions
         /\ client[d].pid \in Nat
  BY DEF ServerInv, OtherTypes, ClientType
<1>7. StaySpent
  BY <1>1, <1>2, BoundsAssumption DEF StaySpent, Spent, PlayerIds
<1>8. AsksOnce'
  BY <1>1, <1>5, <1>7, AsksOnceKept DEF RoomsInv
<1>9. ClientsDistinct'
  <2>1. \A d \in Clients \ {c} : client[d].session # s
    BY <1>1, <1>6, NoneAssumption DEF RoomsInv, ClientsDistinct
  <2>2. 0 < next_player_id
    BY DEF ServerInv, RegistryTypes
  <2>3. \A d, e \in Clients : d # e =>
          /\ client'[d].session = client'[e].session => client'[d].session = None
          /\ client'[d].pid = client'[e].pid => client'[d].pid = 0
    BY <1>2, <2>1 DEF RoomsInv, ClientsDistinct
  <2>4. \A d \in Clients :
          /\ client'[d].session # None => phase'[client'[d].session] # "free"
          /\ client'[d].pid < next_player_id'
    BY <1>1, <1>2, <1>3, <1>6, <2>2 DEF RoomsInv, ClientsDistinct
  <2> QED BY <2>3, <2>4 DEF ClientsDistinct
<1>10. AllSaved'
  BY <1>1 DEF RoomsInv, AllSaved
<1> QED BY <1>4, <1>8, <1>9, <1>10 DEF RoomsInv

\* A client asks: for a match only when its player is nowhere yet.
LEMMA SendKeepsRooms ==
  ASSUME ~Rematch, ServerInv, RoomsInv, NEW c \in Clients, ClientSend(c)
  PROVE  RoomsInv'
<1>1. PICK s \in {client[c].session} \ {None}, req \in NextRequests(c) :
        /\ rx' = [rx EXCEPT ![s] = Append(@, req)]
        /\ client' = IF req.op = "match" THEN [client EXCEPT ![c].asked = ~Rematch] ELSE client
        /\ UNCHANGED <<phase, next_player_id, in_queue, player_room_map, rooms, repo>>
  BY DEF ClientSend, server_vars, registry_vars, queue_vars, room_vars
<1>2. client[c] \in ClientType /\ s \in Sessions /\ rx[s] \in Seq(Request)
  BY <1>1 DEF ServerInv, OtherTypes, ClientType, SessionTypes
<1>3. /\ rx'[s] = Append(rx[s], req) /\ \A t \in Sessions \ {s} : rx'[t] = rx[t]
      /\ Len(rx'[s]) = Len(rx[s]) + 1 /\ rx'[s][Len(rx[s]) + 1] = req
      /\ \A i \in 1..Len(rx[s]) : rx'[s][i] = rx[s][i]
      /\ Len(rx[s]) \in Nat
  BY <1>1, <1>2 DEF ServerInv, SessionTypes
<1>4. RoomsExact'
  BY <1>1, RoomsExactKept DEF RoomsInv
<1>5. \A d \in Clients : client[d].session # None => phase[client[d].session] # "free"
  BY DEF RoomsInv, ClientsDistinct
<1>6. CASE req.op # "match"
  <2>1. ASSUME NEW t \in Sessions, NEW i \in 1..Len(rx'[t]), rx'[t][i].op = "match"
        PROVE  i \in 1..Len(rx[t]) /\ rx'[t][i] = rx[t][i]
    <3>1. CASE t = s
      <4>1. i # Len(rx[s]) + 1
        BY <1>3, <1>6, <2>1, <3>1
      <4>2. i \in 1..Len(rx[s])
        BY <1>3, <2>1, <3>1, <4>1
      <4> QED BY <1>3, <3>1, <4>2
    <3>2. CASE t # s
      BY <1>3, <2>1, <3>2
    <3> QED BY <3>1, <3>2
  <2>2. NoNewAsks
    BY <2>1, KeptAsks
  <2> QED BY <1>1, <1>4, <1>5, <1>6, <2>2, QuietKeepsRooms
<1>7. CASE req.op = "match"
  <2>1. PICK p : p = client[c].pid
    OBVIOUS
  <2>2. p # 0 /\ ~client[c].asked /\ req = MatchReq(p)
    BY <1>1, <1>7, <2>1 DEF NextRequests, PingReq, ChatReq, LoginReq, ReconnectReq, MatchReq
  <2>3. p \in PlayerIds /\ p < next_player_id
    BY <1>2, <2>1, <2>2, BoundsAssumption DEF ClientType, PlayerIds, RoomsInv, ClientsDistinct
  <2>4. ~Spent(p)
    BY <2>1, <2>2 DEF Spent
  <2>5. /\ client'[c].session = client[c].session /\ client'[c].pid = p /\ client'[c].asked
        /\ \A d \in Clients \ {c} : client'[d] = client[d]
    BY <1>1, <1>2, <1>7, <2>1 DEF ServerInv, OtherTypes, ClientType
  <2>6. Spent(p)'
    <3>1. \A d \in Clients \ {c} : client'[d].pid # p
      BY <2>1, <2>2, <2>5 DEF RoomsInv, ClientsDistinct
    <3> QED BY <1>1, <2>3, <2>5, <3>1 DEF Spent
  <2>7. StaySpent
    BY <1>1, <2>1, <2>5 DEF StaySpent, Spent
  <2>8. /\ \A t \in Sessions : \A i \in Nat : ~AsksAt(t, i, p)
        /\ p \notin in_queue /\ p \notin DOMAIN player_room_map
    BY <2>3, <2>4 DEF RoomsInv, AsksOnce
  <2>9. ASSUME NEW t \in Sessions, NEW i \in Nat, NEW q \in PlayerIds, AsksAt(t, i, q)'
        PROVE  \/ t = s /\ i = Len(rx[s]) + 1 /\ q = p
               \/ AsksAt(t, i, q)
    <3>1. i \in 1..Len(rx'[t]) /\ rx'[t][i] = MatchReq(q)
      BY <2>9 DEF AsksAt
    <3>2. CASE t = s /\ i = Len(rx[s]) + 1
      <4>1. MatchReq(q) = MatchReq(p)
        BY <1>3, <2>2, <3>1, <3>2
      <4>2. MatchReq(q).arg = q /\ MatchReq(p).arg = p
        BY DEF MatchReq
      <4> QED BY <3>2, <4>1, <4>2
    <3>3. CASE t = s /\ i # Len(rx[s]) + 1
      <4>1. i \in 1..Len(rx[s])
        BY <1>3, <3>1, <3>3
      <4> QED BY <1>3, <3>1, <3>3, <4>1 DEF AsksAt
    <3>4. CASE t # s
      BY <1>3, <3>1, <3>4 DEF AsksAt
    <3> QED BY <3>2, <3>3, <3>4
  <2>10. ASSUME NEW t \in Sessions, NEW i \in Nat, NEW q \in PlayerIds, AsksAt(t, i, q)'
         PROVE  /\ Spent(q)' /\ q \notin in_queue' /\ q \notin DOMAIN player_room_map'
                /\ \A u \in Sessions : \A j \in Nat : AsksAt(u, j, q)' => u = t /\ j = i
    <3>1. CASE q = p
      <4>1. \A u \in Sessions : \A j \in Nat : AsksAt(u, j, q)' => u = s /\ j = Len(rx[s]) + 1
        BY <2>3, <2>8, <2>9, <3>1
      <4> QED BY <1>1, <2>6, <2>8, <2>10, <3>1, <4>1
    <3>2. CASE q # p
      <4>1. AsksAt(t, i, q)
        BY <2>9, <2>10, <3>2
      <4>2. \A u \in Sessions : \A j \in Nat : AsksAt(u, j, q)' => AsksAt(u, j, q)
        BY <2>9, <3>2
      <4>3. /\ Spent(q) /\ q \notin in_queue /\ q \notin DOMAIN player_room_map
            /\ \A u \in Sessions : \A j \in Nat : AsksAt(u, j, q) => u = t /\ j = i
        BY <4>1 DEF RoomsInv, AsksOnce
      <4> QED BY <1>1, <2>7, <4>2, <4>3 DEF StaySpent
    <3> QED BY <3>1, <3>2
  <2>11. AsksOnce'
    <3>1. /\ \A q \in in_queue' : Spent(q)' /\ q \notin DOMAIN player_room_map'
          /\ \A q \in DOMAIN player_room_map' : Spent(q)'
      BY <1>1, <2>7
         DEF StaySpent, RoomsInv, AsksOnce, ServerInv, MQP!QueueInv, MQP!TypeOK, RMP!RoomInv, RMP!TypeOK
    <3> QED BY <2>10, <3>1 DEF AsksOnce
  <2>12. ClientsDistinct'
    BY <1>1, <2>1, <2>5 DEF RoomsInv, ClientsDistinct
  <2> QED BY <1>1, <1>4, <2>11, <2>12 DEF RoomsInv, AllSaved
<1> QED BY <1>6, <1>7

\* A login: the player is new, so no request, queue, room or client had it.
LEMMA LoginKeepsRooms ==
  ASSUME ServerInv, RoomsInv, NEW s \in Sessions, HandleLogin(s)
  PROVE  RoomsInv'
<1>0. PICK p : p = next_player_id
  OBVIOUS
<1>1. /\ Dispatched(s, "login") /\ Consume(s)
      /\ next_player_id' = p + 1
      /\ Repo!save_new_player(p)
      /\ client' = [c \in Clients |->
                      IF Told(s, c) THEN [client[c] EXCEPT !.pid = p, !.asked = FALSE]
                      ELSE client[c]]
      /\ UNCHANGED <<in_queue, player_room_map, rooms>>
  BY <1>0 DEF HandleLogin, NextPlayerId, queue_vars, room_vars
<1>2. p \in Nat \ {0}
  BY <1>0 DEF ServerInv, RegistryTypes
<1>3. NoNewAsks /\ \A t \in Sessions : phase'[t] = "free" => phase[t] = "free"
  BY <1>1, TakenAsks
<1>4. /\ DOMAIN repo' = DOMAIN repo \cup {p}
      /\ \A q \in DOMAIN repo \ {p} : repo'[q] = repo[q]
  BY <1>1 DEF Repo!save_new_player, Repo!insert_or_assign
<1>5. ASSUME NEW c \in Clients
      PROVE  /\ client'[c].session = client[c].session
             /\ client[c].session # None => client[c].session \in Sessions
             /\ \/ client'[c].pid = p /\ client[c].session = s
                \/ client'[c].pid = client[c].pid /\ client'[c].asked = client[c].asked
             /\ client[c].pid < p /\ client[c].pid \in Nat
  <2>1. client[c] \in ClientType /\ client[c].pid < p
    BY <1>0 DEF ServerInv, OtherTypes, RoomsInv, ClientsDistinct
  <2>2. client'[c] = IF Told(s, c) THEN [client[c] EXCEPT !.pid = p, !.asked = FALSE]
                     ELSE client[c]
    BY <1>1
  <2>3. client[c].pid \in Nat /\ (client[c].session # None => client[c].session \in Sessions)
    BY <2>1, BoundsAssumption DEF ClientType
  <2>4. CASE Told(s, c)
    BY <2>1, <2>2, <2>3, <2>4 DEF ClientType, Told
  <2>5. CASE ~Told(s, c)
    BY <2>1, <2>2, <2>3, <2>5
  <2> QED BY <2>4, <2>5
<1>6. StaySpent
  <2>1. ASSUME NEW q \in PlayerIds, Spent(q) PROVE Spent(q)'
    <3>1. q < p
      BY <1>0, <2>1 DEF Spent
    <3>2. q # p /\ q < p + 1
      BY <1>2, <3>1 DEF PlayerIds
    <3>3. \A c \in Clients : client'[c].pid = q => client'[c].asked
      <4>1. \A c \in Clients : client[c].pid = q => client[c].asked
        BY <2>1 DEF Spent
      <4> QED BY <1>5, <3>2, <4>1
    <3> QED BY <1>1, <3>2, <3>3 DEF Spent
  <2> QED BY <2>1 DEF StaySpent
<1>7. AsksOnce'
  BY <1>1, <1>3, <1>6, AsksOnceKept DEF RoomsInv
<1>8. ClientsDistinct'
  <2>1. \A c, d \in Clients :
          (c # d /\ client'[c].session = client'[d].session) => client'[c].session = None
    BY <1>5 DEF RoomsInv, ClientsDistinct
  <2>2. ASSUME NEW c \in Clients, NEW d \in Clients, c # d, client'[c].pid = client'[d].pid
        PROVE  client'[c].pid = 0
    <3>1. ~(client[c].session = s /\ client[d].session = s)
      BY <2>2, NoneAssumption DEF RoomsInv, ClientsDistinct
    <3>2. client[c].pid < p /\ client[c].pid \in Nat /\ client[d].pid < p /\ client[d].pid \in Nat
      BY <1>5
    <3>3. client[c].pid # p /\ client[d].pid # p
      BY <1>2, <3>2
    <3>4. client'[c].pid = client[c].pid /\ client'[d].pid = client[d].pid
      BY <1>5, <2>2, <3>1, <3>3
    <3> QED BY <2>2, <3>4 DEF RoomsInv, ClientsDistinct
  <2>3. \A c \in Clients : client'[c].session # None => phase'[client'[c].session] # "free"
    BY <1>3, <1>5 DEF RoomsInv, ClientsDistinct
  <2>4. ASSUME NEW c \in Clients PROVE client'[c].pid < next_player_id'
    <3>1. PICK x : x = client'[c].pid
      OBVIOUS
    <3>2. x \in Nat /\ x <= p
      BY <1>2, <1>5, <3>1
    <3>3. next_player_id' = p + 1
      BY <1>1
    <3> QED BY <1>2, <3>1, <3>2, <3>3
  <2> QED BY <2>1, <2>2, <2>3, <2>4 DEF ClientsDistinct
<1>9. AllSaved'
  <2>1. ASSUME NEW q \in PlayerIds, q < p + 1 PROVE q < p \/ q = p
    BY <1>2, <2>1 DEF PlayerIds
  <2> QED BY <1>0, <1>1, <1>4, <2>1 DEF RoomsInv, AllSaved, PlayerIds
<1>10. RoomsExact'
  <2>1. ASSUME NEW q \in DOMAIN player_room_map PROVE q \in DOMAIN repo \ {p}
    <3>1. q \in PlayerIds /\ q < p
      BY <1>0 DEF RoomsInv, AsksOnce, Spent, ServerInv, RMP!RoomInv, RMP!TypeOK
    <3>2. q \in DOMAIN repo
      BY <1>0, <3>1 DEF RoomsInv, AllSaved
    <3> QED BY <1>2, <3>1, <3>2 DEF PlayerIds
  <2> QED BY <1>1, <1>4, <2>1, RoomsExactKept DEF RoomsInv
<1> QED BY <1>7, <1>8, <1>9, <1>10 DEF RoomsInv

\* The request being dispatched is the only one that asks for its player.
LEMMA TakenAt ==
  ASSUME ServerInv, NEW s \in Sessions, NEW op, Dispatched(s, op), Consume(s),
         NEW t \in Sessions, NEW i \in Nat, NEW q, AsksAt(t, i, q)'
  PROVE  AsksAt(t, IF t = s THEN i + 1 ELSE i, q)
<1>1. /\ rx[s] \in Seq(Request) /\ rx[s] # <<>> /\ rx'[s] = Tail(rx[s])
      /\ \A u \in Sessions \ {s} : rx'[u] = rx[u]
  BY DEF ServerInv, SessionTypes, Consume, Dispatched
<1>2. i \in 1..Len(rx'[t]) /\ rx'[t][i] = MatchReq(q)
  BY DEF AsksAt
<1>3. CASE t = s
  <2>1. i + 1 \in 1..Len(rx[s]) /\ Tail(rx[s])[i] = rx[s][i + 1]
    BY <1>1, <1>2, <1>3, TailAt
  <2> QED BY <1>1, <1>2, <1>3, <2>1 DEF AsksAt
<1>4. CASE t # s
  BY <1>1, <1>2, <1>4 DEF AsksAt
<1> QED BY <1>3, <1>4

LEMMA MatchTaken ==
  ASSUME ServerInv, RoomsInv, NEW s \in Sessions, Dispatched(s, "match"), Consume(s)
  PROVE  LET p == Head(rx[s]).arg
         IN  /\ p \in PlayerIds /\ Spent(p) /\ p \notin DOMAIN player_room_map
             /\ \A t \in Sessions : \A i \in Nat : \A q \in PlayerIds : AsksAt(t, i, q)' =>
                  /\ q # p /\ Spent(q) /\ q \notin in_queue /\ q \notin DOMAIN player_room_map
                  /\ \A u \in Sessions : \A j \in Nat : AsksAt(u, j, q)' => u = t /\ j = i
<1>0. PICK p : p = Head(rx[s]).arg
  OBVIOUS
<1>1. Head(rx[s]) \in Request /\ Head(rx[s]).op = "match"
  BY DispatchTypes DEF ServerInv
<1>2. p \in PlayerIds /\ Head(rx[s]) = MatchReq(p)
  BY <1>0, <1>1 DEF Request, LoginReq, PingReq, MatchReq, ReconnectReq, ChatReq
<1>3. AsksAt(s, 1, p)
  <2>1. rx[s] \in Seq(Request) /\ rx[s] # <<>>
    BY DEF ServerInv, SessionTypes, Dispatched
  <2> QED BY <1>2, <2>1 DEF AsksAt
<1>4. /\ Spent(p) /\ p \notin DOMAIN player_room_map
      /\ \A t \in Sessions : \A i \in Nat : AsksAt(t, i, p) => t = s /\ i = 1
  BY <1>2, <1>3 DEF RoomsInv, AsksOnce
<1>5. ASSUME NEW t \in Sessions, NEW i \in Nat, NEW q \in PlayerIds, AsksAt(t, i, q)'
      PROVE  /\ q # p /\ Spent(q) /\ q \notin in_queue /\ q \notin DOMAIN player_room_map
             /\ \A u \in Sessions : \A j \in Nat : AsksAt(u, j, q)' => u = t /\ j = i
  <2>1. AsksAt(t, IF t = s THEN i + 1 ELSE i, q)
    BY <1>5, TakenAt
  <2>2. i # 0
    BY <1>5 DEF AsksAt
  <2>3. q # p
    BY <1>4, <1>5, <2>1, <2>2
  <2>4. (IF t = s THEN i + 1 ELSE i) \in Nat
    OBVIOUS
  <2>5. /\ Spent(q) /\ q \notin in_queue /\ q \notin DOMAIN player_room_map
        /\ \A u \in Sessions : \A j \in Nat :
              AsksAt(u, j, q) => u = t /\ j = (IF t = s THEN i + 1 ELSE i)
    BY <2>1, <2>4 DEF RoomsInv, AsksOnce
  <2>6. ASSUME NEW u \in Sessions, NEW j \in Nat, AsksAt(u, j, q)' PROVE u = t /\ j = i
    <3>1. AsksAt(u, IF u = s THEN j + 1 ELSE j, q)
      BY <2>6, TakenAt
    <3>2. (IF u = s THEN j + 1 ELSE j) \in Nat
      OBVIOUS
    <3>3. u = t /\ (IF u = s THEN j + 1 ELSE j) = (IF t = s THEN i + 1 ELSE i)
      BY <2>5, <3>1, <3>2
    <3> QED BY <3>3
  <2> QED BY <2>3, <2>5, <2>6
<1> QED BY <1>0, <1>2, <1>4, <1>5

\* Who is popped waited, or is the one who asks.
LEMMA MatchedWaited ==
  ASSUME ServerInv, NEW p \in PlayerIds
  PROVE  Range(MQ!Matched(p)) \subseteq in_queue \cup {p}
<1>1. queue \in Seq(PlayerIds) /\ in_queue = MQ!ToSet(queue)
  BY SameQueue DEF ServerInv, MQ!TypeOK, MQ!Mirror
<1>2. \A i \in DOMAIN queue : queue[i] \in in_queue
  BY <1>1 DEF MQ!ToSet
<1>3. \A i \in 1..Len(Append(queue, p)) : Append(queue, p)[i] \in in_queue \cup {p}
  BY <1>1, <1>2
<1>4. ASSUME NEW x \in Range(MQ!Matched(p)) PROVE x \in in_queue \cup {p}
  <2>1. PICK i \in DOMAIN MQ!Matched(p) : x = MQ!Matched(p)[i]
    BY <1>4 DEF Range
  <2>2. Append(queue, p) \in Seq(PlayerIds)
    BY <1>1
  <2>3. i \in 1..Len(Append(queue, p)) /\ x = Append(queue, p)[i]
    BY <2>1, <2>2 DEF MQ!Matched, MQ!Joined
  <2> QED BY <1>3, <2>3
<1> QED BY <1>4

\* After a request for a match: its player waits or is seated, those who are seated
\* waited or asked, and nobody is in two places.
LEMMA MatchKeepsAsks ==
  ASSUME ServerInv, RoomsInv, NEW s \in Sessions, NEW p, p = Head(rx[s]).arg,
         Dispatched(s, "match"), Consume(s), StaySpent,
         in_queue' \subseteq in_queue \cup {p},
         DOMAIN player_room_map' \subseteq DOMAIN player_room_map \cup in_queue \cup {p},
         in_queue' \cap DOMAIN player_room_map' = {}
  PROVE  AsksOnce'
<1>1. /\ p \in PlayerIds /\ Spent(p)
      /\ \A t \in Sessions : \A i \in Nat : \A q \in PlayerIds : AsksAt(t, i, q)' =>
           /\ q # p /\ Spent(q) /\ q \notin in_queue /\ q \notin DOMAIN player_room_map
           /\ \A u \in Sessions : \A j \in Nat : AsksAt(u, j, q)' => u = t /\ j = i
  BY MatchTaken
<1>2. /\ in_queue \subseteq PlayerIds /\ DOMAIN player_room_map \subseteq PlayerIds
      /\ \A q \in in_queue \cup DOMAIN player_room_map : Spent(q)
  BY DEF ServerInv, MQP!QueueInv, MQP!TypeOK, RMP!RoomInv, RMP!TypeOK, RoomsInv, AsksOnce
<1>3. \A q \in in_queue' \cup DOMAIN player_room_map' : Spent(q)'
  BY <1>1, <1>2 DEF StaySpent
<1>4. ASSUME NEW t \in Sessions, NEW i \in Nat, NEW q \in PlayerIds, AsksAt(t, i, q)'
      PROVE  /\ Spent(q)' /\ q \notin in_queue' /\ q \notin DOMAIN player_room_map'
             /\ \A u \in Sessions : \A j \in Nat : AsksAt(u, j, q)' => u = t /\ j = i
  <2>1. /\ q # p /\ Spent(q) /\ q \notin in_queue /\ q \notin DOMAIN player_room_map
        /\ \A u \in Sessions : \A j \in Nat : AsksAt(u, j, q)' => u = t /\ j = i
    BY <1>1, <1>4
  <2> QED BY <2>1 DEF StaySpent
<1> QED BY <1>3, <1>4 DEF AsksOnce

LEMMA QueuedKeepsRooms ==
  ASSUME ServerInv, RoomsInv, NEW s \in Sessions, MatchQueued(s)
  PROVE  RoomsInv'
<1>0. PICK p : p = Head(rx[s]).arg
  OBVIOUS
<1>1. /\ Dispatched(s, "match") /\ Consume(s)
      /\ MQ!Matched(p) = <<>> /\ MQ!join_and_pop(p)
      /\ UNCHANGED <<client, next_player_id, player_room_map, rooms, repo>>
  BY <1>0 DEF MatchQueued, registry_vars, room_vars
<1>2. in_queue' \subseteq in_queue \cup {p}
  BY <1>1 DEF MQ!join_and_pop
<1>3. p \notin DOMAIN player_room_map
  BY <1>0, <1>1, MatchTaken
<1>4. in_queue' \cap DOMAIN player_room_map' = {}
  BY <1>1, <1>2, <1>3 DEF RoomsInv, AsksOnce
<1>5. StaySpent
  BY <1>1 DEF StaySpent, Spent
<1>6. AsksOnce'
  BY <1>0, <1>1, <1>2, <1>4, <1>5, MatchKeepsAsks
<1>7. RoomsExact'
  BY <1>1, RoomsExactKept DEF RoomsInv
<1>8. \A t \in Sessions : phase'[t] = "free" => phase[t] = "free"
  BY <1>1, TakenAsks
<1>9. \A c \in Clients : client[c].session # None => client[c].session \in Sessions
  BY DEF ServerInv, OtherTypes, ClientType
<1>10. ClientsDistinct'
  BY <1>1, <1>8, <1>9 DEF RoomsInv, ClientsDistinct
<1>11. AllSaved'
  BY <1>1 DEF RoomsInv, AllSaved
<1> QED BY <1>6, <1>7, <1>10, <1>11 DEF RoomsInv

\* Who is popped sits nowhere yet, so the index sends each of them to the new room,
\* and the repository, which knows them all, too.
LEMMA CreatedKeepsRooms ==
  ASSUME ServerInv, RoomsInv, NEW s \in Sessions, RoomCreated(s)
  PROVE  RoomsInv'
<1>0. PICK p, n, S : p = Head(rx[s]).arg /\ n = next_room_id /\ S = Range(MQ!Matched(p))
  OBVIOUS
<1>1. /\ Dispatched(s, "match") /\ Consume(s)
      /\ in_queue' = (in_queue \cup {p}) \ MQ!ToSet(MQ!Matched(p))
      /\ RM!create_room(S) /\ Repo!save_room(S, n)
      /\ client' = [c \in Clients |->
                      IF \E t \in {players[q] : q \in S} : Told(t, c)
                      THEN [client[c] EXCEPT !.room = n]
                      ELSE client[c]]
      /\ UNCHANGED next_player_id
  BY <1>0 DEF RoomCreated, MQ!join_and_pop, registry_vars
<1>2. MQ!ToSet(MQ!Matched(p)) = S
  BY <1>0 DEF MQ!ToSet, Range
<1>3. p \in PlayerIds /\ Spent(p) /\ p \notin DOMAIN player_room_map
  BY <1>0, <1>1, MatchTaken
<1>4. S \subseteq in_queue \cup {p}
  BY <1>0, <1>3, MatchedWaited
<1>5. \A q \in S : q \in PlayerIds /\ Spent(q) /\ q \notin DOMAIN player_room_map
  BY <1>3, <1>4 DEF RoomsInv, AsksOnce, ServerInv, MQP!QueueInv, MQP!TypeOK
<1>6. Cardinality(S) <= 2
  BY <1>0, <1>3, PoppedAreTwo
<1>7. /\ player_room_map' = RM!insert(player_room_map, [q \in S |-> n])
      /\ rooms' = RM!insert(rooms, [r \in {n} |-> RM!Room(S)])
      /\ n \notin DOMAIN rooms
  BY <1>0, <1>1 DEF RM!create_room, RM!Indexed, ServerInv, RMP!RoomInv, RMP!TypeOK
<1>8. /\ DOMAIN player_room_map' = DOMAIN player_room_map \cup S
      /\ \A q \in DOMAIN player_room_map : player_room_map'[q] = player_room_map[q]
      /\ \A q \in S : player_room_map'[q] = n
  BY <1>5, <1>7 DEF RM!insert
<1>9. /\ DOMAIN rooms' = DOMAIN rooms \cup {n}
      /\ \A r \in DOMAIN rooms : rooms'[r] = rooms[r]
      /\ rooms'[n].player_ids = S
  BY <1>7 DEF RM!insert, RM!Room
<1>10. /\ DOMAIN repo' = DOMAIN repo
       /\ \A q \in DOMAIN repo : q \in S => repo'[q].room_id = n
       /\ \A q \in DOMAIN repo : q \notin S => repo'[q] = repo[q]
  <2>1. \A q \in DOMAIN repo : repo[q] \in [score : Nat, room_id : Int]
    BY DEF ServerInv, OtherTypes, Repo!TypeOK
  <2>2. repo' = [q \in DOMAIN repo |->
                    IF q \in S THEN [repo[q] EXCEPT !.room_id = n] ELSE repo[q]]
    BY <1>1 DEF Repo!save_room
  <2> QED BY <2>1, <2>2
<1>11. \A q \in DOMAIN player_room_map \cup S : q \in DOMAIN repo
  <2>1. \A q \in DOMAIN player_room_map \cup S : q \in PlayerIds /\ Spent(q)
    BY <1>5 DEF RoomsInv, AsksOnce, ServerInv, RMP!RoomInv, RMP!TypeOK
  <2> QED BY <2>1 DEF RoomsInv, AllSaved, Spent
<1>12. ASSUME NEW r \in DOMAIN rooms'
       PROVE  /\ rooms'[r].player_ids = {q \in DOMAIN player_room_map' : player_room_map'[q] = r}
              /\ Cardinality(rooms'[r].player_ids) <= 2
              /\ \A q \in rooms'[r].player_ids : repo'[q].room_id = r
  <2>1. CASE r = n
    <3>1. \A q \in DOMAIN player_room_map : player_room_map'[q] # n
      BY <1>7, <1>8 DEF ServerInv, RMP!RoomInv, RMP!RoomIndex
    <3>2. S = {q \in DOMAIN player_room_map' : player_room_map'[q] = n}
      BY <1>8, <3>1
    <3> QED BY <1>6, <1>9, <1>10, <1>11, <2>1, <3>2
  <2>2. CASE r # n
    <3>1. /\ r \in DOMAIN rooms /\ rooms'[r] = rooms[r]
          /\ rooms[r].player_ids = {q \in DOMAIN player_room_map : player_room_map[q] = r}
          /\ Cardinality(rooms[r].player_ids) <= 2
          /\ \A q \in rooms[r].player_ids : repo[q].room_id = r
      BY <1>9, <1>12, <2>2 DEF RoomsInv, RoomsExact
    <3>2. {q \in DOMAIN player_room_map' : player_room_map'[q] = r}
            = {q \in DOMAIN player_room_map : player_room_map[q] = r}
      BY <1>8, <2>2
    <3>3. \A q \in rooms[r].player_ids : q \in DOMAIN repo /\ q \notin S
      BY <1>5, <1>11, <3>1
    <3> QED BY <1>10, <3>1, <3>2, <3>3
  <2> QED BY <2>1, <2>2
<1>13. RoomsExact'
  BY <1>12 DEF RoomsExact
<1>14. ASSUME NEW c \in Clients
       PROVE  /\ client'[c].session = client[c].session /\ client'[c].pid = client[c].pid
              /\ client'[c].asked = client[c].asked
              /\ client[c].session # None => client[c].session \in Sessions
  <2>1. client[c] \in ClientType
    BY DEF ServerInv, OtherTypes
  <2>2. client'[c] = [client[c] EXCEPT !.room = n] \/ client'[c] = client[c]
    BY <1>1
  <2> QED BY <2>1, <2>2 DEF ClientType
<1>15. StaySpent
  BY <1>1, <1>14 DEF StaySpent, Spent
<1>16. in_queue' \cap DOMAIN player_room_map' = {}
  BY <1>1, <1>2, <1>3, <1>8 DEF RoomsInv, AsksOnce
<1>17. AsksOnce'
  BY <1>0, <1>1, <1>4, <1>8, <1>15, <1>16, MatchKeepsAsks
<1>18. \A t \in Sessions : phase'[t] = "free" => phase[t] = "free"
  BY <1>1, TakenAsks
<1>19. ClientsDistinct'
  BY <1>1, <1>14, <1>18 DEF RoomsInv, ClientsDistinct
<1>20. AllSaved'
  BY <1>1, <1>10 DEF RoomsInv, AllSaved
<1> QED BY <1>13, <1>17, <1>19, <1>20 DEF RoomsInv

LEMMA ReconnectedKeepsRooms ==
  ASSUME ServerInv, RoomsInv, NEW s \in Sessions, Reconnected(s)
  PROVE  RoomsInv'
<1>0. PICK p : p = Head(rx[s]).arg
  OBVIOUS
<1>1. /\ Dispatched(s, "reconnect") /\ Consume(s) /\ RM!MarkPlayer(p, RM!Online)
      /\ UNCHANGED <<client, next_player_id, in_queue, repo>>
  BY <1>0 DEF Reconnected, RM!mark_player_reconnected, queue_vars
<1>2. /\ DOMAIN rooms' = DOMAIN rooms /\ player_room_map' = player_room_map
      /\ \A r \in DOMAIN rooms : rooms'[r].player_ids = rooms[r].player_ids
  BY <1>1 DEF RM!MarkPlayer, ServerInv, RMP!RoomInv, RMP!TypeOK, RMP!RoomType
<1> QED BY <1>1, <1>2, AnswerKeepsRooms

LEMMA ChatKeepsRooms ==
  ASSUME ServerInv, RoomsInv, NEW s \in Sessions, ChatDelivered(s)
  PROVE  RoomsInv'
<1>1. /\ Dispatched(s, "chat") /\ Consume(s) /\ Repo!add_score(player_id[s])
      /\ UNCHANGED <<client, next_player_id, in_queue, player_room_map, rooms>>
  BY DEF ChatDelivered, registry_vars, queue_vars, room_vars
<1>2. \A q \in DOMAIN repo : repo[q] \in [score : Nat, room_id : Int]
  BY DEF ServerInv, OtherTypes, Repo!TypeOK
<1>3. DOMAIN repo' = DOMAIN repo /\ \A q \in DOMAIN repo : repo'[q].room_id = repo[q].room_id
  BY <1>1, <1>2 DEF Repo!add_score
<1>4. \A q \in DOMAIN player_room_map : q \in DOMAIN repo
  BY DEF RoomsInv, AsksOnce, AllSaved, Spent, ServerInv, RMP!RoomInv, RMP!TypeOK
<1> QED BY <1>1, <1>3, <1>4, AnswerKeepsRooms

LEMMA HandleKeepsRooms ==
  ASSUME ServerInv, RoomsInv, NEW s \in Sessions, Handle(s)
  PROVE  RoomsInv'
<1>1. CASE HandleLogin(s)
  BY <1>1, LoginKeepsRooms
<1>2. CASE MatchRejected(s)
  BY <1>2, AnswerKeepsRooms DEF MatchRejected, registry_vars, queue_vars, room_vars
<1>3. CASE MatchQueued(s)
  BY <1>3, QueuedKeepsRooms
<1>4. CASE RoomCreated(s)
  BY <1>4, CreatedKeepsRooms
<1>5. CASE MatchCrashes(s) \/ ChatCrashes(s)
  BY <1>5, StutterKeepsRooms
     DEF MatchCrashes, ChatCrashes, BroadcastCrash, Crash, session_vars, registry_vars, queue_vars,
         room_vars
<1>6. CASE ChatDelivered(s)
  BY <1>6, ChatKeepsRooms
<1>7. CASE ReconnectRefused(s)
  BY <1>7, AnswerKeepsRooms DEF ReconnectRefused, registry_vars, queue_vars, room_vars
<1>8. CASE Reconnected(s)
  BY <1>8, ReconnectedKeepsRooms
<1>9. CASE HandlePing(s)
  BY <1>9, AnswerKeepsRooms DEF HandlePing, registry_vars, queue_vars, room_vars
<1> QED BY <1>1, <1>2, <1>3, <1>4, <1>5, <1>6, <1>7, <1>8, <1>9
        DEF Handle, HandleMatch, HandleChat, HandleReconnect

LEMMA CloseAddsNoAsk ==
  ASSUME ServerInv, NEW s \in Sessions, NEW read \in 0..Len(rx[s]), Close(s, read)
  PROVE  NoNewAsks
<1>1. rx[s] \in Seq(Request) /\ Len(rx[s]) \in Nat
  BY DEF ServerInv, SessionTypes
<1>2. /\ rx'[s] = SubSeq(rx[s], 1, read)
      /\ \A t \in Sessions \ {s} : rx'[t] = rx[t]
  BY DEF Close, ServerInv, SessionTypes
<1>3. ASSUME NEW t \in Sessions, NEW i \in 1..Len(rx'[t])
      PROVE  i \in 1..Len(rx[t]) /\ rx'[t][i] = rx[t][i]
  BY <1>1, <1>2, <1>3
<1> QED BY <1>3, KeptAsks

\* A close leaves a part of the requests, and of the queue.
LEMMA CloseKeepsRooms ==
  ASSUME ServerInv, RoomsInv, NEW s \in Sessions,
         OnReadError(s) \/ OnWriteError(s) \/ HeartbeatTimeout(s)
  PROVE  RoomsInv'
<1>1. Len(rx[s]) \in Nat /\ AlreadyRead(s) \subseteq 0..Len(rx[s])
  BY DEF ServerInv, SessionTypes, AlreadyRead
<1>2. PICK read \in 0..Len(rx[s]) : Close(s, read)
  BY <1>1 DEF OnReadError, OnWriteError, HeartbeatTimeout
<1>3. /\ phase' = [phase EXCEPT ![s] = "closed"]
      /\ in_queue' \subseteq in_queue
      /\ RM!MarkPlayer(player_id[s], RM!Offline)
      /\ UNCHANGED <<client, next_player_id, repo>>
  BY <1>2 DEF Close, MQ!leave, RM!mark_player_disconnected
<1>4. NoNewAsks
  BY <1>2, CloseAddsNoAsk
<1>5. /\ DOMAIN rooms' = DOMAIN rooms /\ player_room_map' = player_room_map
      /\ \A r \in DOMAIN rooms : rooms'[r].player_ids = rooms[r].player_ids
  BY <1>3 DEF RM!MarkPlayer, ServerInv, RMP!RoomInv, RMP!TypeOK, RMP!RoomType
<1>6. RoomsExact'
  BY <1>3, <1>5, RoomsExactKept DEF RoomsInv
<1>7. \A t \in Sessions : phase'[t] = "free" => phase[t] = "free"
  BY <1>3 DEF ServerInv, SessionTypes
<1>8. \A c \in Clients : client[c].session # None =>
          client[c].session \in Sessions /\ phase[client[c].session] # "free"
  BY DEF ServerInv, OtherTypes, ClientType, RoomsInv, ClientsDistinct
<1> QED BY <1>3, <1>4, <1>5, <1>6, <1>7, <1>8, QuietKeepsRooms

LEMMA AbortKeepsRooms ==
  ASSUME ServerInv, RoomsInv, NEW s \in Sessions, OnAbort(s)
  PROVE  RoomsInv'
<1>1. /\ \A t \in Sessions \ {s} : phase'[t] = phase[t]
      /\ UNCHANGED <<rx, next_player_id, in_queue, player_room_map, rooms, repo>>
  BY DEF OnAbort, ServerInv, SessionTypes, server_vars, registry_vars, queue_vars, room_vars
<1>2. ASSUME NEW c \in Clients
      PROVE  /\ client'[c].session # None =>
                   client'[c].session = client[c].session /\ phase'[client[c].session] # "free"
             /\ client'[c].pid = client[c].pid /\ client'[c].asked = client[c].asked
  <2>1. client[c] \in ClientType
    BY DEF ServerInv, OtherTypes
  <2>2. client'[c] = IF client[c].session = s THEN [client[c] EXCEPT !.session = None] ELSE client[c]
    BY DEF OnAbort
  <2>3. client[c].session # None => phase[client[c].session] # "free"
    BY DEF RoomsInv, ClientsDistinct
  <2>4. CASE client[c].session = s
    BY <2>1, <2>2, <2>4 DEF ClientType
  <2>5. CASE client[c].session # s
    BY <1>1, <2>1, <2>2, <2>3, <2>5 DEF ClientType
  <2> QED BY <2>4, <2>5
<1>3. RoomsExact'
  BY <1>1, RoomsExactKept DEF RoomsInv
<1>4. NoNewAsks
  BY <1>1, KeptAsks
<1> QED BY <1>1, <1>2, <1>3, <1>4, QuietKeepsRooms

\* A timeout takes its player from the index and from the room the index named.
LEMMA TimeoutKeepsRooms ==
  ASSUME ServerInv, RoomsInv, NEW p, ReconnectTimeout(p)
  PROVE  RoomsInv'
<1>1. /\ RM!remove_player(p)
      /\ UNCHANGED <<phase, rx, client, next_player_id, in_queue, repo>>
  BY DEF ReconnectTimeout, session_vars, registry_vars, queue_vars
<1>2. NoNewAsks
  BY <1>1, KeptAsks
<1>3. \A c \in Clients : client[c].session # None => phase[client[c].session] # "free"
  BY DEF RoomsInv, ClientsDistinct
<1>4. RoomsExact' /\ DOMAIN player_room_map' \subseteq DOMAIN player_room_map
  <2>1. CASE p \notin DOMAIN player_room_map
    BY <1>1, <2>1, RoomsExactKept DEF RM!remove_player, RoomsInv
  <2>2. CASE p \in DOMAIN player_room_map
    <3>1. PICK r0, left : r0 = player_room_map[p] /\ left = rooms[r0].player_ids \ {p}
      OBVIOUS
    <3>2. /\ rooms' = IF left = {} THEN RM!erase(rooms, r0)
                      ELSE [rooms EXCEPT ![r0].player_ids = left]
          /\ player_room_map' = RM!erase(player_room_map, p)
      BY <1>1, <2>2, <3>1 DEF RM!remove_player, RM!RoomIsOver
    <3>3. /\ DOMAIN player_room_map' = DOMAIN player_room_map \ {p}
          /\ \A q \in DOMAIN player_room_map \ {p} : player_room_map'[q] = player_room_map[q]
      BY <3>2 DEF RM!erase, RM!Restrict
    <3>4. ASSUME NEW r \in DOMAIN rooms'
          PROVE  /\ r \in DOMAIN rooms
                 /\ rooms'[r].player_ids = rooms[r].player_ids \ {p}
      <4>1. \A q \in DOMAIN rooms : rooms[q] \in RMP!RoomType
        BY DEF ServerInv, RMP!RoomInv, RMP!TypeOK
      <4>2. r \in DOMAIN rooms
        BY <3>2, <3>4 DEF RM!erase, RM!Restrict
      <4>3. CASE r = r0
        <5>1. left # {}
          BY <3>2, <3>4, <4>3 DEF RM!erase, RM!Restrict
        <5> QED BY <3>1, <3>2, <4>1, <4>2, <4>3, <5>1 DEF RMP!RoomType
      <4>4. CASE r # r0
        <5>1. rooms'[r] = rooms[r]
          BY <3>2, <4>2, <4>4 DEF RM!erase, RM!Restrict
        <5>2. p \notin rooms[r].player_ids
          BY <3>1, <4>2, <4>4 DEF RoomsInv, RoomsExact
        <5> QED BY <4>2, <5>1, <5>2
      <4> QED BY <4>3, <4>4
    <3>5. ASSUME NEW r \in DOMAIN rooms'
          PROVE  /\ rooms'[r].player_ids
                       = {q \in DOMAIN player_room_map' : player_room_map'[q] = r}
                 /\ Cardinality(rooms'[r].player_ids) <= 2
                 /\ \A q \in rooms'[r].player_ids : repo'[q].room_id = r
      <4>1. /\ r \in DOMAIN rooms
            /\ rooms'[r].player_ids = rooms[r].player_ids \ {p}
        BY <3>4, <3>5
      <4>2. /\ rooms[r].player_ids = {q \in DOMAIN player_room_map : player_room_map[q] = r}
            /\ Cardinality(rooms[r].player_ids) <= 2
            /\ \A q \in rooms[r].player_ids : repo[q].room_id = r
        BY <4>1 DEF RoomsInv, RoomsExact
      <4>3. rooms'[r].player_ids = {q \in DOMAIN player_room_map' : player_room_map'[q] = r}
        BY <3>3, <4>1, <4>2
      <4>4. IsFiniteSet(rooms[r].player_ids)
        <5>1. IsFiniteSet(PlayerIds)
          BY FS_Interval, BoundsAssumption DEF PlayerIds
        <5>2. rooms[r].player_ids \in SUBSET PlayerIds
          BY <4>2 DEF ServerInv, RMP!RoomInv, RMP!TypeOK
        <5> QED BY <5>1, <5>2, FS_Subset
      <4>5. PICK T, U : T = rooms'[r].player_ids /\ U = rooms[r].player_ids
        OBVIOUS
      <4>6. T \in SUBSET U /\ IsFiniteSet(U) /\ Cardinality(U) <= 2
        BY <4>1, <4>2, <4>4, <4>5
      <4>7. IsFiniteSet(T) /\ Cardinality(T) <= Cardinality(U)
        BY <4>6, FS_Subset
      <4>8. Cardinality(T) \in Nat /\ Cardinality(U) \in Nat
        BY <4>6, <4>7, FS_CardinalityType
      <4>9. Cardinality(T) <= 2
        BY <4>6, <4>7, <4>8
      <4> QED BY <1>1, <4>1, <4>2, <4>3, <4>5, <4>9
    <3> QED BY <3>3, <3>5 DEF RoomsExact
  <2> QED BY <2>1, <2>2
<1> QED BY <1>1, <1>2, <1>3, <1>4, QuietKeepsRooms

LEMMA ClientStepKeepsRooms ==
  ASSUME ~Rematch, ServerInv, RoomsInv, NEW c \in Clients, ClientStep(c)
  PROVE  RoomsInv'
<1>1. CASE StopClient(c)
  BY <1>1, StopKeepsRooms
<1>2. CASE StartClient(c)
  <2>1. PICK first \in {LoginReq, PingReq} : Connect(c, first, NewClient)
    BY <1>2 DEF StartClient
  <2>2. first.op # "match"
    BY <2>1 DEF LoginReq, PingReq
  <2>3. NewClient \in ClientType /\ NewClient.pid = 0
    BY BoundsAssumption DEF NewClient, ClientType
  <2> QED BY <2>1, <2>2, <2>3, ConnectKeepsRooms
<1>3. CASE ReconnectClient(c)
  <2>1. PICK known : known = [client[c] EXCEPT !.asked = ~Rematch]
    OBVIOUS
  <2>2. client[c] \in ClientType
    BY DEF ServerInv, OtherTypes
  <2>3. known \in ClientType /\ known.pid = client[c].pid /\ known.asked
    BY <2>1, <2>2, DisciplineAssumption DEF ClientType
  <2>4. ReconnectReq(client[c].pid).op # "match"
    BY DEF ReconnectReq
  <2>5. Connect(c, ReconnectReq(client[c].pid), known)
    BY <1>3, <2>1 DEF ReconnectClient
  <2> QED BY <2>3, <2>4, <2>5, ConnectKeepsRooms
<1>4. CASE ClientSend(c)
  BY <1>4, SendKeepsRooms
<1> QED BY <1>1, <1>2, <1>3, <1>4 DEF ClientStep

LEMMA InitRoomsExact == Init => RoomsInv
<1> SUFFICES ASSUME Init PROVE RoomsInv
  OBVIOUS
<1>1. ClientsDistinct
  BY DEF Init, ClientsDistinct, NewClient
<1>2. in_queue = {} /\ player_room_map = <<>> /\ rooms = <<>> /\ next_player_id = 1
  BY DEF Init, MQ!Init, RM!Init
<1>3. AsksOnce
  BY <1>2 DEF Init, AsksOnce, AsksAt
<1>4. AllSaved
  BY <1>2 DEF AllSaved, PlayerIds
<1>5. RoomsExact
  BY <1>2 DEF RoomsExact
<1> QED BY <1>1, <1>3, <1>4, <1>5 DEF RoomsInv

LEMMA RoomsInvInductive ==
  ASSUME ~Rematch
  PROVE  ServerInv /\ RoomsInv /\ [Next]_vars => RoomsInv'
<1> SUFFICES ASSUME ServerInv, RoomsInv, [Next]_vars PROVE RoomsInv'
  OBVIOUS
<1>1. ASSUME NEW c \in Clients, ClientStep(c) PROVE RoomsInv'
  BY <1>1, ClientStepKeepsRooms
<1>2. ASSUME NEW s \in Sessions, SessionStep(s) PROVE RoomsInv'
  BY <1>2, HandleKeepsRooms, CloseKeepsRooms, AbortKeepsRooms DEF SessionStep
<1>3. ASSUME NEW p, ReconnectTimeout(p) PROVE RoomsInv'
  BY <1>3, TimeoutKeepsRooms
<1>4. CASE UNCHANGED vars
  BY <1>4, StutterKeepsRooms DEF vars, session_vars, registry_vars, queue_vars, room_vars
<1> QED BY <1>1, <1>2, <1>3, <1>4 DEF Next

\* When a login asks for a match once, a room lists exactly the players the index
\* sends to it, at most two, and the repository has the same room for each of them:
\* whichever logins, closes, reconnections and timeouts come between.
THEOREM RoomsAgree ==
  ASSUME ~Rematch
  PROVE  Spec => []RoomsExact
<1>1. Init => ServerInv /\ RoomsInv
  BY InitTypes, InitRoomsExact
<1>2. (ServerInv /\ RoomsInv) /\ [Next]_vars => (ServerInv /\ RoomsInv)'
  BY ServerInvInductive, RoomsInvInductive
<1>3. RoomsInv => RoomsExact
  BY DEF RoomsInv
<1> QED BY <1>1, <1>2, <1>3, PTL DEF Spec
-------------------------------------------------------------------------------
(* Drained, when connections identify themselves once and a login asks for a     *)
(* match once.  Who is seated is served or may come back, so that somebody is    *)
(* left to empty the room.                                                       *)

SeatedLive == \A p \in DOMAIN player_room_map : Live(p)

\* A session keeps its player, if it has one.
Keeps(s) == player_id'[s] = player_id[s] \/ player_id[s] = 0

\* Who is live stays so: sessions stay open with their players, windows run on.
LEMMA LiveGrows ==
  ASSUME NEW p \in PlayerIds, Live(p), PSM!IsOffline(p) => PSM!IsOffline(p)',
         \A s \in Sessions : IsOpen(s) => (IsOpen(s)' /\ Keeps(s))
  PROVE  Live(p)'
<1>1. p # 0
  BY BoundsAssumption DEF PlayerIds
<1>2. CASE PSM!IsOffline(p)
  BY <1>2 DEF Live, PSM!IsOffline
<1>3. CASE Carriers(p) # {}
  <2>1. PICK s \in Sessions : IsOpen(s) /\ player_id[s] = p
    BY <1>3 DEF Carriers
  <2>2. IsOpen(s)' /\ player_id'[s] = p
    BY <1>1, <2>1 DEF Keeps
  <2> QED BY <2>2 DEF Live, Carriers, IsOpen
<1> QED BY <1>2, <1>3 DEF Live

\* Steps that seat nobody, close nobody's session and end nobody's window.
LEMMA SeatedKept ==
  ASSUME ServerInv, SeatedLive,
         UNCHANGED player_room_map,
         \A q \in PlayerIds : PSM!IsOffline(q) => PSM!IsOffline(q)',
         \A s \in Sessions : IsOpen(s) => (IsOpen(s)' /\ Keeps(s))
  PROVE  SeatedLive'
<1>1. ASSUME NEW q \in DOMAIN player_room_map' PROVE Live(q)'
  <2>1. q \in PlayerIds /\ Live(q)
    BY <1>1 DEF SeatedLive, ServerInv, RMP!RoomInv, RMP!TypeOK
  <2> QED BY <2>1, LiveGrows
<1> QED BY <1>1 DEF SeatedLive

LEMMA SameSeatedKept ==
  ASSUME ServerInv, SeatedLive,
         UNCHANGED <<player_id, player_room_map, states>>,
         \A s \in Sessions : IsOpen(s) => IsOpen(s)'
  PROVE  SeatedLive'
<1>1. \A q \in PlayerIds : PSM!IsOffline(q) => PSM!IsOffline(q)'
  BY DEF PSM!IsOffline
<1> QED BY <1>1, SeatedKept DEF Keeps

LEMMA ConsumeKeepsOpen ==
  ASSUME ServerInv, NEW s \in Sessions, Consume(s)
  PROVE  \A t \in Sessions : IsOpen(t)' <=> IsOpen(t)
  BY DEF ServerInv, SessionTypes, Consume, IsOpen

\* A session that had no player gets one that is new, or whose window ends.
LEMMA IdentifyKeepsSeated ==
  ASSUME ServerInv, RegistryInv, SeatedLive, NEW s \in Sessions, HandleLogin(s) \/ Reconnected(s)
  PROVE  SeatedLive'
<1>1. PICK p :
        /\ Consume(s) /\ rx[s] # <<>> /\ Identifies(rx[s][1])
        /\ player_id' = [player_id EXCEPT ![s] = p]
        /\ player_room_map' = player_room_map
        /\ \A q \in PlayerIds \ {p} : PSM!IsOffline(q) => PSM!IsOffline(q)'
  <2>1. CASE HandleLogin(s)
    <3>1. /\ Dispatched(s, "login") /\ Consume(s)
          /\ player_id' = [player_id EXCEPT ![s] = next_player_id]
          /\ player_room_map' = player_room_map
          /\ states' = states
      BY <2>1 DEF HandleLogin, room_vars
    <3>2. \A q \in PlayerIds \ {next_player_id} : PSM!IsOffline(q) => PSM!IsOffline(q)'
      BY <3>1 DEF PSM!IsOffline
    <3>3. rx[s] # <<>> /\ Identifies(rx[s][1])
      BY <3>1 DEF Dispatched, Identifies
    <3> QED BY <3>1, <3>2, <3>3
  <2>2. CASE Reconnected(s)
    <3>0. PICK p : p = Head(rx[s]).arg
      OBVIOUS
    <3>1. /\ Consume(s) /\ rx[s] # <<>> /\ Identifies(rx[s][1])
          /\ player_id' = [player_id EXCEPT ![s] = p]
          /\ RM!MarkPlayer(p, RM!Online) /\ PSM!mark_online(p)
      BY <2>2, <3>0 DEF Reconnected, RM!mark_player_reconnected, Dispatched, Identifies
    <3>2. player_room_map' = player_room_map
      BY <3>1 DEF RM!MarkPlayer
    <3>3. \A q \in PlayerIds \ {p} : PSM!IsOffline(q) => PSM!IsOffline(q)'
      BY <3>1 DEF PSM!IsOffline, PSM!mark_online
    <3> QED BY <3>1, <3>2, <3>3
  <2> QED BY <2>1, <2>2
<1>2. IsOpen(s) /\ player_id[s] = 0
  BY <1>1 DEF RegistryInv, IdentifiedFirst
<1>3. player_id'[s] = p /\ \A t \in Sessions : Keeps(t)
  BY <1>1, <1>2 DEF Keeps, ServerInv, SessionTypes
<1>4. \A t \in Sessions : IsOpen(t)' <=> IsOpen(t)
  BY <1>1, ConsumeKeepsOpen
<1>5. ASSUME NEW q \in DOMAIN player_room_map' PROVE Live(q)'
  <2>1. q \in PlayerIds /\ Live(q)
    BY <1>1, <1>5 DEF SeatedLive, ServerInv, RMP!RoomInv, RMP!TypeOK
  <2>2. CASE q = p
    BY <1>2, <1>3, <1>4, <2>2 DEF Live, Carriers, IsOpen
  <2>3. CASE q # p
    BY <1>1, <1>3, <1>4, <2>1, <2>3, LiveGrows
  <2> QED BY <2>2, <2>3
<1> QED BY <1>5 DEF SeatedLive

\* Only registered players are seated, and somebody carries them.
LEMMA CreateKeepsSeated ==
  ASSUME ServerInv, RegistryInv, SeatedLive, NEW s \in Sessions, RoomCreated(s)
  PROVE  SeatedLive'
<1>0. PICK n, S : n = next_room_id /\ S = Range(MQ!Matched(Head(rx[s]).arg))
  OBVIOUS
<1>1. /\ Consume(s) /\ S \subseteq DOMAIN players
      /\ player_room_map' = RM!insert(player_room_map, [q \in S |-> n])
      /\ UNCHANGED <<player_id, states>>
  BY <1>0 DEF RoomCreated, Reachable, Unregistered, RM!create_room, RM!Indexed, registry_vars
<1>2. \A t \in Sessions : (IsOpen(t)' <=> IsOpen(t)) /\ Keeps(t)
  BY <1>1, ConsumeKeepsOpen DEF Keeps
<1>3. DOMAIN player_room_map' = DOMAIN player_room_map \cup S
  BY <1>1 DEF RM!insert
<1>4. \A q \in S : q \in PlayerIds /\ Live(q)
  BY <1>1 DEF RegistryInv, RegistryExact, Live
<1>5. ASSUME NEW q \in DOMAIN player_room_map' PROVE Live(q)'
  <2>1. q \in PlayerIds /\ Live(q)
    BY <1>3, <1>4, <1>5 DEF SeatedLive, ServerInv, RMP!RoomInv, RMP!TypeOK
  <2>2. PSM!IsOffline(q) => PSM!IsOffline(q)'
    BY <1>1 DEF PSM!IsOffline
  <2> QED BY <1>2, <2>1, <2>2, LiveGrows
<1> QED BY <1>5 DEF SeatedLive

LEMMA HandleKeepsSeated ==
  ASSUME ServerInv, RegistryInv, SeatedLive, NEW s \in Sessions, Handle(s)
  PROVE  SeatedLive'
<1>1. CASE HandleLogin(s) \/ Reconnected(s)
  BY <1>1, IdentifyKeepsSeated
<1>2. CASE RoomCreated(s)
  BY <1>2, CreateKeepsSeated
<1>3. CASE MatchCrashes(s) \/ ChatCrashes(s)
  BY <1>3, SameSeatedKept
     DEF MatchCrashes, ChatCrashes, BroadcastCrash, Crash, session_vars, room_vars, IsOpen
<1>4. CASE MatchRejected(s) \/ MatchQueued(s) \/ ChatDelivered(s) \/ ReconnectRefused(s) \/ HandlePing(s)
  <2>1. Consume(s) /\ UNCHANGED <<player_id, player_room_map, states>>
    BY <1>4 DEF MatchRejected, MatchQueued, ChatDelivered, ReconnectRefused, HandlePing, room_vars
  <2> QED BY <2>1, ConsumeKeepsOpen, SameSeatedKept
<1> QED BY <1>1, <1>2, <1>3, <1>4 DEF Handle, HandleMatch, HandleChat, HandleReconnect

\* A close opens the window of the player it unregisters.
LEMMA CloseKeepsSeated ==
  ASSUME ServerInv, SeatedLive, NEW s \in Sessions, NEW read, Close(s, read)
  PROVE  SeatedLive'
<1>0. PICK p : p = player_id[s]
  OBVIOUS
<1>1. /\ phase' = [phase EXCEPT ![s] = "closed"]
      /\ RM!MarkPlayer(p, RM!Offline)
      /\ player_id' = player_id
  BY <1>0 DEF Close, RM!mark_player_disconnected
<1>2. states' = IF p \in DOMAIN states
                THEN [states EXCEPT ![p].conn = PSM!Offline]
                ELSE PSM!insert(states, [q \in {p} |->
                        [conn |-> PSM!Offline, room_id |-> RM!get_room_id_by_player(p)]])
  BY <1>0 DEF Close, PSM!disconnect
<1>3. player_room_map' = player_room_map
  BY <1>1 DEF RM!MarkPlayer
<1>4. \A t \in Sessions \ {s} : IsOpen(t)' <=> IsOpen(t)
  BY <1>1 DEF ServerInv, SessionTypes, IsOpen
<1>5. PSM!IsOffline(p)' /\ \A q : PSM!IsOffline(q) => PSM!IsOffline(q)'
  BY <1>2 DEF PSM!IsOffline, PSM!insert, ServerInv, OtherTypes, PSM!TypeOK
<1>6. ASSUME NEW q \in DOMAIN player_room_map' PROVE Live(q)'
  <2>1. q \in PlayerIds /\ Live(q)
    BY <1>3, <1>6 DEF SeatedLive, ServerInv, RMP!RoomInv, RMP!TypeOK
  <2>2. CASE q = p \/ PSM!IsOffline(q)
    BY <1>5, <2>2 DEF Live, PSM!IsOffline
  <2>3. CASE q # p /\ Carriers(q) # {}
    <3>1. PICK t \in Sessions : IsOpen(t) /\ player_id[t] = q
      BY <2>3 DEF Carriers
    <3>2. t # s /\ IsOpen(t)' /\ player_id'[t] = q
      BY <1>0, <1>1, <1>4, <2>3, <3>1
    <3> QED BY <3>2 DEF Live, Carriers, IsOpen
  <2> QED BY <2>1, <2>2, <2>3 DEF Live
<1> QED BY <1>6 DEF SeatedLive

\* The player whose window ends is the one that leaves the index.
LEMMA TimeoutKeepsSeated ==
  ASSUME ServerInv, SeatedLive, NEW p, ReconnectTimeout(p)
  PROVE  SeatedLive'
<1>1. /\ RM!remove_player(p) /\ states' = PSM!erase(states, p)
      /\ UNCHANGED <<phase, player_id>>
  BY DEF ReconnectTimeout, PSM!remove_player, session_vars
<1>2. DOMAIN player_room_map' = DOMAIN player_room_map \ {p}
  BY <1>1 DEF RM!remove_player, RM!erase, RM!Restrict
<1>3. \A q : (q # p /\ PSM!IsOffline(q)) => PSM!IsOffline(q)'
  BY <1>1 DEF PSM!IsOffline, PSM!erase, PSM!Restrict
<1>4. ASSUME NEW q \in DOMAIN player_room_map' PROVE Live(q)'
  <2>1. q # p /\ q \in PlayerIds /\ Live(q)
    BY <1>2, <1>4 DEF SeatedLive, ServerInv, RMP!RoomInv, RMP!TypeOK
  <2>2. \A t \in Sessions : IsOpen(t) => (IsOpen(t)' /\ Keeps(t))
    BY <1>1 DEF IsOpen, Keeps
  <2>3. PSM!IsOffline(q) => PSM!IsOffline(q)'
    BY <1>3, <2>1
  <2> QED BY <2>1, <2>2, <2>3, LiveGrows
<1> QED BY <1>4 DEF SeatedLive

LEMMA ClientStepKeepsSeated ==
  ASSUME ServerInv, SeatedLive, NEW c \in Clients, ClientStep(c)
  PROVE  SeatedLive'
<1>1. UNCHANGED <<player_id, player_room_map, states>>
  BY DEF ClientStep, StopClient, StartClient, ReconnectClient, Connect, ClientSend, session_vars,
         server_vars, room_vars
<1>2. \A s \in Sessions : IsOpen(s) => IsOpen(s)'
  <2>1. CASE UNCHANGED phase
    BY <2>1 DEF IsOpen
  <2>2. CASE \E t \in Sessions : phase' = [phase EXCEPT ![t] = "open"]
    BY <2>2 DEF ServerInv, SessionTypes, IsOpen
  <2> QED BY <2>1, <2>2
          DEF ClientStep, StopClient, StartClient, ReconnectClient, Connect, ClientSend, session_vars
<1> QED BY <1>1, <1>2, SameSeatedKept

LEMMA SeatedInductive == ServerInv /\ RegistryInv /\ SeatedLive /\ [Next]_vars => SeatedLive'
<1> SUFFICES ASSUME ServerInv, RegistryInv, SeatedLive, [Next]_vars PROVE SeatedLive'
  OBVIOUS
<1>1. ASSUME NEW c \in Clients, ClientStep(c) PROVE SeatedLive'
  BY <1>1, ClientStepKeepsSeated
<1>2. ASSUME NEW s \in Sessions, SessionStep(s) PROVE SeatedLive'
  <2>1. CASE Handle(s)
    BY <2>1, HandleKeepsSeated
  <2>2. CASE OnReadError(s) \/ OnWriteError(s) \/ HeartbeatTimeout(s)
    BY <2>2, CloseKeepsSeated DEF OnReadError, OnWriteError, HeartbeatTimeout
  <2>3. CASE OnAbort(s)
    <3>1. /\ phase[s] = "closed"
          /\ \A t \in Sessions \ {s} : phase'[t] = phase[t] /\ player_id'[t] = player_id[t]
          /\ UNCHANGED <<states, player_room_map>>
      BY <2>3 DEF OnAbort, ServerInv, SessionTypes, server_vars, room_vars
    <3>2. \A t \in Sessions : IsOpen(t) => (IsOpen(t)' /\ Keeps(t))
      BY <3>1 DEF IsOpen, Keeps
    <3>3. \A q \in PlayerIds : PSM!IsOffline(q) => PSM!IsOffline(q)'
      BY <3>1 DEF PSM!IsOffline
    <3> QED BY <3>1, <3>2, <3>3, SeatedKept
  <2> QED BY <1>2, <2>1, <2>2, <2>3 DEF SessionStep
<1>3. ASSUME NEW p, ReconnectTimeout(p) PROVE SeatedLive'
  BY <1>3, TimeoutKeepsSeated
<1>4. CASE UNCHANGED vars
  BY <1>4, SameSeatedKept DEF vars, session_vars, room_vars, IsOpen
<1> QED BY <1>1, <1>2, <1>3, <1>4 DEF Next

-------------------------------------------------------------------------------
(* An empty map: what is keyed by nobody is empty. *)

IsMap(m) == m = [k \in DOMAIN m |-> m[k]]

MapsInv == IsMap(players) /\ IsMap(rooms) /\ IsMap(player_room_map)

LEMMA MapOperations ==
  /\ \A m, g : IsMap(RM!insert(m, g))
  /\ \A m, k, v : IsMap(insert_or_assign(m, k, v))
  /\ \A m, k : IsMap(erase(m, k)) /\ IsMap(RM!erase(m, k))
  BY DEF IsMap, RM!insert, insert_or_assign, erase, Restrict, RM!erase, RM!Restrict

LEMMA MarkKeepsMaps ==
  ASSUME MapsInv, NEW p, NEW conn, RM!MarkPlayer(p, conn)
  PROVE  IsMap(rooms') /\ IsMap(player_room_map')
  BY DEF MapsInv, RM!MarkPlayer, IsMap

LEMMA SameMaps ==
  ASSUME MapsInv, UNCHANGED <<players, rooms, player_room_map>>
  PROVE  MapsInv'
  BY DEF MapsInv, IsMap

LEMMA HandleKeepsMaps ==
  ASSUME MapsInv, NEW s \in Sessions, Handle(s)
  PROVE  MapsInv'
<1>1. CASE HandleLogin(s)
  BY <1>1, MapOperations DEF HandleLogin, add_player, room_vars, MapsInv
<1>2. CASE RoomCreated(s)
  <2>1. /\ IsMap(rooms') /\ IsMap(player_room_map') /\ players' = players
    BY <1>2, MapOperations DEF RoomCreated, RM!create_room, RM!Indexed, registry_vars
  <2> QED BY <2>1 DEF MapsInv
<1>3. CASE Reconnected(s)
  <2>1. IsMap(players')
    BY <1>3, MapOperations DEF Reconnected, add_player
  <2>2. IsMap(rooms') /\ IsMap(player_room_map')
    BY <1>3, MarkKeepsMaps DEF Reconnected, RM!mark_player_reconnected
  <2> QED BY <2>1, <2>2 DEF MapsInv
<1>4. CASE MatchRejected(s) \/ MatchQueued(s) \/ ReconnectRefused(s) \/ HandlePing(s) \/ ChatDelivered(s)
  BY <1>4, SameMaps
     DEF MatchRejected, MatchQueued, ReconnectRefused, HandlePing, ChatDelivered, registry_vars, room_vars
<1>5. CASE MatchCrashes(s) \/ ChatCrashes(s)
  BY <1>5, SameMaps
     DEF MatchCrashes, ChatCrashes, BroadcastCrash, Crash, registry_vars, room_vars
<1> QED BY <1>1, <1>2, <1>3, <1>4, <1>5 DEF Handle, HandleMatch, HandleChat, HandleReconnect

LEMMA MapsInvInductive == MapsInv /\ [Next]_vars => MapsInv'
<1> SUFFICES ASSUME MapsInv, [Next]_vars PROVE MapsInv'
  OBVIOUS
<1>1. ASSUME NEW c \in Clients, ClientStep(c) PROVE MapsInv'
  BY <1>1, SameMaps
     DEF ClientStep, StopClient, StartClient, ReconnectClient, Connect, ClientSend, server_vars,
         registry_vars, room_vars
<1>2. ASSUME NEW s \in Sessions, SessionStep(s) PROVE MapsInv'
  <2>1. CASE Handle(s)
    BY <2>1, HandleKeepsMaps
  <2>2. CASE OnReadError(s) \/ OnWriteError(s) \/ HeartbeatTimeout(s)
    <3>1. PICK read : Close(s, read)
      BY <2>2 DEF OnReadError, OnWriteError, HeartbeatTimeout
    <3>2. IsMap(players')
      BY <3>1, MapOperations DEF Close, remove_player
    <3>3. IsMap(rooms') /\ IsMap(player_room_map')
      BY <3>1, MarkKeepsMaps DEF Close, RM!mark_player_disconnected
    <3> QED BY <3>2, <3>3 DEF MapsInv
  <2>3. CASE OnAbort(s)
    BY <2>3, SameMaps DEF OnAbort, server_vars, registry_vars, room_vars
  <2> QED BY <1>2, <2>1, <2>2, <2>3 DEF SessionStep
<1>3. ASSUME NEW p, ReconnectTimeout(p) PROVE MapsInv'
  <2>1. RM!remove_player(p) /\ players' = players
    BY <1>3 DEF ReconnectTimeout, registry_vars
  <2>2. CASE p \notin DOMAIN player_room_map
    BY <2>1, <2>2, SameMaps DEF RM!remove_player
  <2>3. CASE p \in DOMAIN player_room_map
    <3>1. IsMap(player_room_map')
      BY <2>1, <2>3, MapOperations DEF RM!remove_player
    <3>2. PICK r, left : /\ r = player_room_map[p] /\ left = rooms[r].player_ids \ {p}
                         /\ rooms' = IF RM!RoomIsOver(left) THEN RM!erase(rooms, r)
                                     ELSE [rooms EXCEPT ![r].player_ids = left]
      BY <2>1, <2>3 DEF RM!remove_player
    <3>3. IsMap([rooms EXCEPT ![r].player_ids = left])
      BY DEF IsMap
    <3>4. IsMap(rooms')
      BY <3>2, <3>3, MapOperations
    <3> QED BY <2>1, <3>1, <3>4 DEF MapsInv
  <2> QED BY <2>2, <2>3
<1>4. CASE UNCHANGED vars
  BY <1>4, SameMaps DEF vars, registry_vars, room_vars
<1> QED BY <1>1, <1>2, <1>3, <1>4 DEF Next

-------------------------------------------------------------------------------
(* Draining. *)

LEMMA InitSeated == Init => SeatedLive /\ MapsInv
  BY DEF Init, RM!Init, SeatedLive, MapsInv, IsMap

\* Nobody is connected and no window runs: nobody is carried, so that nobody is
\* seated, and a room without anybody is no room.
LEMMA EmptyServer ==
  ASSUME ServerInv, RegistryInv, RoomsInv, SeatedLive, MapsInv
  PROVE  Drained
<1> SUFFICES ASSUME NobodyLeft PROVE
        /\ players = <<>> /\ conns = {}
        /\ rooms = <<>> /\ player_room_map = <<>>
  BY DEF Drained, RegistryDrained, RoomsDrained
<1>1. \A s \in Sessions : ~IsOpen(s)
  BY DEF NobodyLeft
<1>2. \A p \in PlayerIds : Carriers(p) = {} /\ ~PSM!IsOffline(p)
  BY <1>1, BoundsAssumption DEF Carriers, NobodyLeft, PSM!IsOffline, PlayerIds
<1>3. DOMAIN players = {} /\ conns = {}
  BY <1>1, <1>2 DEF RegistryInv, RegistryExact
<1>4. DOMAIN player_room_map = {}
  <2>1. \A p \in DOMAIN player_room_map : p \in PlayerIds /\ Live(p)
    BY DEF SeatedLive, ServerInv, RMP!RoomInv, RMP!TypeOK
  <2> QED BY <1>2, <2>1 DEF Live
<1>5. DOMAIN rooms = {}
  <2>1. \A r \in DOMAIN rooms : rooms[r].player_ids = {}
    BY <1>4 DEF RoomsInv, RoomsExact
  <2> QED BY <2>1 DEF ServerInv, RMP!RoomInv, RMP!NoEmptyRoom
<1>6. \A m : (IsMap(m) /\ DOMAIN m = {}) => m = <<>>
  BY DEF IsMap
<1> QED BY <1>3, <1>4, <1>5, <1>6 DEF MapsInv

\* When nobody is connected and no window runs, the closes and the timeouts together
\* have left nothing of anybody in the registries and the rooms, in whatever order
\* they came and whatever was read before a close and dispatched after it.
THEOREM ServerDrains ==
  ASSUME ~LoginAnytime, ~Rematch
  PROVE  Spec => []Drained
<1> DEFINE Inv == ServerInv /\ OwnerInv /\ RegistryInv /\ RoomsInv /\ SeatedLive /\ MapsInv
<1>1. Init => Inv
  BY InitTypes, InitOwners, InitRegistry, InitRoomsExact, InitSeated
<1>2. Inv /\ [Next]_vars => Inv'
  BY ServerInvInductive, OwnerInvInductive, RegistryInvInductive, RoomsInvInductive,
     SeatedInductive, MapsInvInductive
<1>3. Inv => Drained
  BY EmptyServer
<1> HIDE DEF Inv
<1> QED BY <1>1, <1>2, <1>3, PTL DEF Spec

-------------------------------------------------------------------------------
(* QueueEntry, when connections identify themselves once. *)

QueueStep ==
    \A p \in in_queue' \ DOMAIN players' :
        p \in in_queue \ DOMAIN players \/ AskedElsewhere(p)

\* A request for a match of a player that is registered, or not carried by the
\* session that asks: the registry has exactly the players that are carried.
LEMMA AskStep ==
  ASSUME ServerInv, RegistryExact, NEW s \in Sessions, MatchQueued(s) \/ RoomCreated(s)
  PROVE  QueueStep
<1>0. PICK p : p = Head(rx[s]).arg
  OBVIOUS
<1>1. /\ Dispatched(s, "match") /\ Consume(s)
      /\ in_queue' \subseteq in_queue \cup {p}
      /\ players' = players
  BY <1>0 DEF MatchQueued, RoomCreated, MQ!join_and_pop, registry_vars
<1>2. p \in PlayerIds /\ Head(rx[s]) = MatchReq(p)
  <2>1. Head(rx[s]) \in Request /\ Head(rx[s]).op = "match"
    BY <1>1, DispatchTypes DEF ServerInv
  <2> QED BY <1>0, <2>1 DEF Request, LoginReq, PingReq, MatchReq, ReconnectReq, ChatReq
<1>3. rx[s] # <<>> /\ rx'[s] = Tail(rx[s])
  BY <1>1 DEF Dispatched, Consume, ServerInv, SessionTypes
<1>4. p \notin DOMAIN players => s \notin Carriers(p)
  BY <1>2 DEF RegistryExact
<1> QED BY <1>1, <1>2, <1>3, <1>4 DEF QueueStep, AskedElsewhere

\* A close takes its player out of the queue along with the registry.
LEMMA CloseStep ==
  ASSUME NEW s \in Sessions, NEW read, Close(s, read)
  PROVE  QueueStep
<1>1. in_queue' = in_queue \ {player_id[s]} /\ DOMAIN players' = DOMAIN players \ {player_id[s]}
  BY DEF Close, MQ!leave, remove_player, erase, Restrict
<1> QED BY <1>1 DEF QueueStep

\* No other step lets anybody wait or takes anybody out of the registry.
LEMMA OtherStep ==
  ASSUME in_queue' = in_queue, DOMAIN players \subseteq DOMAIN players'
  PROVE  QueueStep
  BY DEF QueueStep

\* When connections identify themselves once, a player comes to wait for a room, or
\* goes on waiting, while the registry does not know it only through a request from a
\* session that does not carry it, whatever the order of closes, timeouts, matches
\* and reads left behind.
THEOREM QueueEntered ==
  ASSUME ~LoginAnytime
  PROVE  Spec => QueueEntry
<1>1. ServerInv /\ RegistryInv /\ [Next]_vars => [QueueStep]_vars
  <2> SUFFICES ASSUME ServerInv, RegistryInv, Next PROVE QueueStep
    OBVIOUS
  <2>1. ASSUME NEW c \in Clients, ClientStep(c) PROVE QueueStep
    BY <2>1, OtherStep
       DEF ClientStep, StopClient, StartClient, ReconnectClient, Connect, ClientSend, server_vars,
           registry_vars, queue_vars
  <2>2. ASSUME NEW s \in Sessions, Handle(s) PROVE QueueStep
    <3>1. CASE MatchQueued(s) \/ RoomCreated(s)
      BY <3>1, AskStep DEF RegistryInv
    <3>2. CASE HandleLogin(s) \/ Reconnected(s)
      <4>1. PICK p : players' = insert_or_assign(players, p, s) /\ in_queue' = in_queue
        BY <3>2 DEF HandleLogin, Reconnected, add_player, queue_vars
      <4>2. DOMAIN players \subseteq DOMAIN players'
        BY <4>1 DEF insert_or_assign
      <4> QED BY <4>1, <4>2, OtherStep
    <3>3. CASE MatchRejected(s) \/ ChatDelivered(s) \/ ReconnectRefused(s) \/ HandlePing(s)
      BY <3>3, OtherStep
         DEF MatchRejected, ChatDelivered, ReconnectRefused, HandlePing, registry_vars, queue_vars
    <3>4. CASE MatchCrashes(s) \/ ChatCrashes(s)
      BY <3>4, OtherStep
         DEF MatchCrashes, ChatCrashes, BroadcastCrash, Crash, registry_vars, queue_vars
    <3> QED BY <2>2, <3>1, <3>2, <3>3, <3>4 DEF Handle, HandleMatch, HandleChat, HandleReconnect
  <2>3. ASSUME NEW s \in Sessions, OnReadError(s) \/ OnWriteError(s) \/ HeartbeatTimeout(s)
        PROVE  QueueStep
    BY <2>3, CloseStep DEF OnReadError, OnWriteError, HeartbeatTimeout
  <2>4. ASSUME NEW s \in Sessions, OnAbort(s) PROVE QueueStep
    BY <2>4, OtherStep DEF OnAbort, server_vars, registry_vars, queue_vars
  <2>5. ASSUME NEW p, ReconnectTimeout(p) PROVE QueueStep
    BY <2>5, OtherStep DEF ReconnectTimeout, registry_vars, queue_vars
  <2> QED BY <2>1, <2>2, <2>3, <2>4, <2>5 DEF Next, SessionStep
<1>2. Init => ServerInv /\ OwnerInv /\ RegistryInv
  BY InitTypes, InitOwners, InitRegistry
<1>3. (ServerInv /\ OwnerInv /\ RegistryInv) /\ [Next]_vars
        => (ServerInv /\ OwnerInv /\ RegistryInv)'
  BY ServerInvInductive, OwnerInvInductive, RegistryInvInductive
<1>4. [QueueStep]_vars =>
        [\A p \in in_queue' \ DOMAIN players' :
            p \in in_queue \ DOMAIN players \/ AskedElsewhere(p)]_vars
  BY DEF QueueStep
<1> QED BY <1>1, <1>2, <1>3, <1>4, PTL DEF Spec, QueueEntry
===============================================================================
