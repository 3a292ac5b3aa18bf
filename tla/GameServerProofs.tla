--------------------------- MODULE GameServerProofs ---------------------------
(***************************************************************************)
(* What the composed server keeps for every number of clients, sessions,   *)
(* players, rooms and requests in flight, and every discipline of the      *)
(* clients: TypeOK and what the queue and the rooms guarantee on their     *)
(* own, then SingleOwner, NoConnectedEviction and RoomView.                *)
(*                                                                         *)
(* The steps of queue and rooms are the lemmas of MatchQueueProofs and     *)
(* RoomManagerProofs; what is added for them is that the server calls them *)
(* with players, and only with players.                                    *)
(***************************************************************************)
EXTENDS GameServerProps, TLAPS, FiniteSetTheorems

MQP == INSTANCE MatchQueueProofs WITH RoomSize <- 2
RMP == INSTANCE RoomManagerProofs

OtherTypes ==
    /\ client \in [Clients -> ClientType]
    /\ fault \in {"none", "out_of_range", "null_session", "no_room"}
    /\ PSM!TypeOK /\ Repo!TypeOK
    /\ next_room_id <= MaxRooms + 1

ServerInv ==
    /\ SessionTypes /\ RegistryTypes /\ OtherTypes
    /\ MQP!QueueInv /\ RMP!RoomInv

\* The two modules speak of the same queue and the same rooms.
LEMMA SameQueue ==
  /\ MQ!Init = MQP!Init
  /\ \A p : MQ!Matched(p) = MQP!Matched(p)
  /\ \A p : MQ!join_and_pop(p) = MQP!join_and_pop(p)
  /\ \A p : MQ!leave(p) = MQP!leave(p)
  /\ MQP!QueueInv => MQ!TypeOK /\ MQ!Mirror
  BY DEF MQ!Init, MQP!Init, MQ!Matched, MQP!Matched, MQ!Joined, MQP!Joined,
         MQ!join_and_pop, MQP!join_and_pop, MQ!contains, MQP!contains, MQ!ToSet, MQP!ToSet,
         MQ!leave, MQP!leave, MQ!RemoveAt, MQP!RemoveAt, MQ!FirstIndex, MQP!FirstIndex,
         MQP!QueueInv, MQ!TypeOK, MQP!TypeOK, MQ!Mirror, MQP!Mirror

LEMMA SameRooms ==
  /\ RM!Init = RMP!Init
  /\ \A S : RM!create_room(S) = RMP!create_room(S)
  /\ \A p : RM!remove_player(p) = RMP!remove_player(p)
  /\ \A p, c : RM!MarkPlayer(p, c) = RMP!MarkPlayer(p, c)
  /\ RMP!RoomInv => RM!TypeOK /\ RM!RoomIndex
  BY DEF RM!Init, RMP!Init, RM!create_room, RMP!create_room, RM!insert, RMP!insert,
         RM!Room, RMP!Room, RM!Indexed, RMP!Indexed, RM!NextRoomId, RMP!NextRoomId,
         RM!remove_player, RMP!remove_player, RM!RoomIsOver, RMP!RoomIsOver,
         RM!erase, RMP!erase, RM!Restrict, RMP!Restrict, RM!MarkPlayer, RMP!MarkPlayer,
         RM!Online, RMP!Online, RM!Offline, RMP!Offline, RMP!RoomInv,
         RM!TypeOK, RMP!TypeOK, RM!RoomIndex, RMP!RoomIndex, RM!RoomType, RMP!RoomType,
         RM!ConnStates, RMP!ConnStates

LEMMA RequestArgs ==
  ASSUME NEW r \in Request
  PROVE  /\ r.op = "match" => r.arg \in PlayerIds
         /\ r.op = "reconnect" => r.arg \in PlayerIds
         /\ r.op = "chat" => r.arg \in 0..MaxRooms
  BY DEF Request, LoginReq, PingReq, MatchReq, ReconnectReq, ChatReq

-------------------------------------------------------------------------------
(* Sessions, clients. *)

\* The request being dispatched is one, and the session's variables keep their
\* types when it has been taken and replies were sent.
LEMMA DispatchTypes ==
  ASSUME SessionTypes, NEW s \in Sessions, NEW op, Dispatched(s, op)
  PROVE  Head(rx[s]) \in Request /\ Head(rx[s]).op = op
  BY DEF SessionTypes, Dispatched

LEMMA ConsumeTypes ==
  ASSUME SessionTypes, NEW s \in Sessions, NEW op, Dispatched(s, op), Consume(s)
  PROVE  /\ phase' \in [Sessions -> Phases]
         /\ rx' \in [Sessions -> Seq(Request)]
<1>1. Tail(rx[s]) \in Seq(Request)
  BY DEF SessionTypes, Dispatched
<1> QED BY <1>1 DEF SessionTypes, Consume, Phases

LEMMA SentTypes ==
  ASSUME SessionTypes, NEW S, Sent(S)
  PROVE  sent' \in [Sessions -> BOOLEAN]
  BY DEF Sent

\* A step that only answers a request.
LEMMA ReplyKeeps ==
  ASSUME ServerInv, NEW s \in Sessions, NEW op, NEW S, Dispatched(s, op), Consume(s), Sent(S),
         UNCHANGED <<player_id, registry_vars, client, fault>>
  PROVE  SessionTypes' /\ RegistryTypes'
         /\ client' \in [Clients -> ClientType]
         /\ fault' \in {"none", "out_of_range", "null_session", "no_room"}
<1>1. SessionTypes'
  BY ConsumeTypes, SentTypes DEF ServerInv, SessionTypes
<1> QED BY <1>1 DEF ServerInv, RegistryTypes, OtherTypes, registry_vars

LEMMA QueueUnchanged == ServerInv /\ UNCHANGED queue_vars => MQP!QueueInv'
  BY DEF ServerInv, queue_vars, MQP!QueueInv, MQP!TypeOK, MQP!Mirror, MQP!NeverFull, MQP!ToSet

LEMMA RoomsUnchanged == ServerInv /\ UNCHANGED room_vars => RMP!RoomInv'
  BY DEF ServerInv, room_vars, RMP!RoomInv, RMP!TypeOK, RMP!RoomIndex, RMP!NoEmptyRoom

LEMMA OthersUnchanged ==
  ServerInv /\ UNCHANGED <<states, repo>> => PSM!TypeOK' /\ Repo!TypeOK'
  BY DEF ServerInv, OtherTypes, PSM!TypeOK, Repo!TypeOK

LEMMA InitTypes == Init => ServerInv
<1> SUFFICES ASSUME Init PROVE ServerInv
  OBVIOUS
<1>1. SessionTypes /\ RegistryTypes
  BY BoundsAssumption DEF Init, SessionTypes, RegistryTypes, Phases
<1>2. NewClient \in ClientType
  BY BoundsAssumption DEF NewClient, ClientType
<1>3. OtherTypes
  BY <1>2, BoundsAssumption
     DEF Init, OtherTypes, PSM!Init, PSM!TypeOK, Repo!Init, Repo!TypeOK, RM!Init
<1>4. MQP!QueueInv
  BY SameQueue, MQP!InitQueue DEF Init
<1>5. RMP!RoomInv
  BY SameRooms, RMP!InitRooms DEF Init
<1> QED BY <1>1, <1>3, <1>4, <1>5 DEF ServerInv

LEMMA StutterKeeps == ServerInv /\ UNCHANGED vars => ServerInv'
<1> SUFFICES ASSUME ServerInv, UNCHANGED vars PROVE ServerInv'
  OBVIOUS
<1>1. SessionTypes' /\ RegistryTypes' /\ OtherTypes'
  BY OthersUnchanged
     DEF ServerInv, vars, session_vars, registry_vars, room_vars, SessionTypes, RegistryTypes, OtherTypes
<1> QED BY <1>1, QueueUnchanged, RoomsUnchanged DEF vars, ServerInv

LEMMA StopClientKeeps ==
  ASSUME ServerInv, NEW c \in Clients, StopClient(c)
  PROVE  ServerInv'
<1>1. NewClient \in ClientType
  BY BoundsAssumption DEF NewClient, ClientType
<1>2. client' \in [Clients -> ClientType]
  BY <1>1 DEF StopClient, ServerInv, OtherTypes
<1>3. /\ UNCHANGED <<session_vars, registry_vars, room_vars, fault>>
      /\ UNCHANGED <<states, repo>> /\ UNCHANGED queue_vars
  BY DEF StopClient, server_vars
<1>4. SessionTypes' /\ RegistryTypes' /\ OtherTypes'
  BY <1>2, <1>3, OthersUnchanged
     DEF ServerInv, session_vars, registry_vars, room_vars, SessionTypes, RegistryTypes, OtherTypes
<1> QED BY <1>3, <1>4, QueueUnchanged, RoomsUnchanged DEF ServerInv

LEMMA ConnectTypes ==
  ASSUME ServerInv, NEW c \in Clients, NEW first \in Request, NEW known,
         known \in ClientType, Connect(c, first, known)
  PROVE  ServerInv'
<1>1. PICK s \in Sessions :
        /\ phase' = [phase EXCEPT ![s] = "open"]
        /\ rx' = [rx EXCEPT ![s] = <<first>>]
        /\ client' = [client EXCEPT ![c] = [known EXCEPT !.session = s]]
        /\ UNCHANGED <<player_id, sent, server_vars>>
  BY DEF Connect
<1>2. [known EXCEPT !.session = s] \in ClientType
  BY DEF ClientType
<1>3. SessionTypes'
  <2>1. <<first>> \in Seq(Request)
    OBVIOUS
  <2> QED BY <1>1, <2>1 DEF ServerInv, SessionTypes, Phases
<1>4. client' \in [Clients -> ClientType]
  BY <1>1, <1>2 DEF ServerInv, OtherTypes
<1>5. /\ UNCHANGED <<registry_vars, room_vars, fault>>
      /\ UNCHANGED <<states, repo>> /\ UNCHANGED queue_vars
  BY <1>1 DEF server_vars
<1>6. RegistryTypes' /\ OtherTypes'
  BY <1>4, <1>5, OthersUnchanged DEF ServerInv, registry_vars, room_vars, RegistryTypes, OtherTypes
<1> QED BY <1>3, <1>5, <1>6, QueueUnchanged, RoomsUnchanged DEF ServerInv

LEMMA StartClientKeeps ==
  ASSUME ServerInv, NEW c \in Clients, StartClient(c)
  PROVE  ServerInv'
<1>1. NewClient \in ClientType
  BY BoundsAssumption DEF NewClient, ClientType
<1>2. PICK first \in {LoginReq, PingReq} : Connect(c, first, NewClient)
  BY DEF StartClient
<1>3. first \in Request
  BY <1>2 DEF Request
<1> QED BY <1>1, <1>2, <1>3, ConnectTypes

LEMMA ReconnectClientKeeps ==
  ASSUME ServerInv, NEW c \in Clients, ReconnectClient(c)
  PROVE  ServerInv'
<1>1. client[c] \in ClientType /\ client[c].pid # 0
  BY DEF ServerInv, OtherTypes, ReconnectClient
<1>2. client[c].pid \in PlayerIds
  BY <1>1, BoundsAssumption DEF ClientType, PlayerIds
<1>3. ReconnectReq(client[c].pid) \in Request
  BY <1>2 DEF Request
<1>4. [client[c] EXCEPT !.asked = ~Rematch] \in ClientType
  BY <1>1, DisciplineAssumption DEF ClientType
<1> QED BY <1>3, <1>4, ConnectTypes DEF ReconnectClient

LEMMA ClientSendKeeps ==
  ASSUME ServerInv, NEW c \in Clients, ClientSend(c)
  PROVE  ServerInv'
<1>1. client[c] \in ClientType
  BY DEF ServerInv, OtherTypes
<1>2. PICK s \in {client[c].session} \ {None}, req \in NextRequests(c) :
        /\ rx' = [rx EXCEPT ![s] = Append(@, req)]
        /\ client' = IF req.op = "match" THEN [client EXCEPT ![c].asked = ~Rematch] ELSE client
        /\ UNCHANGED <<phase, player_id, sent, server_vars>>
  BY DEF ClientSend
<1>3. s \in Sessions
  BY <1>1, <1>2 DEF ClientType
<1>4. req \in Request
  <2>1. \A r \in ChatRooms(c) : r \in 0..MaxRooms
    BY <1>1 DEF ChatRooms, ClientType
  <2>2. client[c].pid # 0 => client[c].pid \in PlayerIds
    BY <1>1, BoundsAssumption DEF ClientType, PlayerIds
  <2> QED BY <1>2, <2>1, <2>2 DEF NextRequests, Request
<1>5. SessionTypes'
  <2>1. rx[s] \in Seq(Request)
    BY <1>3 DEF ServerInv, SessionTypes
  <2>2. Append(rx[s], req) \in Seq(Request)
    BY <1>4, <2>1
  <2> QED BY <1>2, <1>3, <2>2 DEF ServerInv, SessionTypes
<1>6. client' \in [Clients -> ClientType]
  <2>1. [client[c] EXCEPT !.asked = ~Rematch] \in ClientType
    BY <1>1, DisciplineAssumption DEF ClientType
  <2> QED BY <1>2, <2>1 DEF ServerInv, OtherTypes
<1>7. /\ UNCHANGED <<registry_vars, room_vars, fault>>
      /\ UNCHANGED <<states, repo>> /\ UNCHANGED queue_vars
  BY <1>2 DEF server_vars
<1>8. RegistryTypes' /\ OtherTypes'
  BY <1>6, <1>7, OthersUnchanged DEF ServerInv, registry_vars, room_vars, RegistryTypes, OtherTypes
<1> QED BY <1>5, <1>7, <1>8, QueueUnchanged, RoomsUnchanged DEF ServerInv

-------------------------------------------------------------------------------
(* Handlers. *)

\* A request that is answered and changes nothing else.
LEMMA AnswerKeeps ==
  ASSUME ServerInv, NEW s \in Sessions, NEW op, NEW S, Dispatched(s, op), Consume(s), Sent(S),
         UNCHANGED <<player_id, registry_vars, queue_vars, room_vars, states, repo, client, fault>>
  PROVE  ServerInv'
<1>1. SessionTypes' /\ RegistryTypes'
      /\ client' \in [Clients -> ClientType]
      /\ fault' \in {"none", "out_of_range", "null_session", "no_room"}
  BY ReplyKeeps
<1>2. OtherTypes'
  BY <1>1, OthersUnchanged DEF ServerInv, OtherTypes, room_vars
<1> QED BY <1>1, <1>2, QueueUnchanged, RoomsUnchanged DEF ServerInv

LEMMA CrashKeeps ==
  ASSUME ServerInv, NEW kind \in {"out_of_range", "null_session", "no_room"}, Crash(kind)
  PROVE  ServerInv'
<1>1. /\ UNCHANGED <<session_vars, registry_vars, room_vars, client>>
      /\ UNCHANGED <<states, repo>> /\ UNCHANGED queue_vars
      /\ fault' = kind
  BY DEF Crash
<1>2. SessionTypes' /\ RegistryTypes' /\ OtherTypes'
  BY <1>1, OthersUnchanged
     DEF ServerInv, session_vars, registry_vars, room_vars, SessionTypes, RegistryTypes, OtherTypes
<1> QED BY <1>1, <1>2, QueueUnchanged, RoomsUnchanged DEF ServerInv

LEMMA LoginTypes ==
  ASSUME ServerInv, NEW s \in Sessions, HandleLogin(s)
  PROVE  ServerInv'
<1>1. PICK p : p = next_player_id
  OBVIOUS
<1>2. p \in Nat /\ p \in PlayerIds /\ p + 1 \in 1..(MaxPlayers + 1) /\ p \in 0..MaxPlayers
  <2>1. p \in 1..(MaxPlayers + 1)
    BY <1>1 DEF ServerInv, RegistryTypes
  <2>2. p <= MaxPlayers
    BY <1>1 DEF HandleLogin
  <2> QED BY <2>1, <2>2, BoundsAssumption DEF PlayerIds
<1>3. /\ Dispatched(s, "login") /\ Consume(s) /\ Sent({s})
      /\ next_player_id' = p + 1
      /\ player_id' = [player_id EXCEPT ![s] = p]
      /\ players' = insert_or_assign(players, p, s)
      /\ conns' = conns \cup {s}
      /\ Repo!save_new_player(p)
      /\ client' = [c \in Clients |->
                      IF Told(s, c) THEN [client[c] EXCEPT !.pid = p, !.asked = FALSE]
                      ELSE client[c]]
      /\ UNCHANGED <<queue_vars, room_vars, states, fault>>
  BY <1>1 DEF HandleLogin, add_player, add_session, NextPlayerId
<1>4. SessionTypes'
  <2>1. player_id' \in [Sessions -> 0..MaxPlayers]
    BY <1>2, <1>3 DEF ServerInv, SessionTypes
  <2>2. phase' \in [Sessions -> Phases] /\ rx' \in [Sessions -> Seq(Request)]
    BY <1>3, ConsumeTypes DEF ServerInv
  <2>3. sent' \in [Sessions -> BOOLEAN]
    BY <1>3, SentTypes DEF ServerInv
  <2> QED BY <2>1, <2>2, <2>3 DEF SessionTypes
<1>5. RegistryTypes'
  <2>1. DOMAIN players' \subseteq PlayerIds /\ \A q \in DOMAIN players' : players'[q] \in Sessions
    BY <1>2, <1>3 DEF ServerInv, RegistryTypes, insert_or_assign
  <2> QED BY <1>2, <1>3, <2>1 DEF ServerInv, RegistryTypes
<1>6. client' \in [Clients -> ClientType]
  <2>1. ASSUME NEW c \in Clients
        PROVE  /\ client[c] \in ClientType
               /\ [client[c] EXCEPT !.pid = p, !.asked = FALSE] \in ClientType
    <3>1. client[c] \in ClientType
      BY DEF ServerInv, OtherTypes
    <3> QED BY <1>2, <3>1 DEF ClientType
  <2> QED BY <1>3, <2>1
<1>7. Repo!TypeOK'
  <2>1. [score |-> 0, room_id |-> Repo!NoRoom] \in [score : Nat, room_id : Int]
    BY DEF Repo!NoRoom
  <2>2. repo' = Repo!insert_or_assign(repo, p, [score |-> 0, room_id |-> Repo!NoRoom])
    BY <1>3 DEF Repo!save_new_player
  <2> QED BY <1>2, <2>1, <2>2 DEF ServerInv, OtherTypes, Repo!TypeOK, Repo!insert_or_assign
<1>8. PSM!TypeOK'
  BY <1>3 DEF ServerInv, OtherTypes, PSM!TypeOK
<1>9. OtherTypes'
  BY <1>3, <1>6, <1>7, <1>8 DEF ServerInv, OtherTypes, room_vars
<1> QED BY <1>3, <1>4, <1>5, <1>9, QueueUnchanged, RoomsUnchanged DEF ServerInv

LEMMA MatchQueuedKeeps ==
  ASSUME ServerInv, NEW s \in Sessions, MatchQueued(s)
  PROVE  ServerInv'
<1> DEFINE p == Head(rx[s]).arg
<1>1. /\ Dispatched(s, "match") /\ Consume(s) /\ Sent({s})
      /\ MQ!join_and_pop(p)
      /\ UNCHANGED <<player_id, registry_vars, client, fault>>
      /\ UNCHANGED room_vars /\ UNCHANGED <<states, repo>>
  BY DEF MatchQueued
<1>2. p \in PlayerIds
  BY <1>1, DispatchTypes, RequestArgs DEF ServerInv
<1>3. MQP!QueueInv'
  BY <1>1, <1>2, SameQueue, MQP!JoinKeeps DEF ServerInv
<1>4. SessionTypes' /\ RegistryTypes'
      /\ client' \in [Clients -> ClientType]
      /\ fault' \in {"none", "out_of_range", "null_session", "no_room"}
  BY <1>1, ReplyKeeps
<1>5. OtherTypes'
  BY <1>1, <1>4, OthersUnchanged DEF ServerInv, OtherTypes, room_vars
<1> QED BY <1>1, <1>3, <1>4, <1>5, RoomsUnchanged DEF ServerInv

\* Everyone popped for a room is a player.
LEMMA MatchedArePlayers ==
  ASSUME ServerInv, NEW p \in PlayerIds
  PROVE  Range(MQ!Matched(p)) \subseteq PlayerIds
<1>1. queue \in Seq(PlayerIds)
  BY DEF ServerInv, MQP!QueueInv, MQP!TypeOK
<1>2. Append(queue, p) \in Seq(PlayerIds)
  BY <1>1
<1>3. MQ!Matched(p) \in Seq(PlayerIds)
  BY <1>2 DEF MQ!Matched, MQ!Joined
<1> QED BY <1>3 DEF Range

LEMMA RoomCreatedKeeps ==
  ASSUME ServerInv, NEW s \in Sessions, RoomCreated(s)
  PROVE  ServerInv'
<1> DEFINE p == Head(rx[s]).arg
           seated == Range(MQ!Matched(p))
           notified == {players[q] : q \in seated}
<1>1. /\ Dispatched(s, "match") /\ Consume(s) /\ Sent(notified \cup {s})
      /\ seated # {}
      /\ MQ!join_and_pop(p)
      /\ RM!create_room(seated)
      /\ Repo!save_room(seated, next_room_id)
      /\ client' = [c \in Clients |->
                      IF \E t \in notified : Told(t, c)
                      THEN [client[c] EXCEPT !.room = next_room_id]
                      ELSE client[c]]
      /\ UNCHANGED <<player_id, registry_vars, states, fault>>
  BY DEF RoomCreated
<1>2. p \in PlayerIds
  BY <1>1, DispatchTypes, RequestArgs DEF ServerInv
<1>3. seated \subseteq PlayerIds
  BY <1>2, MatchedArePlayers
<1>4. MQP!QueueInv'
  BY <1>1, <1>2, SameQueue, MQP!JoinKeeps DEF ServerInv
<1> HIDE DEF seated, notified
<1>5. RMP!RoomInv'
  BY <1>1, <1>3, SameRooms, RMP!CreateKeeps DEF ServerInv
<1>6. next_room_id \in Nat \ {0} /\ next_room_id <= MaxRooms /\ next_room_id' = next_room_id + 1
  BY <1>1 DEF ServerInv, RMP!RoomInv, RMP!TypeOK, RM!create_room, RM!NextRoomId
<1>7. SessionTypes' /\ RegistryTypes'
  BY <1>1, ConsumeTypes, SentTypes DEF ServerInv, SessionTypes, RegistryTypes, registry_vars
<1>8. client' \in [Clients -> ClientType]
  <2>1. ASSUME NEW c \in Clients
        PROVE  /\ client[c] \in ClientType
               /\ [client[c] EXCEPT !.room = next_room_id] \in ClientType
    <3>1. client[c] \in ClientType
      BY DEF ServerInv, OtherTypes
    <3>2. next_room_id \in 0..MaxRooms
      BY <1>6, BoundsAssumption
    <3> QED BY <3>1, <3>2 DEF ClientType
  <2> QED BY <1>1, <2>1
<1>9. Repo!TypeOK'
  <2>1. \A q \in DOMAIN repo : [repo[q] EXCEPT !.room_id = next_room_id] \in [score : Nat, room_id : Int]
    BY <1>6 DEF ServerInv, OtherTypes, Repo!TypeOK
  <2> QED BY <1>1, <2>1 DEF ServerInv, OtherTypes, Repo!TypeOK, Repo!save_room
<1>10. PSM!TypeOK'
  BY <1>1 DEF ServerInv, OtherTypes, PSM!TypeOK
<1>11. OtherTypes'
  BY <1>1, <1>6, <1>8, <1>9, <1>10, BoundsAssumption DEF ServerInv, OtherTypes
<1> QED BY <1>4, <1>5, <1>7, <1>11 DEF ServerInv

LEMMA ChatDeliveredKeeps ==
  ASSUME ServerInv, NEW s \in Sessions, ChatDelivered(s)
  PROVE  ServerInv'
<1>1. PICK S :
        /\ Dispatched(s, "chat") /\ Consume(s) /\ Sent(S)
        /\ Repo!add_score(player_id[s])
        /\ UNCHANGED <<player_id, registry_vars, client, fault>>
        /\ UNCHANGED queue_vars /\ UNCHANGED room_vars /\ UNCHANGED states
  BY DEF ChatDelivered
<1>2. SessionTypes' /\ RegistryTypes'
      /\ client' \in [Clients -> ClientType]
      /\ fault' \in {"none", "out_of_range", "null_session", "no_room"}
  BY <1>1, ReplyKeeps
<1>3. Repo!TypeOK'
  BY <1>1 DEF ServerInv, OtherTypes, Repo!TypeOK, Repo!add_score
<1>4. OtherTypes'
  BY <1>1, <1>2, <1>3 DEF ServerInv, OtherTypes, PSM!TypeOK, room_vars
<1> QED BY <1>1, <1>2, <1>4, QueueUnchanged, RoomsUnchanged DEF ServerInv

LEMMA ReconnectedTypes ==
  ASSUME ServerInv, NEW s \in Sessions, Reconnected(s)
  PROVE  ServerInv'
<1> DEFINE p == Head(rx[s]).arg
<1>1. /\ Dispatched(s, "reconnect") /\ Consume(s) /\ Sent({s})
      /\ player_id' = [player_id EXCEPT ![s] = p]
      /\ players' = insert_or_assign(players, p, s)
      /\ conns' = conns \cup {s}
      /\ RM!MarkPlayer(p, RM!Online)
      /\ PSM!mark_online(p)
      /\ UNCHANGED <<next_player_id, queue_vars, repo, client, fault>>
  BY DEF Reconnected, add_player, add_session, RM!mark_player_reconnected
<1>2. p \in PlayerIds
  BY <1>1, DispatchTypes, RequestArgs DEF ServerInv
<1>3. SessionTypes'
  <2>1. player_id' \in [Sessions -> 0..MaxPlayers]
    BY <1>1, <1>2, BoundsAssumption DEF ServerInv, SessionTypes, PlayerIds
  <2> QED BY <1>1, <2>1, ConsumeTypes, SentTypes DEF ServerInv, SessionTypes
<1>4. RegistryTypes'
  BY <1>1, <1>2 DEF ServerInv, RegistryTypes, insert_or_assign
<1>5. RMP!RoomInv'
  BY <1>1, SameRooms, RMP!MarkKeeps DEF ServerInv, RM!Online, RMP!Online
<1>6. PSM!TypeOK'
  <2>1. \A q \in DOMAIN states :
          [states[q] EXCEPT !.conn = PSM!Online] \in [conn : {PSM!Online, PSM!Offline}, room_id : Int]
    BY DEF ServerInv, OtherTypes, PSM!TypeOK
  <2> QED BY <1>1, <2>1 DEF ServerInv, OtherTypes, PSM!TypeOK, PSM!mark_online
<1>7. OtherTypes'
  BY <1>1, <1>6 DEF ServerInv, OtherTypes, Repo!TypeOK, RM!MarkPlayer
<1> QED BY <1>1, <1>3, <1>4, <1>5, <1>7, QueueUnchanged DEF ServerInv

\* A reconnection hands the close callback a room the index knows, or none.
LEMMA RoomOfPlayer ==
  ASSUME ServerInv, NEW p
  PROVE  RM!get_room_id_by_player(p) \in Int
  BY DEF ServerInv, RMP!RoomInv, RMP!TypeOK, RMP!RoomIndex, RM!get_room_id_by_player, RM!NoRoom

LEMMA CloseTypes ==
  ASSUME ServerInv, NEW s \in Sessions, NEW read \in 0..Len(rx[s]), Close(s, read)
  PROVE  ServerInv'
<1> DEFINE p == player_id[s]
           r == RM!get_room_id_by_player(p)
<1>1. /\ phase' = [phase EXCEPT ![s] = "closed"]
      /\ rx' = [rx EXCEPT ![s] = SubSeq(@, 1, read)]
      /\ sent' = [sent EXCEPT ![s] = FALSE]
      /\ MQ!leave(p)
      /\ players' = erase(players, p)
      /\ conns' = conns \ {s}
      /\ PSM!disconnect(p, r)
      /\ RM!MarkPlayer(p, RM!Offline)
      /\ UNCHANGED <<player_id, next_player_id, repo, client, fault>>
  BY DEF Close, remove_player, remove_session, RM!mark_player_disconnected
<1>2. p \in PlayerIds \cup {0}
  BY BoundsAssumption DEF ServerInv, SessionTypes, PlayerIds
<1>3. SessionTypes'
  <2>1. rx[s] \in Seq(Request)
    BY DEF ServerInv, SessionTypes
  <2>2. SubSeq(rx[s], 1, read) \in Seq(Request)
    BY <2>1
  <2> QED BY <1>1, <2>2 DEF ServerInv, SessionTypes, Phases
<1>4. RegistryTypes'
  BY <1>1 DEF ServerInv, RegistryTypes, erase, Restrict
<1>5. MQP!QueueInv'
  BY <1>1, SameQueue, MQP!LeaveKeeps DEF ServerInv
<1>6. RMP!RoomInv'
  BY <1>1, SameRooms, RMP!MarkKeeps DEF ServerInv, RM!Offline, RMP!Offline
<1>7. PSM!TypeOK'
  <2>1. r \in Int
    BY RoomOfPlayer
  <2> HIDE DEF p, r
  <2>2. [conn |-> PSM!Offline, room_id |-> r] \in [conn : {PSM!Online, PSM!Offline}, room_id : Int]
    BY <2>1
  <2>3. \A q \in DOMAIN states :
          [states[q] EXCEPT !.conn = PSM!Offline] \in [conn : {PSM!Online, PSM!Offline}, room_id : Int]
    BY DEF ServerInv, OtherTypes, PSM!TypeOK
  <2> QED BY <1>1, <1>2, <2>2, <2>3 DEF ServerInv, OtherTypes, PSM!TypeOK, PSM!disconnect, PSM!insert
<1>8. OtherTypes'
  BY <1>1, <1>7 DEF ServerInv, OtherTypes, Repo!TypeOK, RM!MarkPlayer
<1> QED BY <1>3, <1>4, <1>5, <1>6, <1>8 DEF ServerInv

LEMMA ClosesKeep ==
  ASSUME ServerInv, NEW s \in Sessions,
         OnReadError(s) \/ OnWriteError(s) \/ HeartbeatTimeout(s)
  PROVE  ServerInv'
<1>1. Len(rx[s]) \in Nat
  BY DEF ServerInv, SessionTypes
<1>2. AlreadyRead(s) \subseteq 0..Len(rx[s]) /\ 0 \in 0..Len(rx[s])
  BY <1>1 DEF AlreadyRead
<1>3. PICK read \in 0..Len(rx[s]) : Close(s, read)
  BY <1>2 DEF OnReadError, OnWriteError, HeartbeatTimeout
<1> QED BY <1>3, CloseTypes

LEMMA OnAbortKeeps ==
  ASSUME ServerInv, NEW s \in Sessions, OnAbort(s)
  PROVE  ServerInv'
<1>1. /\ phase' \in [Sessions -> Phases]
      /\ player_id' = [player_id EXCEPT ![s] = 0]
      /\ client' = [c \in Clients |->
            IF client[c].session = s THEN [client[c] EXCEPT !.session = None] ELSE client[c]]
      /\ UNCHANGED <<rx, sent, registry_vars, room_vars, fault>>
      /\ UNCHANGED <<states, repo>> /\ UNCHANGED queue_vars
  BY DEF OnAbort, server_vars, ServerInv, SessionTypes, Phases
<1>2. SessionTypes'
  BY <1>1, BoundsAssumption DEF ServerInv, SessionTypes
<1>3. client' \in [Clients -> ClientType]
  <2>1. ASSUME NEW c \in Clients
        PROVE  client[c] \in ClientType /\ [client[c] EXCEPT !.session = None] \in ClientType
    BY DEF ServerInv, OtherTypes, ClientType
  <2> QED BY <1>1, <2>1
<1>4. RegistryTypes' /\ OtherTypes'
  BY <1>1, <1>3, OthersUnchanged DEF ServerInv, registry_vars, room_vars, RegistryTypes, OtherTypes
<1> QED BY <1>1, <1>2, <1>4, QueueUnchanged, RoomsUnchanged DEF ServerInv

LEMMA ReconnectTimeoutTypes ==
  ASSUME ServerInv, NEW p, ReconnectTimeout(p)
  PROVE  ServerInv'
<1>1. /\ RM!remove_player(p)
      /\ states' = PSM!erase(states, p)
      /\ UNCHANGED <<session_vars, registry_vars, client, fault, repo>>
      /\ UNCHANGED queue_vars
  BY DEF ReconnectTimeout, PSM!remove_player
<1>2. RMP!RoomInv'
  BY <1>1, SameRooms, RMP!RemoveKeeps DEF ServerInv
<1>3. SessionTypes' /\ RegistryTypes'
  BY <1>1 DEF ServerInv, session_vars, registry_vars, SessionTypes, RegistryTypes
<1>4. PSM!TypeOK'
  BY <1>1 DEF ServerInv, OtherTypes, PSM!TypeOK, PSM!erase, PSM!Restrict
<1>5. OtherTypes'
  BY <1>1, <1>4 DEF ServerInv, OtherTypes, Repo!TypeOK, RM!remove_player
<1> QED BY <1>1, <1>2, <1>3, <1>5, QueueUnchanged DEF ServerInv

-------------------------------------------------------------------------------
LEMMA HandleKeeps ==
  ASSUME ServerInv, NEW s \in Sessions, Handle(s)
  PROVE  ServerInv'
<1>1. CASE HandleLogin(s)
  BY <1>1, LoginTypes
<1>2. CASE HandleMatch(s)
  <2>1. CASE MatchRejected(s)
    <3>1. /\ Dispatched(s, "match") /\ Consume(s) /\ Sent({s})
          /\ UNCHANGED <<player_id, registry_vars, queue_vars, room_vars, states, repo, client, fault>>
      BY <2>1 DEF MatchRejected
    <3> QED BY <3>1, AnswerKeeps
  <2>2. CASE MatchQueued(s)
    BY <2>2, MatchQueuedKeeps
  <2>3. CASE RoomCreated(s)
    BY <2>3, RoomCreatedKeeps
  <2>4. CASE MatchCrashes(s)
    BY <2>4, CrashKeeps DEF MatchCrashes, BroadcastCrash
  <2> QED BY <1>2, <2>1, <2>2, <2>3, <2>4 DEF HandleMatch
<1>3. CASE HandleChat(s)
  BY <1>3, ChatDeliveredKeeps, CrashKeeps DEF HandleChat, ChatCrashes, BroadcastCrash
<1>4. CASE HandleReconnect(s)
  <2>1. CASE ReconnectRefused(s)
    <3>1. /\ Dispatched(s, "reconnect") /\ Consume(s) /\ Sent({s})
          /\ UNCHANGED <<player_id, registry_vars, queue_vars, room_vars, states, repo, client, fault>>
      BY <2>1 DEF ReconnectRefused
    <3> QED BY <3>1, AnswerKeeps
  <2> QED BY <1>4, <2>1, ReconnectedTypes DEF HandleReconnect
<1>5. CASE HandlePing(s)
  <2>1. /\ Dispatched(s, "ping") /\ Consume(s) /\ Sent({s})
        /\ UNCHANGED <<player_id, registry_vars, queue_vars, room_vars, states, repo, client, fault>>
    BY <1>5 DEF HandlePing
  <2> QED BY <2>1, AnswerKeeps
<1> QED BY <1>1, <1>2, <1>3, <1>4, <1>5 DEF Handle

LEMMA ServerInvInductive == ServerInv /\ [Next]_vars => ServerInv'
<1> SUFFICES ASSUME ServerInv, [Next]_vars PROVE ServerInv'
  OBVIOUS
<1>1. ASSUME NEW c \in Clients, ClientStep(c) PROVE ServerInv'
  BY <1>1, StopClientKeeps, StartClientKeeps, ReconnectClientKeeps, ClientSendKeeps DEF ClientStep
<1>2. ASSUME NEW s \in Sessions, SessionStep(s) PROVE ServerInv'
  BY <1>2, HandleKeeps, ClosesKeep, OnAbortKeeps DEF SessionStep
<1>3. ASSUME NEW p \in PlayerIds \cup {0}, ReconnectTimeout(p) PROVE ServerInv'
  BY <1>3, ReconnectTimeoutTypes
<1>4. CASE UNCHANGED vars
  BY <1>4, StutterKeeps
<1> QED BY <1>1, <1>2, <1>3, <1>4 DEF Next

\* Every variable of the composed server keeps its type: the ids of players and
\* rooms that sessions, registries, requests and clients hold are handed-out ones.
THEOREM TypesCorrect == Spec => []TypeOK
<1>1. Init => ServerInv
  BY InitTypes
<1>2. ServerInv /\ [Next]_vars => ServerInv'
  BY ServerInvInductive
<1>3. ServerInv => TypeOK
  BY SameQueue, SameRooms DEF ServerInv, OtherTypes, TypeOK
<1> QED BY <1>1, <1>2, <1>3, PTL DEF Spec

\* The queue's two representations agree, and the room index dangles nowhere,
\* under every order of requests, closes and timeouts the server may meet.
THEOREM ComponentsSound == Spec => [](MQ!Mirror /\ RM!RoomIndex)
<1>1. Init => ServerInv
  BY InitTypes
<1>2. ServerInv /\ [Next]_vars => ServerInv'
  BY ServerInvInductive
<1>3. ServerInv => MQ!Mirror /\ RM!RoomIndex
  BY SameQueue, SameRooms DEF ServerInv
<1> QED BY <1>1, <1>2, <1>3, PTL DEF Spec
-------------------------------------------------------------------------------
(* SingleOwner, NoConnectedEviction, RoomView. *)

\* What the steps need of the variables' types.
OwnerTypes ==
    /\ phase \in [Sessions -> {"free", "open", "closed", "draining", "done"}]
    /\ player_id \in [Sessions -> Nat]
    /\ next_player_id \in Nat \ {0}
    /\ \A p \in DOMAIN states : "conn" \in DOMAIN states[p]

\* Ids come from the counter: no session and no window knows an id that a later
\* login will hand out, and a session that is not in use knows none.
IdsHandedOut ==
    /\ \A s \in Sessions : player_id[s] < next_player_id
    /\ \A p \in DOMAIN states : p \in Nat /\ p < next_player_id
    /\ \A s \in Sessions : phase[s] = "free" => player_id[s] = 0

\* The two halves of SingleOwner, for every id but the anonymous 0.
OneCarrier ==
    \A s, t \in Sessions :
        (IsOpen(s) /\ IsOpen(t) /\ player_id[s] = player_id[t] /\ player_id[s] # 0) => s = t

OfflineUnserved ==
    \A p \in Nat \ {0} :
        PSM!IsOffline(p) =>
            /\ \A s \in Sessions : IsOpen(s) => player_id[s] # p
            /\ p \notin DOMAIN players

OwnerInv == OwnerTypes /\ IdsHandedOut /\ OneCarrier /\ OfflineUnserved

-------------------------------------------------------------------------------
\* Steps that leave every player with the connection it has.
SameOwners ==
    /\ UNCHANGED <<player_id, players, states, next_player_id>>
    /\ phase' \in [Sessions -> {"free", "open", "closed", "draining", "done"}]
    /\ \A s \in Sessions : phase'[s] = "open" => phase[s] = "open"
    /\ \A s \in Sessions : phase'[s] = "free" => phase[s] = "free"

LEMMA SameOwnersKeeps == OwnerInv /\ SameOwners => OwnerInv'
  BY DEF OwnerInv, OwnerTypes, IdsHandedOut, OneCarrier, OfflineUnserved, SameOwners,
         IsOpen, PSM!IsOffline, PSM!Offline

\* Taking a request from a session changes no session that is open or free.
LEMMA ConsumeKeeps ==
  ASSUME OwnerTypes, NEW s \in Sessions, NEW op, Dispatched(s, op), Consume(s)
  PROVE  /\ phase' \in [Sessions -> {"free", "open", "closed", "draining", "done"}]
         /\ \A t \in Sessions : (phase'[t] = "open") <=> (phase[t] = "open")
         /\ \A t \in Sessions : phase'[t] = "free" => phase[t] = "free"
  BY DEF OwnerTypes, Dispatched, Consume, IsOpen

LEMMA InitOwners == Init => OwnerInv
  BY DEF Init, PSM!Init, OwnerInv, OwnerTypes, IdsHandedOut, OneCarrier, OfflineUnserved,
         IsOpen, PSM!IsOffline

LEMMA ConnectKeeps ==
  ASSUME OwnerInv, NEW c, NEW first, NEW known, Connect(c, first, known)
  PROVE  OwnerInv'
<1>1. PICK s \in Sessions :
        /\ phase[s] = "free"
        /\ phase' = [phase EXCEPT ![s] = "open"]
        /\ UNCHANGED <<player_id, players, states, next_player_id>>
  BY DEF Connect, server_vars, registry_vars
<1>2. player_id[s] = 0
  BY <1>1 DEF OwnerInv, IdsHandedOut
<1>3. OwnerTypes' /\ IdsHandedOut'
  BY <1>1 DEF OwnerInv, OwnerTypes, IdsHandedOut
<1>4. OneCarrier'
  BY <1>1, <1>2 DEF OwnerInv, OwnerTypes, OneCarrier, IsOpen
<1>5. OfflineUnserved'
  BY <1>1, <1>2 DEF OwnerInv, OwnerTypes, OfflineUnserved, IsOpen, PSM!IsOffline, PSM!Offline
<1> QED BY <1>3, <1>4, <1>5 DEF OwnerInv

LEMMA LoginKeeps ==
  ASSUME OwnerInv, NEW s \in Sessions, HandleLogin(s)
  PROVE  OwnerInv'
<1> DEFINE p == next_player_id
<1>1. /\ Dispatched(s, "login") /\ Consume(s)
      /\ next_player_id' = p + 1
      /\ player_id' = [player_id EXCEPT ![s] = p]
      /\ DOMAIN players' = DOMAIN players \cup {p}
      /\ states' = states
  BY DEF HandleLogin, add_player, NextPlayerId, insert_or_assign
<1>2. /\ phase' \in [Sessions -> {"free", "open", "closed", "draining", "done"}]
      /\ \A t \in Sessions : (phase'[t] = "open") <=> (phase[t] = "open")
      /\ \A t \in Sessions : phase'[t] = "free" => phase[t] = "free"
  BY <1>1, ConsumeKeeps DEF OwnerInv
<1>3. phase'[s] # "free"
  BY <1>1, <1>2 DEF Dispatched
<1>4. OwnerTypes'
  <2>1. player_id' \in [Sessions -> Nat] /\ next_player_id' \in Nat \ {0}
    BY <1>1 DEF OwnerInv, OwnerTypes
  <2> QED BY <1>1, <1>2, <2>1 DEF OwnerInv, OwnerTypes
<1>5. IdsHandedOut'
  BY <1>1, <1>2, <1>3 DEF OwnerInv, OwnerTypes, IdsHandedOut
<1>6. OneCarrier'
  BY <1>1, <1>2 DEF OwnerInv, OwnerTypes, IdsHandedOut, OneCarrier, IsOpen
<1>7. OfflineUnserved'
  BY <1>1, <1>2 DEF OwnerInv, OwnerTypes, IdsHandedOut, OfflineUnserved, IsOpen,
                    PSM!IsOffline, PSM!Offline
<1> QED BY <1>4, <1>5, <1>6, <1>7 DEF OwnerInv

\* A session becomes a player's only while the player has none: it was offline,
\* and mark_online ends the window in the same step.
LEMMA ReconnectedKeeps ==
  ASSUME OwnerInv, NEW s \in Sessions, Reconnected(s)
  PROVE  OwnerInv'
<1> DEFINE p == Head(rx[s]).arg
<1>1. /\ Dispatched(s, "reconnect") /\ Consume(s)
      /\ PSM!IsOffline(p)
      /\ PSM!mark_online(p)
      /\ next_player_id' = next_player_id
      /\ player_id' = [player_id EXCEPT ![s] = p]
      /\ DOMAIN players' = DOMAIN players \cup {p}
  BY DEF Reconnected, add_player, insert_or_assign
<1>2. /\ phase' \in [Sessions -> {"free", "open", "closed", "draining", "done"}]
      /\ \A t \in Sessions : (phase'[t] = "open") <=> (phase[t] = "open")
      /\ \A t \in Sessions : phase'[t] = "free" => phase[t] = "free"
  BY <1>1, ConsumeKeeps DEF OwnerInv
<1>3. phase'[s] # "free"
  BY <1>1, <1>2 DEF Dispatched
<1>4. /\ p \in DOMAIN states /\ p \in Nat /\ p < next_player_id
      /\ states' = [states EXCEPT ![p].conn = PSM!Online]
  BY <1>1 DEF OwnerInv, IdsHandedOut, PSM!IsOffline, PSM!mark_online
<1>5. /\ DOMAIN states' = DOMAIN states
      /\ \A q \in DOMAIN states : "conn" \in DOMAIN states'[q]
      /\ \A q \in DOMAIN states : q # p => states'[q] = states[q]
      /\ states'[p].conn = PSM!Online
  BY <1>4 DEF OwnerInv, OwnerTypes
<1>6. \A q \in Nat : PSM!IsOffline(q)' => PSM!IsOffline(q) /\ q # p
  BY <1>5 DEF PSM!IsOffline, PSM!Online, PSM!Offline
<1>7. OwnerTypes'
  BY <1>1, <1>2, <1>4, <1>5 DEF OwnerInv, OwnerTypes
<1>8. IdsHandedOut'
  BY <1>1, <1>2, <1>3, <1>4, <1>5 DEF OwnerInv, OwnerTypes, IdsHandedOut
<1>9. OneCarrier'
  <2>1. p # 0 => \A t \in Sessions : IsOpen(t) => player_id[t] # p
    BY <1>1, <1>4 DEF OwnerInv, OfflineUnserved
  <2> QED BY <1>1, <1>2, <1>4, <2>1 DEF OwnerInv, OwnerTypes, OneCarrier, IsOpen
<1>10. OfflineUnserved'
  BY <1>1, <1>2, <1>6 DEF OwnerInv, OwnerTypes, OfflineUnserved, IsOpen
<1> QED BY <1>7, <1>8, <1>9, <1>10 DEF OwnerInv

\* Closing a session starts the window of its player, who has no other session.
LEMMA CloseKeeps ==
  ASSUME OwnerInv, NEW s \in Sessions, IsOpen(s), NEW read, Close(s, read)
  PROVE  OwnerInv'
<1> DEFINE p == player_id[s]
<1>1. /\ phase' = [phase EXCEPT ![s] = "closed"]
      /\ UNCHANGED <<player_id, next_player_id>>
      /\ DOMAIN players' = DOMAIN players \ {p}
      /\ PSM!disconnect(p, RM!get_room_id_by_player(p))
  BY DEF Close, remove_player, erase, Restrict
<1>2. /\ DOMAIN states' = DOMAIN states \cup {p}
      /\ \A q \in DOMAIN states' : "conn" \in DOMAIN states'[q]
      /\ \A q \in DOMAIN states : q # p => states'[q] = states[q]
  BY <1>1 DEF PSM!disconnect, PSM!insert, OwnerInv, OwnerTypes
<1>3. \A q \in Nat : q # p /\ PSM!IsOffline(q)' => PSM!IsOffline(q)
  BY <1>2 DEF PSM!IsOffline, PSM!Offline
<1>4. p \in Nat /\ p < next_player_id
  BY DEF OwnerInv, OwnerTypes, IdsHandedOut
<1>5. OwnerTypes' /\ IdsHandedOut'
  BY <1>1, <1>2, <1>4 DEF OwnerInv, OwnerTypes, IdsHandedOut
<1>6. OneCarrier'
  BY <1>1 DEF OwnerInv, OwnerTypes, OneCarrier, IsOpen
<1>7. OfflineUnserved'
  <2>1. p # 0 => \A t \in Sessions : IsOpen(t) /\ player_id[t] = p => t = s
    BY DEF OwnerInv, OneCarrier
  <2> QED BY <1>1, <1>3, <2>1 DEF OwnerInv, OwnerTypes, OfflineUnserved, IsOpen
<1> QED BY <1>5, <1>6, <1>7 DEF OwnerInv

LEMMA AbortKeeps ==
  ASSUME OwnerInv, NEW s \in Sessions, OnAbort(s)
  PROVE  OwnerInv'
<1>1. /\ phase[s] = "closed"
      /\ phase' \in [Sessions -> {"free", "open", "closed", "draining", "done"}]
      /\ \A t \in Sessions \ {s} : phase'[t] = phase[t]
      /\ phase'[s] # "open"
      /\ player_id' = [player_id EXCEPT ![s] = 0]
      /\ UNCHANGED <<players, states, next_player_id>>
  BY DEF OnAbort, OwnerInv, OwnerTypes, server_vars, registry_vars
<1>2. OwnerTypes' /\ IdsHandedOut'
  BY <1>1 DEF OwnerInv, OwnerTypes, IdsHandedOut
<1>3. OneCarrier'
  BY <1>1 DEF OwnerInv, OwnerTypes, OneCarrier, IsOpen
<1>4. OfflineUnserved'
  BY <1>1 DEF OwnerInv, OwnerTypes, OfflineUnserved, IsOpen, PSM!IsOffline, PSM!Offline
<1> QED BY <1>2, <1>3, <1>4 DEF OwnerInv

LEMMA ReconnectTimeoutKeeps ==
  ASSUME OwnerInv, NEW p, ReconnectTimeout(p)
  PROVE  OwnerInv'
<1>1. /\ UNCHANGED <<phase, player_id, players, next_player_id>>
      /\ states' = [q \in DOMAIN states \ {p} |-> states[q]]
  BY DEF ReconnectTimeout, PSM!remove_player, PSM!erase, PSM!Restrict, session_vars, registry_vars
<1>2. \A q \in Nat : PSM!IsOffline(q)' => PSM!IsOffline(q)
  BY <1>1 DEF PSM!IsOffline, PSM!Offline
<1>3. OwnerTypes' /\ IdsHandedOut' /\ OneCarrier'
  BY <1>1 DEF OwnerInv, OwnerTypes, IdsHandedOut, OneCarrier, IsOpen
<1>4. OfflineUnserved'
  BY <1>1, <1>2 DEF OwnerInv, OfflineUnserved, IsOpen
<1> QED BY <1>3, <1>4 DEF OwnerInv

LEMMA ClientStepKeeps ==
  ASSUME OwnerInv, NEW c \in Clients, ClientStep(c)
  PROVE  OwnerInv'
<1>1. CASE StopClient(c) \/ ClientSend(c)
  <2>1. UNCHANGED <<phase, player_id, players, states, next_player_id>>
    BY <1>1 DEF StopClient, ClientSend, session_vars, server_vars, registry_vars
  <2>2. SameOwners
    BY <2>1 DEF SameOwners, OwnerInv, OwnerTypes
  <2> QED BY <2>2, SameOwnersKeeps
<1>2. CASE StartClient(c) \/ ReconnectClient(c)
  BY <1>2, ConnectKeeps DEF StartClient, ReconnectClient
<1> QED BY <1>1, <1>2 DEF ClientStep

LEMMA HandleKeepsOwners ==
  ASSUME OwnerInv, NEW s \in Sessions, Handle(s)
  PROVE  OwnerInv'
<1>1. ASSUME NEW op, Dispatched(s, op), Consume(s),
             UNCHANGED <<player_id, players, states, next_player_id>>
      PROVE  OwnerInv'
  <2>1. SameOwners
    BY <1>1, ConsumeKeeps DEF OwnerInv, SameOwners
  <2> QED BY <2>1, SameOwnersKeeps
<1>2. ASSUME NEW kind, Crash(kind) PROVE OwnerInv'
  <2>1. SameOwners
    BY <1>2 DEF Crash, SameOwners, session_vars, registry_vars, OwnerInv, OwnerTypes
  <2> QED BY <2>1, SameOwnersKeeps
<1>3. CASE HandleMatch(s)
  <2>1. CASE MatchRejected(s) \/ MatchQueued(s) \/ RoomCreated(s)
    BY <1>1, <2>1 DEF MatchRejected, MatchQueued, RoomCreated, registry_vars
  <2> QED BY <1>2, <1>3, <2>1 DEF HandleMatch, MatchCrashes, BroadcastCrash
<1>4. CASE HandleChat(s)
  <2>1. CASE ChatDelivered(s)
    BY <1>1, <2>1 DEF ChatDelivered, registry_vars
  <2> QED BY <1>2, <1>4, <2>1 DEF HandleChat, ChatCrashes, BroadcastCrash
<1>5. CASE HandleReconnect(s)
  <2>1. CASE ReconnectRefused(s)
    BY <1>1, <2>1 DEF ReconnectRefused, registry_vars
  <2> QED BY <1>5, <2>1, ReconnectedKeeps DEF HandleReconnect
<1>6. CASE HandlePing(s)
  BY <1>1, <1>6 DEF HandlePing, registry_vars
<1> QED BY <1>3, <1>4, <1>5, <1>6, LoginKeeps DEF Handle

LEMMA OwnerInvInductive == OwnerInv /\ [Next]_vars => OwnerInv'
<1> SUFFICES ASSUME OwnerInv, [Next]_vars PROVE OwnerInv'
  OBVIOUS
<1>1. ASSUME NEW c \in Clients, ClientStep(c) PROVE OwnerInv'
  BY <1>1, ClientStepKeeps
<1>2. ASSUME NEW s \in Sessions, SessionStep(s) PROVE OwnerInv'
  BY <1>2, HandleKeepsOwners, CloseKeeps, AbortKeeps
     DEF SessionStep, OnReadError, OnWriteError, HeartbeatTimeout
<1>3. ASSUME NEW p, ReconnectTimeout(p) PROVE OwnerInv'
  BY <1>3, ReconnectTimeoutKeeps
<1>4. CASE UNCHANGED vars
  <2>1. SameOwners
    BY <1>4 DEF vars, session_vars, registry_vars, SameOwners, OwnerInv, OwnerTypes
  <2> QED BY <2>1, SameOwnersKeeps
<1> QED BY <1>1, <1>2, <1>3, <1>4 DEF Next

LEMMA OwnerInvSuffices == OwnerInv => SingleOwner
  BY BoundsAssumption
     DEF OwnerInv, OneCarrier, OfflineUnserved, SingleOwner, Carriers, PlayerIds, IsOpen

\* A player is served over one connection at most, and not at all while its
\* window runs, whatever the clients ask and the order sessions close in.
THEOREM OwnerIsSingle == Spec => []SingleOwner
<1>1. Init => OwnerInv
  BY InitOwners
<1>2. OwnerInv /\ [Next]_vars => OwnerInv'
  BY OwnerInvInductive
<1>3. OwnerInv => SingleOwner
  BY OwnerInvSuffices
<1> QED BY <1>1, <1>2, <1>3, PTL DEF Spec

-------------------------------------------------------------------------------
\* Only the timeout takes anybody out of the room index.
LEMMA OnlyTimeoutUnseats ==
  ASSUME Next, \A p \in PlayerIds \cup {0} : ~ReconnectTimeout(p)
  PROVE  DOMAIN player_room_map \subseteq DOMAIN player_room_map'
<1>1. ASSUME NEW c \in Clients, ClientStep(c) PROVE UNCHANGED player_room_map
  BY <1>1 DEF ClientStep, StopClient, StartClient, ReconnectClient, ClientSend, Connect,
              server_vars, room_vars
<1>2. ASSUME NEW s \in Sessions, Handle(s)
      PROVE  DOMAIN player_room_map \subseteq DOMAIN player_room_map'
  <2>1. CASE RoomCreated(s)
    BY <2>1 DEF RoomCreated, RM!create_room, RM!Indexed, RM!insert
  <2>2. CASE Reconnected(s)
    BY <2>2 DEF Reconnected, RM!mark_player_reconnected, RM!MarkPlayer
  <2>3. ASSUME NEW kind, Crash(kind) PROVE UNCHANGED player_room_map
    BY <2>3 DEF Crash, room_vars
  <2>4. CASE ~RoomCreated(s) /\ ~Reconnected(s)
    BY <1>2, <2>3, <2>4
       DEF Handle, HandleLogin, HandleMatch, MatchRejected, MatchQueued, MatchCrashes, HandleChat,
           ChatDelivered, ChatCrashes, BroadcastCrash, HandleReconnect, ReconnectRefused, HandlePing,
           room_vars
  <2> QED BY <2>1, <2>2, <2>4
<1>3. ASSUME NEW s \in Sessions, NEW read, Close(s, read) PROVE UNCHANGED player_room_map
  BY <1>3 DEF Close, RM!mark_player_disconnected, RM!MarkPlayer
<1>4. ASSUME NEW s \in Sessions, OnAbort(s) PROVE UNCHANGED player_room_map
  BY <1>4 DEF OnAbort, server_vars, room_vars
<1> QED BY <1>1, <1>2, <1>3, <1>4
        DEF Next, SessionStep, OnReadError, OnWriteError, HeartbeatTimeout

LEMMA TimeoutEvicts ==
  ASSUME ServerInv, OwnerInv, NEW p, ReconnectTimeout(p)
  PROVE  Eviction
<1>1. /\ PSM!IsOffline(p)
      /\ players' = players
      /\ DOMAIN states' = DOMAIN states \ {p}
  BY DEF ReconnectTimeout, PSM!remove_player, PSM!erase, PSM!Restrict, registry_vars
<1>2. DOMAIN player_room_map \ DOMAIN player_room_map' \subseteq {p}
  BY DEF ReconnectTimeout, RM!remove_player, RM!erase, RM!Restrict
<1>3. \A q \in DOMAIN player_room_map : q \in PlayerIds
  BY DEF ServerInv, RMP!RoomInv, RMP!TypeOK
<1>4. p \in PlayerIds => Carriers(p) = {} /\ p \notin DOMAIN players
  BY <1>1, OwnerInvSuffices DEF SingleOwner
<1> QED BY <1>1, <1>2, <1>3, <1>4 DEF Eviction

\* Nobody loses a seat while served: the only step that empties one is a timeout
\* of a player whom, by SingleOwner, no session and no registry entry carries.
THEOREM NobodyEvicted == Spec => NoConnectedEviction
<1>1. Init => ServerInv /\ OwnerInv
  BY InitTypes, InitOwners
<1>2. ServerInv /\ OwnerInv /\ [Next]_vars => (ServerInv /\ OwnerInv)'
  BY ServerInvInductive, OwnerInvInductive
<1>3. ServerInv /\ OwnerInv /\ [Next]_vars => [Eviction]_vars
  BY OnlyTimeoutUnseats, TimeoutEvicts DEF Eviction
<1> QED BY <1>1, <1>2, <1>3, PTL DEF Spec, NoConnectedEviction

-------------------------------------------------------------------------------
(* RoomView: every step that changes one flag changes the other. *)

LEMMA ViewUnchanged == RoomView /\ UNCHANGED <<room_vars, states>> => RoomView'
  BY DEF RoomView, room_vars, PSM!IsOffline

\* A room's players are taken to be online; those popped are registered, so they are.
LEMMA ViewCreate ==
  ASSUME ServerInv, OwnerInv, RoomView, NEW s \in Sessions, RoomCreated(s)
  PROVE  RoomView'
<1> DEFINE p == Head(rx[s]).arg
           S == Range(MQ!Matched(p))
           n == next_room_id
<1>1. /\ Dispatched(s, "match")
      /\ S \subseteq DOMAIN players
      /\ rooms' = RM!insert(rooms, [r \in {n} |-> RM!Room(S)])
      /\ player_room_map' = RM!insert(player_room_map, [q \in S |-> n])
      /\ states' = states
  BY DEF RoomCreated, RM!create_room, RM!Indexed, Reachable, Unregistered
<1>2. S \subseteq PlayerIds
  <2>1. p \in PlayerIds
    BY <1>1, DispatchTypes, RequestArgs DEF ServerInv
  <2> QED BY <2>1, MatchedArePlayers
<1> HIDE DEF S, p
<1>3. \A q \in S : ~PSM!IsOffline(q)
  BY <1>1, <1>2, OwnerInvSuffices DEF SingleOwner
<1>4. n \notin DOMAIN rooms
  BY DEF ServerInv, RMP!RoomInv, RMP!TypeOK
<1>5. /\ \A r \in DOMAIN rooms : rooms'[r] = rooms[r]
      /\ rooms'[n] = RM!Room(S)
  BY <1>1, <1>4 DEF RM!insert
<1>6. ASSUME NEW q \in DOMAIN player_room_map'
      PROVE  rooms'[player_room_map'[q]].conn[q] = RM!Offline <=> PSM!IsOffline(q)
  <2>1. CASE q \in DOMAIN player_room_map
    <3>1. player_room_map'[q] = player_room_map[q] /\ player_room_map[q] \in DOMAIN rooms
      BY <1>1, <2>1 DEF RM!insert, ServerInv, RMP!RoomInv, RMP!RoomIndex
    <3> QED BY <1>5, <2>1, <3>1 DEF RoomView
  <2>2. CASE q \notin DOMAIN player_room_map
    <3>1. q \in S /\ player_room_map'[q] = n
      BY <1>1, <2>2 DEF RM!insert
    <3>2. rooms'[n].conn[q] = RM!Online
      BY <1>5, <3>1 DEF RM!Room
    <3> QED BY <1>3, <3>1, <3>2 DEF RM!Online, RM!Offline
  <2> QED BY <2>1, <2>2
<1> QED BY <1>1, <1>6 DEF RoomView, PSM!IsOffline

\* Marking a player in its room and in the window's table together.
LEMMA ViewMark ==
  ASSUME ServerInv, RoomView, NEW p, NEW c \in {RM!Online, RM!Offline}, RM!MarkPlayer(p, c),
         PSM!IsOffline(p)' <=> c = RM!Offline,
         \A q : q # p => (PSM!IsOffline(q)' <=> PSM!IsOffline(q))
  PROVE  RoomView'
<1>1. player_room_map' = player_room_map
  BY DEF RM!MarkPlayer
<1>2. ASSUME NEW q \in DOMAIN player_room_map
      PROVE  rooms'[player_room_map[q]].conn[q]
                = IF q = p THEN c ELSE rooms[player_room_map[q]].conn[q]
  <2>1. /\ player_room_map[q] \in DOMAIN rooms
        /\ q \in DOMAIN rooms[player_room_map[q]].conn
        /\ rooms[player_room_map[q]] \in RMP!RoomType
    BY DEF ServerInv, RMP!RoomInv, RMP!RoomIndex, RMP!TypeOK
  <2>2. CASE p \in DOMAIN player_room_map /\ p \in DOMAIN rooms[player_room_map[p]].conn
    <3>1. /\ player_room_map[p] \in DOMAIN rooms
          /\ rooms[player_room_map[p]] \in RMP!RoomType
      BY <2>2 DEF ServerInv, RMP!RoomInv, RMP!RoomIndex, RMP!TypeOK
    <3>2. rooms' = [rooms EXCEPT ![player_room_map[p]].conn[p] = c]
      BY <2>2 DEF RM!MarkPlayer
    <3>3. CASE player_room_map[q] # player_room_map[p]
      BY <2>1, <3>2, <3>3
    <3>4. CASE player_room_map[q] = player_room_map[p]
      BY <2>1, <2>2, <3>1, <3>2, <3>4 DEF RMP!RoomType, RMP!ConnStates
    <3> QED BY <3>3, <3>4
  <2>3. CASE ~(p \in DOMAIN player_room_map /\ p \in DOMAIN rooms[player_room_map[p]].conn)
    <3>1. rooms' = rooms /\ q # p
      BY <2>1, <2>3 DEF RM!MarkPlayer
    <3> QED BY <3>1
  <2> QED BY <2>2, <2>3
<1>3. ASSUME NEW q \in DOMAIN player_room_map
      PROVE  rooms'[player_room_map[q]].conn[q] = RM!Offline <=> PSM!IsOffline(q)'
  BY <1>2 DEF RoomView
<1> QED BY <1>1, <1>3 DEF RoomView

LEMMA ViewReconnected ==
  ASSUME ServerInv, RoomView, NEW s \in Sessions, Reconnected(s)
  PROVE  RoomView'
<1>0. PICK p : p = Head(rx[s]).arg
  OBVIOUS
<1>1. /\ PSM!IsOffline(p) /\ PSM!mark_online(p)
      /\ RM!MarkPlayer(p, RM!Online)
  BY <1>0 DEF Reconnected, RM!mark_player_reconnected
<1>2. /\ p \in DOMAIN states
      /\ states' = [states EXCEPT ![p].conn = PSM!Online]
      /\ \A q \in DOMAIN states : states[q] \in [conn : {PSM!Online, PSM!Offline}, room_id : Int]
  BY <1>1 DEF PSM!mark_online, PSM!IsOffline, ServerInv, OtherTypes, PSM!TypeOK
<1>3. states'[p].conn = PSM!Online
  BY <1>2
<1>4. ~PSM!IsOffline(p)'
  BY <1>3 DEF PSM!IsOffline, PSM!Online, PSM!Offline
<1>5. \A q : q # p => (PSM!IsOffline(q)' <=> PSM!IsOffline(q))
  BY <1>2 DEF PSM!IsOffline
<1> QED BY <1>1, <1>4, <1>5, ViewMark DEF RM!Online, RM!Offline

LEMMA ViewClose ==
  ASSUME ServerInv, RoomView, NEW s \in Sessions, NEW read, Close(s, read)
  PROVE  RoomView'
<1>0. PICK p, r : p = player_id[s] /\ r = RM!get_room_id_by_player(p)
  OBVIOUS
<1>1. PSM!disconnect(p, r) /\ RM!MarkPlayer(p, RM!Offline)
  BY <1>0 DEF Close, RM!mark_player_disconnected
<1>2. \A q \in DOMAIN states : states[q] \in [conn : {PSM!Online, PSM!Offline}, room_id : Int]
  BY DEF ServerInv, OtherTypes, PSM!TypeOK
<1>3. p \in DOMAIN states' /\ states'[p].conn = PSM!Offline
  BY <1>1, <1>2 DEF PSM!disconnect, PSM!insert
<1>4. \A q : q # p => (PSM!IsOffline(q)' <=> PSM!IsOffline(q))
  BY <1>1 DEF PSM!disconnect, PSM!insert, PSM!IsOffline
<1>5. PSM!IsOffline(p)'
  BY <1>3 DEF PSM!IsOffline
<1> QED BY <1>1, <1>4, <1>5, ViewMark

\* Who else sits in the room of an overdue player keeps the room, flags included.
LEMMA ViewTimeout ==
  ASSUME ServerInv, RoomView, NEW p, ReconnectTimeout(p)
  PROVE  RoomView'
<1>1. RM!remove_player(p) /\ states' = PSM!erase(states, p)
  BY DEF ReconnectTimeout, PSM!remove_player
<1>2. \A q : q # p => (PSM!IsOffline(q)' <=> PSM!IsOffline(q))
  BY <1>1 DEF PSM!erase, PSM!Restrict, PSM!IsOffline
<1>3. CASE p \notin DOMAIN player_room_map
  BY <1>1, <1>2, <1>3 DEF RM!remove_player, RoomView
<1>4. CASE p \in DOMAIN player_room_map
  <2> DEFINE r == player_room_map[p]
             left == rooms[r].player_ids \ {p}
  <2>1. /\ player_room_map' = RM!erase(player_room_map, p)
        /\ rooms' = IF left = {} THEN RM!erase(rooms, r)
                    ELSE [rooms EXCEPT ![r].player_ids = left]
    BY <1>1, <1>4 DEF RM!remove_player, RM!RoomIsOver
  <2>2. ASSUME NEW q \in DOMAIN player_room_map, q # p
        PROVE  /\ player_room_map'[q] = player_room_map[q]
               /\ rooms'[player_room_map[q]].conn = rooms[player_room_map[q]].conn
    <3>1. /\ player_room_map[q] \in DOMAIN rooms
          /\ q \in rooms[player_room_map[q]].player_ids
          /\ rooms[player_room_map[q]] \in RMP!RoomType
      BY DEF ServerInv, RMP!RoomInv, RMP!RoomIndex, RMP!TypeOK
    <3>2. player_room_map'[q] = player_room_map[q]
      BY <2>1, <2>2 DEF RM!erase, RM!Restrict
    <3>3. CASE player_room_map[q] = r
      BY <2>1, <2>2, <3>1, <3>2, <3>3 DEF RMP!RoomType
    <3>4. CASE player_room_map[q] # r
      BY <2>1, <3>1, <3>2, <3>4 DEF RM!erase, RM!Restrict
    <3> QED BY <3>2, <3>3, <3>4
  <2>3. DOMAIN player_room_map' = DOMAIN player_room_map \ {p}
    BY <2>1 DEF RM!erase, RM!Restrict
  <2> QED BY <1>2, <2>2, <2>3 DEF RoomView
<1> QED BY <1>3, <1>4

LEMMA RoomViewInductive ==
  ServerInv /\ OwnerInv /\ RoomView /\ [Next]_vars => RoomView'
<1> SUFFICES ASSUME ServerInv, OwnerInv, RoomView, [Next]_vars PROVE RoomView'
  OBVIOUS
<1>1. ASSUME NEW c \in Clients, ClientStep(c) PROVE RoomView'
  BY <1>1, ViewUnchanged
     DEF ClientStep, StopClient, StartClient, ReconnectClient, ClientSend, Connect, server_vars
<1>2. ASSUME NEW s \in Sessions, Handle(s) PROVE RoomView'
  <2>1. CASE RoomCreated(s)
    BY <2>1, ViewCreate
  <2>2. CASE Reconnected(s)
    BY <2>2, ViewReconnected
  <2>3. ASSUME NEW kind, Crash(kind) PROVE RoomView'
    BY <2>3, ViewUnchanged DEF Crash
  <2>4. CASE ~RoomCreated(s) /\ ~Reconnected(s)
    BY <1>2, <2>3, <2>4, ViewUnchanged
       DEF Handle, HandleLogin, HandleMatch, MatchRejected, MatchQueued, MatchCrashes, HandleChat,
           ChatDelivered, ChatCrashes, BroadcastCrash, HandleReconnect, ReconnectRefused, HandlePing
  <2> QED BY <2>1, <2>2, <2>4
<1>3. ASSUME NEW s \in Sessions, OnReadError(s) \/ OnWriteError(s) \/ HeartbeatTimeout(s)
      PROVE  RoomView'
  BY <1>3, ViewClose DEF OnReadError, OnWriteError, HeartbeatTimeout
<1>4. ASSUME NEW s \in Sessions, OnAbort(s) PROVE RoomView'
  BY <1>4, ViewUnchanged DEF OnAbort, server_vars
<1>5. ASSUME NEW p, ReconnectTimeout(p) PROVE RoomView'
  BY <1>5, ViewTimeout
<1>6. CASE UNCHANGED vars
  BY <1>6, ViewUnchanged DEF vars
<1> QED BY <1>1, <1>2, <1>3, <1>4, <1>5, <1>6 DEF Next, SessionStep

\* The room's flag and the window's table agree on every seated player, although
\* the room is built from players it takes to be online.
THEOREM RoomViewAgrees == Spec => []RoomView
<1>1. Init => ServerInv /\ OwnerInv /\ RoomView
  <2>1. Init => RoomView
    BY DEF Init, RM!Init, RoomView
  <2> QED BY <2>1, InitTypes, InitOwners
<1>2. (ServerInv /\ OwnerInv /\ RoomView) /\ [Next]_vars => (ServerInv /\ OwnerInv /\ RoomView)'
  BY ServerInvInductive, OwnerInvInductive, RoomViewInductive
<1> QED BY <1>1, <1>2, PTL DEF Spec

-------------------------------------------------------------------------------
(***************************************************************************)
(* RegistryExact, NoNullSession, ToldRoomExists and the refinement of      *)
(* PlayerPresence, when a connection logs in or reconnects with its first  *)
(* request only (~LoginAnytime), as the client of the repository does.     *)
(***************************************************************************)
\* The requests that give a session its player.
Identifies(req) == req.op \in {"login", "reconnect"}

\* Why a session gets a player once: the request that gives it one is the first of
\* the connection, and until it is handled nothing was sent, so that no completed
\* write and no timer can close the session before.
IdentifiedFirst ==
    \A s \in Sessions :
        /\ \A i \in 2..Len(rx[s]) : ~Identifies(rx[s][i])
        /\ (rx[s] # <<>> /\ Identifies(rx[s][1])) => (IsOpen(s) /\ player_id[s] = 0 /\ ~sent[s])
        /\ sent[s] => IsOpen(s)

\* No entry of players_ outlives its session object.
NoneExpired == \A s \in Sessions : phase[s] # "done"

RegistryInv == IdentifiedFirst /\ NoneExpired /\ RegistryExact /\ NoNullSession

-------------------------------------------------------------------------------
(* IdentifiedFirst. *)

\* Taking a request leaves none that identifies.
LEMMA TakenLeavesNone ==
  ASSUME ServerInv, IdentifiedFirst, NEW s \in Sessions, NEW op, Dispatched(s, op), Consume(s)
  PROVE  /\ \A i \in 1..Len(rx'[s]) : ~Identifies(rx'[s][i])
         /\ rx'[s] # <<>> => ~Identifies(rx'[s][1])
         /\ \A t \in Sessions \ {s} : rx'[t] = rx[t]
         /\ Len(rx'[s]) \in Nat
<1>1. /\ rx[s] \in Seq(Request) /\ rx[s] # <<>>
      /\ rx'[s] = Tail(rx[s])
      /\ \A t \in Sessions \ {s} : rx'[t] = rx[t]
  BY DEF ServerInv, SessionTypes, Consume, Dispatched
<1>2. ASSUME NEW i \in 1..Len(rx'[s]) PROVE ~Identifies(rx'[s][i])
  <2>1. i + 1 \in 2..Len(rx[s]) /\ rx'[s][i] = rx[s][i + 1]
    BY <1>1, <1>2
  <2> QED BY <2>1 DEF IdentifiedFirst
<1>3. Len(rx'[s]) \in Nat /\ (rx'[s] # <<>> => 1 \in 1..Len(rx'[s]))
  BY <1>1
<1> QED BY <1>1, <1>2, <1>3

\* Taking the first request leaves none that identifies, and the sessions the
\* handler answers, others than the one it serves, have their player already.
LEMMA TakingKeepsFirst ==
  ASSUME ServerInv, IdentifiedFirst, NEW s \in Sessions, NEW op, NEW S,
         Dispatched(s, op), Consume(s), Sent(S),
         \A t \in Sessions \ {s} : player_id'[t] = player_id[t] /\ (t \in S => player_id[t] # 0)
  PROVE  IdentifiedFirst'
<1>1. \A t \in Sessions : IsOpen(t)' <=> IsOpen(t)
  BY DEF ServerInv, SessionTypes, Consume, Dispatched, IsOpen
<1>2. \A t \in Sessions : sent'[t] <=> (sent[t] \/ (t \in S /\ IsOpen(t)))
  BY DEF Sent
<1>3. \A t \in Sessions \ {s} : rx'[t] = rx[t]
  BY TakenLeavesNone
<1>5. ASSUME NEW t \in Sessions \ {s}
      PROVE  /\ \A i \in 2..Len(rx'[t]) : ~Identifies(rx'[t][i])
             /\ (rx'[t] # <<>> /\ Identifies(rx'[t][1]))
                    => (IsOpen(t)' /\ player_id'[t] = 0 /\ ~sent'[t])
             /\ sent'[t] => IsOpen(t)'
  BY <1>1, <1>2, <1>3, <1>5 DEF IdentifiedFirst
<1>6. /\ \A i \in 2..Len(rx'[s]) : ~Identifies(rx'[s][i])
      /\ rx'[s] # <<>> => ~Identifies(rx'[s][1])
      /\ sent'[s] => IsOpen(s)'
  <2>1. Len(rx'[s]) \in Nat
    BY TakenLeavesNone
  <2>2. \A i \in 2..Len(rx'[s]) : i \in 1..Len(rx'[s])
    BY <2>1
  <2> QED BY <1>1, <1>2, <2>2, TakenLeavesNone DEF IdentifiedFirst
<1> QED BY <1>5, <1>6 DEF IdentifiedFirst, Identifies, IsOpen

LEMMA ConnectKeepsFirst ==
  ASSUME ServerInv, OwnerInv, IdentifiedFirst, NEW c, NEW first, NEW known, Connect(c, first, known)
  PROVE  IdentifiedFirst'
<1>1. PICK s \in Sessions :
        /\ phase[s] = "free"
        /\ phase' = [phase EXCEPT ![s] = "open"]
        /\ rx' = [rx EXCEPT ![s] = <<first>>]
        /\ UNCHANGED <<player_id, sent>>
  BY DEF Connect
<1>2. player_id[s] = 0 /\ ~sent[s]
  BY <1>1 DEF OwnerInv, IdsHandedOut, IdentifiedFirst, IsOpen
<1>3. /\ phase'[s] = "open" /\ rx'[s] = <<first>>
      /\ \A t \in Sessions \ {s} : phase'[t] = phase[t] /\ rx'[t] = rx[t]
  BY <1>1 DEF ServerInv, SessionTypes
<1>4. \A i \in 2..Len(rx'[s]) : FALSE
  BY <1>3
<1> QED BY <1>1, <1>2, <1>3, <1>4 DEF IdentifiedFirst, IsOpen, Identifies

\* What a client asks later identifies nobody.
LEMMA SendKeepsFirst ==
  ASSUME ~LoginAnytime, ServerInv, IdentifiedFirst, NEW c \in Clients, ClientSend(c)
  PROVE  IdentifiedFirst'
<1>1. PICK s \in {client[c].session} \ {None}, req \in NextRequests(c) :
        /\ rx' = [rx EXCEPT ![s] = Append(@, req)]
        /\ UNCHANGED <<phase, player_id, sent>>
  BY DEF ClientSend
<1>2. ~Identifies(req)
  <2>1. req.op \in LaterOps
    BY <1>1 DEF NextRequests
  <2> QED BY <2>1 DEF LoginAnytime, Identifies
<1>3. s \in Sessions
  BY <1>1 DEF ServerInv, OtherTypes, ClientType
<1>4. /\ rx[s] \in Seq(Request)
      /\ rx'[s] = Append(rx[s], req)
      /\ \A t \in Sessions \ {s} : rx'[t] = rx[t]
  BY <1>1, <1>3 DEF ServerInv, SessionTypes
<1>5. /\ Len(rx'[s]) = Len(rx[s]) + 1
      /\ \A i \in 1..Len(rx[s]) : rx'[s][i] = rx[s][i]
      /\ rx'[s][Len(rx[s]) + 1] = req
      /\ Len(rx[s]) \in Nat
  BY <1>4
<1>6. \A i \in 2..Len(rx'[s]) : ~Identifies(rx'[s][i])
  BY <1>2, <1>3, <1>5 DEF IdentifiedFirst
<1>7. Identifies(rx'[s][1]) => rx[s] # <<>> /\ Identifies(rx[s][1])
  <2>1. CASE rx[s] = <<>>
    BY <1>2, <1>5, <2>1
  <2>2. CASE rx[s] # <<>>
    <3>1. 1 \in 1..Len(rx[s])
      BY <1>4, <2>2
    <3>2. rx'[s][1] = rx[s][1]
      BY <1>5, <3>1
    <3> QED BY <2>2, <3>2
  <2> QED BY <2>1, <2>2
<1> HIDE DEF Identifies
<1>8. Identifies(rx'[s][1]) => IsOpen(s) /\ player_id[s] = 0 /\ ~sent[s]
  BY <1>3, <1>7 DEF IdentifiedFirst
<1>9. ASSUME NEW t \in Sessions
      PROVE  /\ \A i \in 2..Len(rx'[t]) : ~Identifies(rx'[t][i])
             /\ (rx'[t] # <<>> /\ Identifies(rx'[t][1]))
                    => (IsOpen(t) /\ player_id[t] = 0 /\ ~sent[t])
             /\ sent[t] => IsOpen(t)
  <2>1. CASE t = s
    BY <1>3, <1>6, <1>8, <2>1 DEF IdentifiedFirst
  <2>2. CASE t # s
    BY <1>4, <2>2 DEF IdentifiedFirst
  <2> QED BY <2>1, <2>2
<1> QED BY <1>1, <1>9 DEF IdentifiedFirst, IsOpen, Identifies

\* A session is closed with a request that identifies only when nothing read is
\* kept: a write is outstanding, or the heartbeat looks, once the request is handled.
LEMMA ClosesKeepFirst ==
  ASSUME ServerInv, IdentifiedFirst, RegistryExact, NEW s \in Sessions,
         OnReadError(s) \/ OnWriteError(s) \/ HeartbeatTimeout(s)
  PROVE  IdentifiedFirst'
<1>1. Len(rx[s]) \in Nat /\ AlreadyRead(s) \subseteq 0..Len(rx[s])
  BY DEF ServerInv, SessionTypes, AlreadyRead
<1>2. PICK read \in 0..Len(rx[s]) :
        /\ Close(s, read)
        /\ read # 0 => (sent[s] \/ s \in conns)
  BY <1>1 DEF OnReadError, OnWriteError, HeartbeatTimeout
<1>3. /\ phase' = [phase EXCEPT ![s] = "closed"]
      /\ rx' = [rx EXCEPT ![s] = SubSeq(@, 1, read)]
      /\ sent' = [sent EXCEPT ![s] = FALSE]
      /\ player_id' = player_id
  BY <1>2 DEF Close
<1>4. /\ rx[s] \in Seq(Request)
      /\ rx'[s] = SubSeq(rx[s], 1, read)
      /\ sent'[s] = FALSE
      /\ \A t \in Sessions \ {s} : rx'[t] = rx[t] /\ phase'[t] = phase[t] /\ sent'[t] = sent[t]
  BY <1>3 DEF ServerInv, SessionTypes
<1>5. ASSUME NEW i \in 1..Len(rx'[s]) PROVE ~Identifies(rx'[s][i])
  <2>1. Len(rx'[s]) = read
    BY <1>1, <1>4
  <2>2. i \in 1..Len(rx[s]) /\ rx'[s][i] = rx[s][i] /\ read # 0
    BY <1>1, <1>4, <1>5, <2>1
  <2>3. rx[s] # <<>>
    BY <1>4, <2>2
  <2>4. ~Identifies(rx[s][1])
    BY <1>2, <2>2, <2>3 DEF IdentifiedFirst, RegistryExact
  <2>5. \A j \in 2..Len(rx[s]) : ~Identifies(rx[s][j])
    BY DEF IdentifiedFirst
  <2>6. i = 1 \/ i \in 2..Len(rx[s])
    BY <1>1, <2>2
  <2> QED BY <2>2, <2>4, <2>5, <2>6
<1>6. Len(rx'[s]) \in Nat /\ (rx'[s] # <<>> => 1 \in 1..Len(rx'[s]))
  BY <1>1, <1>4
<1>7. /\ \A i \in 2..Len(rx'[s]) : ~Identifies(rx'[s][i])
      /\ rx'[s] # <<>> => ~Identifies(rx'[s][1])
  BY <1>5, <1>6
<1>8. ASSUME NEW t \in Sessions \ {s}
      PROVE  /\ \A i \in 2..Len(rx'[t]) : ~Identifies(rx'[t][i])
             /\ (rx'[t] # <<>> /\ Identifies(rx'[t][1]))
                    => (IsOpen(t)' /\ player_id'[t] = 0 /\ ~sent'[t])
             /\ sent'[t] => IsOpen(t)'
  BY <1>3, <1>4, <1>8 DEF IdentifiedFirst, IsOpen
<1> QED BY <1>4, <1>7, <1>8 DEF IdentifiedFirst, IsOpen, Identifies

-------------------------------------------------------------------------------
(* RegistryExact. *)

\* Steps that give no session a player, take none, and close nobody's.
SameRegistry ==
    /\ players' = players /\ conns' = conns
    /\ \A s \in Sessions :
        /\ IsOpen(s) => (IsOpen(s)' /\ player_id'[s] = player_id[s])
        /\ IsOpen(s)' => (IsOpen(s) \/ player_id'[s] = 0)

LEMMA SameRegistryKeeps == RegistryExact /\ SameRegistry => RegistryExact'
<1> SUFFICES ASSUME RegistryExact, SameRegistry PROVE RegistryExact'
  OBVIOUS
<1>1. ASSUME NEW p \in PlayerIds PROVE Carriers(p)' = Carriers(p)
  BY BoundsAssumption DEF PlayerIds, Carriers, SameRegistry
<1>2. {s \in Sessions : IsOpen(s)' /\ player_id'[s] # 0}
        = {s \in Sessions : IsOpen(s) /\ player_id[s] # 0}
  BY DEF SameRegistry
<1>3. \A p \in DOMAIN players : p \in PlayerIds
  BY DEF RegistryExact
<1> QED BY <1>1, <1>2, <1>3 DEF RegistryExact, SameRegistry, IsOpen, PlayerIds

\* Session s, without a player, becomes the only one of a player that has none.
LEMMA AssignKeepsRegistry ==
  ASSUME ServerInv, RegistryExact, NEW s \in Sessions, NEW p \in PlayerIds,
         IsOpen(s), player_id[s] = 0, Carriers(p) = {},
         \A t \in Sessions : IsOpen(t)' <=> IsOpen(t),
         player_id' = [player_id EXCEPT ![s] = p],
         players' = insert_or_assign(players, p, s),
         conns' = conns \cup {s}
  PROVE  RegistryExact'
<1>1. p # 0 /\ \A q \in PlayerIds : q # 0
  BY BoundsAssumption DEF PlayerIds
<1>2. player_id'[s] = p /\ \A t \in Sessions \ {s} : player_id'[t] = player_id[t]
  BY DEF ServerInv, SessionTypes
<1>3. Carriers(p)' = {s}
  BY <1>2 DEF Carriers
<1>4. \A q \in PlayerIds \ {p} : Carriers(q)' = Carriers(q)
  BY <1>1, <1>2 DEF Carriers
<1>5. /\ DOMAIN players' = DOMAIN players \cup {p}
      /\ players'[p] = s
      /\ \A q \in DOMAIN players \ {p} : players'[q] = players[q]
  BY DEF insert_or_assign
<1>6. DOMAIN players' = {q \in PlayerIds : Carriers(q)' # {}}
  BY <1>3, <1>4, <1>5 DEF RegistryExact
<1>7. \A q \in DOMAIN players' : players'[q] \in Carriers(q)'
  BY <1>3, <1>4, <1>5 DEF RegistryExact
<1>8. conns' = {t \in Sessions : IsOpen(t)' /\ player_id'[t] # 0}
  BY <1>1, <1>2 DEF RegistryExact
<1> QED BY <1>6, <1>7, <1>8 DEF RegistryExact, PlayerIds, IsOpen

LEMMA CloseKeepsRegistry ==
  ASSUME ServerInv, OwnerInv, RegistryExact, NEW s \in Sessions, IsOpen(s), NEW read, Close(s, read)
  PROVE  RegistryExact'
<1>0. PICK p : p = player_id[s]
  OBVIOUS
<1>1. /\ phase' = [phase EXCEPT ![s] = "closed"]
      /\ player_id' = player_id
      /\ players' = erase(players, p)
      /\ conns' = conns \ {s}
  BY <1>0 DEF Close, remove_player, remove_session
<1>2. \A t \in Sessions : IsOpen(t)' <=> (IsOpen(t) /\ t # s)
  BY <1>1 DEF ServerInv, SessionTypes, IsOpen
<1>3. p \in PlayerIds => Carriers(p)' = {}
  BY <1>0, <1>1, <1>2, BoundsAssumption DEF Carriers, PlayerIds, OwnerInv, OneCarrier
<1>4. \A q \in PlayerIds \ {p} : Carriers(q)' = Carriers(q)
  BY <1>0, <1>1, <1>2 DEF Carriers
<1>5. /\ DOMAIN players' = DOMAIN players \ {p}
      /\ \A q \in DOMAIN players \ {p} : players'[q] = players[q]
  BY <1>1 DEF erase, Restrict
<1>6. DOMAIN players' = {q \in PlayerIds : Carriers(q)' # {}}
  <2>1. DOMAIN players = {q \in PlayerIds : Carriers(q) # {}}
    BY DEF RegistryExact
  <2>2. ASSUME NEW q \in PlayerIds PROVE q \in DOMAIN players' <=> Carriers(q)' # {}
    <3>1. CASE q = p
      BY <1>3, <1>5, <3>1
    <3>2. CASE q # p
      BY <1>4, <1>5, <2>1, <3>2
    <3> QED BY <3>1, <3>2
  <2> QED BY <1>5, <2>1, <2>2
<1>7. \A q \in DOMAIN players' : players'[q] \in Carriers(q)'
  BY <1>4, <1>5 DEF RegistryExact
<1>8. conns' = {t \in Sessions : IsOpen(t)' /\ player_id'[t] # 0}
  BY <1>1, <1>2 DEF RegistryExact
<1> QED BY <1>6, <1>7, <1>8 DEF RegistryExact, PlayerIds, IsOpen

LEMMA AbortKeepsRegistry ==
  ASSUME ServerInv, NoneExpired, RegistryExact, NEW s \in Sessions, OnAbort(s)
  PROVE  RegistryExact' /\ NoneExpired'
<1>1. /\ phase[s] = "closed"
      /\ phase' = [phase EXCEPT ![s] = IF s \in Range(players) THEN "done" ELSE "free"]
      /\ player_id' = [player_id EXCEPT ![s] = 0]
      /\ players' = players /\ conns' = conns
  BY DEF OnAbort, server_vars, registry_vars
<1>2. s \notin Range(players)
  BY <1>1 DEF RegistryExact, Range, Carriers, IsOpen
<1>3. /\ phase'[s] = "free" /\ player_id'[s] = 0
      /\ \A t \in Sessions \ {s} : phase'[t] = phase[t] /\ player_id'[t] = player_id[t]
  BY <1>1, <1>2 DEF ServerInv, SessionTypes
<1>4. SameRegistry
  BY <1>1, <1>3 DEF SameRegistry, IsOpen
<1> QED BY <1>3, <1>4, SameRegistryKeeps DEF NoneExpired

-------------------------------------------------------------------------------
(* The steps. *)

LEMMA InitRegistry == Init => RegistryInv
  BY DEF Init, RegistryInv, IdentifiedFirst, NoneExpired, RegistryExact, NoNullSession, Carriers, IsOpen

\* A step that leaves requests, sessions and registry alone, but for the process'
\* end by anything else than a session that is gone.
LEMMA NothingTouched ==
  ASSUME RegistryInv, UNCHANGED <<session_vars, registry_vars>>, fault' # "null_session"
  PROVE  RegistryInv'
<1>1. SameRegistry
  BY DEF SameRegistry, session_vars, registry_vars, IsOpen
<1>2. RegistryExact'
  BY <1>1, SameRegistryKeeps DEF RegistryInv
<1>3. IdentifiedFirst' /\ NoneExpired'
  BY DEF RegistryInv, IdentifiedFirst, NoneExpired, Identifies, session_vars, IsOpen
<1> QED BY <1>2, <1>3 DEF RegistryInv, NoNullSession

\* A broadcast finds every registered player's session object: none is gone.
LEMMA CrashKeepsRegistry ==
  ASSUME ServerInv, RegistryInv, NEW s \in Sessions, MatchCrashes(s) \/ ChatCrashes(s)
  PROVE  RegistryInv'
<1>1. ASSUME NEW S PROVE Expired(S) = {}
  BY DEF Expired, RegistryInv, NoneExpired, ServerInv, RegistryTypes
<1>2. Crash("out_of_range") \/ Crash("no_room")
  BY <1>1 DEF MatchCrashes, ChatCrashes, BroadcastCrash
<1>3. UNCHANGED <<session_vars, registry_vars>> /\ fault' # "null_session"
  BY <1>2 DEF Crash
<1> QED BY <1>3, NothingTouched

\* A handler that answers its session and players of the registry.
LEMMA AnswerKeepsRegistry ==
  ASSUME ServerInv, RegistryInv, NEW s \in Sessions, NEW op, NEW S,
         Dispatched(s, op), Consume(s), Sent(S),
         \A t \in S \ {s} : \E p \in DOMAIN players : t = players[p],
         UNCHANGED <<player_id, registry_vars, fault>>
  PROVE  RegistryInv'
<1>1. \A t \in S \ {s} : player_id[t] # 0
  BY BoundsAssumption DEF RegistryInv, RegistryExact, Carriers, PlayerIds
<1>2. IdentifiedFirst'
  BY <1>1, TakingKeepsFirst DEF RegistryInv
<1>3. \A t \in Sessions : (IsOpen(t)' <=> IsOpen(t)) /\ (phase[t] # "done" => phase'[t] # "done")
  BY DEF ServerInv, SessionTypes, Consume, Dispatched, IsOpen
<1>4. SameRegistry
  BY <1>3 DEF SameRegistry, registry_vars
<1> QED BY <1>2, <1>3, <1>4, SameRegistryKeeps DEF RegistryInv, NoneExpired, NoNullSession

\* The first request of a connection is handled: its session gets a player.
LEMMA IdentifyKeepsRegistry ==
  ASSUME ServerInv, OwnerInv, RegistryInv, NEW s \in Sessions, HandleLogin(s) \/ Reconnected(s)
  PROVE  RegistryInv'
<1>1. PICK p \in PlayerIds, op \in {"login", "reconnect"} :
        /\ Dispatched(s, op) /\ Consume(s) /\ Sent({s})
        /\ player_id' = [player_id EXCEPT ![s] = p]
        /\ players' = insert_or_assign(players, p, s)
        /\ conns' = conns \cup {s}
        /\ fault' = fault
        /\ Carriers(p) = {}
  <2>1. CASE HandleLogin(s)
    <3>1. next_player_id \in 1..(MaxPlayers + 1) /\ next_player_id <= MaxPlayers
      BY <2>1 DEF HandleLogin, ServerInv, RegistryTypes
    <3>2. next_player_id \in PlayerIds
      BY <3>1, BoundsAssumption DEF PlayerIds
    <3>3. \A t \in Sessions : player_id[t] # next_player_id
      <4>1. \A t \in Sessions : player_id[t] \in Nat /\ player_id[t] < next_player_id
        BY DEF OwnerInv, IdsHandedOut, OwnerTypes
      <4> QED BY <3>1, <4>1
    <3>4. Carriers(next_player_id) = {}
      BY <3>3 DEF Carriers
    <3>5. /\ Dispatched(s, "login") /\ Consume(s) /\ Sent({s})
          /\ player_id' = [player_id EXCEPT ![s] = next_player_id]
          /\ players' = insert_or_assign(players, next_player_id, s)
          /\ conns' = conns \cup {s}
          /\ fault' = fault
      BY <2>1 DEF HandleLogin, add_player, add_session
    <3> QED BY <3>2, <3>4, <3>5
  <2>2. CASE Reconnected(s)
    <3> DEFINE q == Head(rx[s]).arg
    <3>1. Dispatched(s, "reconnect") /\ PSM!IsOffline(q)
      BY <2>2 DEF Reconnected
    <3>2. q \in PlayerIds
      BY <3>1, DispatchTypes, RequestArgs DEF ServerInv
    <3>3. Carriers(q) = {}
      BY <3>1, <3>2, OwnerInvSuffices DEF SingleOwner
    <3>4. /\ Consume(s) /\ Sent({s})
          /\ player_id' = [player_id EXCEPT ![s] = q]
          /\ players' = insert_or_assign(players, q, s)
          /\ conns' = conns \cup {s}
          /\ fault' = fault
      BY <2>2 DEF Reconnected, add_player, add_session
    <3> HIDE DEF q
    <3> QED BY <3>1, <3>2, <3>3, <3>4
  <2> QED BY <2>1, <2>2
<1>2. rx[s] # <<>> /\ Identifies(rx[s][1])
  BY <1>1 DEF Dispatched, Identifies
<1>3. IsOpen(s) /\ player_id[s] = 0
  BY <1>2 DEF RegistryInv, IdentifiedFirst
<1>4. \A t \in Sessions : (IsOpen(t)' <=> IsOpen(t)) /\ (phase[t] # "done" => phase'[t] # "done")
  BY <1>1 DEF ServerInv, SessionTypes, Consume, Dispatched, IsOpen
<1>5. RegistryExact'
  BY <1>1, <1>3, <1>4, AssignKeepsRegistry DEF RegistryInv
<1>6. \A t \in Sessions \ {s} : player_id'[t] = player_id[t]
  BY <1>1 DEF ServerInv, SessionTypes
<1>7. IdentifiedFirst'
  BY <1>1, <1>6, TakingKeepsFirst DEF RegistryInv
<1> QED BY <1>1, <1>4, <1>5, <1>7 DEF RegistryInv, NoneExpired, NoNullSession

LEMMA HandleKeepsRegistry ==
  ASSUME ServerInv, OwnerInv, RegistryInv, NEW s \in Sessions, Handle(s)
  PROVE  RegistryInv'
<1>1. CASE HandleLogin(s) \/ Reconnected(s)
  BY <1>1, IdentifyKeepsRegistry
<1>2. CASE MatchCrashes(s) \/ ChatCrashes(s)
  BY <1>2, CrashKeepsRegistry
<1>3. ASSUME NEW op, Dispatched(s, op), Consume(s), Sent({s}),
             UNCHANGED <<player_id, registry_vars, fault>>
      PROVE  RegistryInv'
  BY <1>3, AnswerKeepsRegistry
<1>4. CASE MatchRejected(s) \/ MatchQueued(s) \/ ReconnectRefused(s) \/ HandlePing(s)
  BY <1>3, <1>4 DEF MatchRejected, MatchQueued, ReconnectRefused, HandlePing
<1>5. CASE RoomCreated(s)
  <2> DEFINE seated == Range(MQ!Matched(Head(rx[s]).arg))
             S == {players[q] : q \in seated} \cup {s}
  <2>1. /\ Dispatched(s, "match") /\ Consume(s) /\ Sent(S)
        /\ UNCHANGED <<player_id, registry_vars, fault>>
        /\ seated \subseteq DOMAIN players
    BY <1>5 DEF RoomCreated, Reachable, Unregistered
  <2>2. \A t \in S \ {s} : \E p \in DOMAIN players : t = players[p]
    BY <2>1
  <2> HIDE DEF seated, S
  <2> QED BY <2>1, <2>2, AnswerKeepsRegistry
<1>6. CASE ChatDelivered(s)
  <2> DEFINE listed == rooms[Head(rx[s]).arg].player_ids
             S == {players[q] : q \in listed}
  <2>1. /\ Dispatched(s, "chat") /\ Consume(s) /\ Sent(S)
        /\ UNCHANGED <<player_id, registry_vars, fault>>
        /\ listed \subseteq DOMAIN players
    BY <1>6 DEF ChatDelivered, Reachable, Unregistered
  <2>2. \A t \in S \ {s} : \E p \in DOMAIN players : t = players[p]
    BY <2>1
  <2> HIDE DEF listed, S
  <2> QED BY <2>1, <2>2, AnswerKeepsRegistry
<1> QED BY <1>1, <1>2, <1>4, <1>5, <1>6 DEF Handle, HandleMatch, HandleChat, HandleReconnect

LEMMA ClosesKeepRegistry ==
  ASSUME ServerInv, OwnerInv, RegistryInv, NEW s \in Sessions,
         OnReadError(s) \/ OnWriteError(s) \/ HeartbeatTimeout(s)
  PROVE  RegistryInv'
<1>1. PICK read : IsOpen(s) /\ Close(s, read)
  BY DEF OnReadError, OnWriteError, HeartbeatTimeout
<1>2. RegistryExact'
  BY <1>1, CloseKeepsRegistry DEF RegistryInv
<1>3. IdentifiedFirst'
  BY ClosesKeepFirst DEF RegistryInv
<1>4. phase' = [phase EXCEPT ![s] = "closed"] /\ fault' = fault
  BY <1>1 DEF Close
<1>5. NoneExpired'
  BY <1>4 DEF RegistryInv, NoneExpired, ServerInv, SessionTypes
<1> QED BY <1>2, <1>3, <1>4, <1>5 DEF RegistryInv, NoNullSession

LEMMA AbortKeepsRegistryInv ==
  ASSUME ServerInv, OwnerInv, RegistryInv, NEW s \in Sessions, OnAbort(s)
  PROVE  RegistryInv'
<1>1. /\ phase[s] = "closed"
      /\ \A t \in Sessions \ {s} : phase'[t] = phase[t] /\ player_id'[t] = player_id[t]
      /\ rx[s] = <<>>
      /\ UNCHANGED <<rx, sent, fault>>
  BY DEF OnAbort, server_vars, ServerInv, SessionTypes
<1>2. IdentifiedFirst'
  <2>1. ~sent[s] /\ Len(rx[s]) = 0
    BY <1>1 DEF RegistryInv, IdentifiedFirst, IsOpen
  <2> QED BY <1>1, <2>1 DEF RegistryInv, IdentifiedFirst, Identifies, IsOpen
<1> QED BY <1>1, <1>2, AbortKeepsRegistry DEF RegistryInv, NoNullSession

LEMMA ClientStepKeepsRegistry ==
  ASSUME ~LoginAnytime, ServerInv, OwnerInv, RegistryInv, NEW c \in Clients, ClientStep(c)
  PROVE  RegistryInv'
<1>1. CASE StopClient(c)
  BY <1>1, NothingTouched DEF StopClient, server_vars, RegistryInv, NoNullSession
<1>2. CASE StartClient(c) \/ ReconnectClient(c)
  <2>1. PICK first, known : Connect(c, first, known)
    BY <1>2 DEF StartClient, ReconnectClient
  <2>2. IdentifiedFirst'
    BY <2>1, ConnectKeepsFirst DEF RegistryInv
  <2>3. PICK s \in Sessions :
          /\ phase[s] = "free"
          /\ phase' = [phase EXCEPT ![s] = "open"]
          /\ UNCHANGED <<player_id, players, conns, fault>>
    BY <2>1 DEF Connect, server_vars, registry_vars
  <2>4. player_id[s] = 0
    BY <2>3 DEF OwnerInv, IdsHandedOut
  <2>5. \A t \in Sessions : phase'[t] = IF t = s THEN "open" ELSE phase[t]
    BY <2>3 DEF ServerInv, SessionTypes
  <2>6. SameRegistry
    BY <2>3, <2>4, <2>5 DEF SameRegistry, IsOpen
  <2> QED BY <2>2, <2>3, <2>5, <2>6, SameRegistryKeeps DEF RegistryInv, NoneExpired, NoNullSession
<1>3. CASE ClientSend(c)
  <2>1. IdentifiedFirst'
    BY <1>3, SendKeepsFirst DEF RegistryInv
  <2>2. UNCHANGED <<phase, player_id, players, conns, fault>>
    BY <1>3 DEF ClientSend, server_vars, registry_vars
  <2>3. SameRegistry
    BY <2>2 DEF SameRegistry, IsOpen
  <2> QED BY <2>1, <2>2, <2>3, SameRegistryKeeps DEF RegistryInv, NoneExpired, NoNullSession
<1> QED BY <1>1, <1>2, <1>3 DEF ClientStep

LEMMA RegistryInvInductive ==
  ASSUME ~LoginAnytime
  PROVE  ServerInv /\ OwnerInv /\ RegistryInv /\ [Next]_vars => RegistryInv'
<1> SUFFICES ASSUME ServerInv, OwnerInv, RegistryInv, [Next]_vars PROVE RegistryInv'
  OBVIOUS
<1>1. ASSUME NEW c \in Clients, ClientStep(c) PROVE RegistryInv'
  BY <1>1, ClientStepKeepsRegistry
<1>2. ASSUME NEW s \in Sessions, SessionStep(s) PROVE RegistryInv'
  BY <1>2, HandleKeepsRegistry, ClosesKeepRegistry, AbortKeepsRegistryInv DEF SessionStep
<1>3. ASSUME NEW p, ReconnectTimeout(p) PROVE RegistryInv'
  BY <1>3, NothingTouched DEF ReconnectTimeout, RegistryInv, NoNullSession
<1>4. CASE UNCHANGED vars
  BY <1>4, NothingTouched DEF vars, RegistryInv, NoNullSession
<1> QED BY <1>1, <1>2, <1>3, <1>4 DEF Next

LEMMA RegistryAlways ==
  ASSUME ~LoginAnytime
  PROVE  Spec => [](RegistryExact /\ NoNullSession)
<1>1. Init => ServerInv /\ OwnerInv /\ RegistryInv
  BY InitTypes, InitOwners, InitRegistry
<1>2. (ServerInv /\ OwnerInv /\ RegistryInv) /\ [Next]_vars
        => (ServerInv /\ OwnerInv /\ RegistryInv)'
  BY ServerInvInductive, OwnerInvInductive, RegistryInvInductive
<1>3. RegistryInv => RegistryExact /\ NoNullSession
  BY DEF RegistryInv
<1> QED BY <1>1, <1>2, <1>3, PTL DEF Spec

\* When connections identify themselves once, players_, the owning set and the
\* sessions' own player_id_ agree after every handler, whatever was read before a
\* close and dispatched after it, and whichever timer closes what.
THEOREM RegistryAgrees ==
  ASSUME ~LoginAnytime
  PROVE  Spec => []RegistryExact
  BY RegistryAlways, PTL

\* Under the same discipline a broadcast never dereferences the null pointer of a
\* session that is gone: an entry of players_ never outlives its session.
THEOREM NoNullDereference ==
  ASSUME ~LoginAnytime
  PROVE  Spec => []NoNullSession
  BY RegistryAlways, PTL
-------------------------------------------------------------------------------
(* ToldRoomExists: what a client was told, against what the server has. *)

\* A client and the session it speaks over agree on its player, and the request
\* that gives the session its player is about the client's.
Agrees(c) ==
    /\ client[c].session # None =>
        LET s == client[c].session IN
        /\ phase[s] # "free"
        /\ (IsOpen(s) /\ player_id[s] # 0) => player_id[s] = client[c].pid
        /\ (rx[s] # <<>> /\ rx[s][1].op = "login") => client[c].pid = 0
        /\ (rx[s] # <<>> /\ rx[s][1].op = "reconnect") => rx[s][1].arg = client[c].pid
    /\ client[c].pid < next_player_id
    /\ client[c].pid = 0 => client[c].room = 0

ClientsAgree == \A c \in Clients : Agrees(c)

\* A player that is served, or that may still come back.
Live(p) == Carriers(p) # {} \/ PSM!IsOffline(p)
Seated(p, r) == r \in DOMAIN rooms /\ p \in rooms[r].player_ids

\* The told room outlives the connection: it is kept for as long as the window.
ToldIsSeated ==
    \A c \in Clients :
        (client[c].room # 0 /\ Live(client[c].pid)) => Seated(client[c].pid, client[c].room)

SeatInv == ClientsAgree /\ ToldIsSeated

\* What most steps keep: no client learns a player or a room, no player comes to
\* life, no listed player leaves.
SeatsKept ==
    /\ \A c \in Clients : client'[c].room # 0 =>
          client'[c].room = client[c].room /\ client'[c].pid = client[c].pid
    /\ \A p \in PlayerIds : Live(p)' => Live(p)
    /\ \A r \in DOMAIN rooms : r \in DOMAIN rooms' /\ rooms'[r].player_ids = rooms[r].player_ids

LEMMA SeatsKeptKeep ==
  ASSUME ServerInv, SeatInv, SeatsKept
  PROVE  ToldIsSeated'
<1>1. SUFFICES ASSUME NEW c \in Clients, client'[c].room # 0, Live(client[c].pid)'
               PROVE  Seated(client[c].pid, client[c].room)'
  BY DEF ToldIsSeated
<1>2. client'[c].room = client[c].room /\ client'[c].pid = client[c].pid
  BY <1>1 DEF SeatsKept
<1>3. client[c].pid \in PlayerIds
  BY <1>1, <1>2, BoundsAssumption
     DEF ServerInv, OtherTypes, ClientType, SeatInv, ClientsAgree, Agrees, PlayerIds
<1>4. Live(client[c].pid)
  BY <1>1, <1>2, <1>3 DEF SeatsKept, Live, Carriers, PSM!IsOffline
<1>5. Seated(client[c].pid, client[c].room)
  BY <1>1, <1>2, <1>4 DEF SeatInv, ToldIsSeated
<1> QED BY <1>2, <1>5 DEF Seated, SeatsKept
\* A step that makes the client's session no other player's and gives it no first
\* request.
SessionKept(s) ==
    /\ phase'[s] = "free" => phase[s] = "free"
    /\ IsOpen(s)' => IsOpen(s)
    /\ player_id'[s] \in {player_id[s], 0}
    /\ (rx'[s] # <<>> /\ Identifies(rx'[s][1])) => (rx[s] # <<>> /\ rx'[s][1] = rx[s][1])

LEMMA AgreesKept ==
  ASSUME ServerInv, NEW c \in Clients, Agrees(c),
         client'[c].session \in {client[c].session, None},
         client'[c].session # None => SessionKept(client[c].session),
         client'[c].pid = client[c].pid,
         client[c].pid = 0 => client'[c].room = client[c].room,
         next_player_id' \in Int, next_player_id <= next_player_id'
  PROVE  Agrees(c)'
<1>1. client[c].pid \in Nat /\ next_player_id \in Nat
  BY BoundsAssumption DEF ServerInv, OtherTypes, RegistryTypes, ClientType
<1>2. client'[c].pid < next_player_id' /\ (client'[c].pid = 0 => client'[c].room = 0)
  BY <1>1 DEF Agrees
<1>3. CASE client'[c].session = None
  BY <1>2, <1>3 DEF Agrees
<1>4. CASE client'[c].session # None
  <2>1. PICK s : s = client[c].session /\ s = client'[c].session
    BY <1>4
  <2>2. /\ phase'[s] # "free"
        /\ (IsOpen(s)' /\ player_id'[s] # 0) => player_id'[s] = client'[c].pid
        /\ (rx'[s] # <<>> /\ rx'[s][1].op = "login") => client'[c].pid = 0
        /\ (rx'[s] # <<>> /\ rx'[s][1].op = "reconnect") => rx'[s][1].arg = client'[c].pid
    BY <1>4, <2>1 DEF Agrees, SessionKept, Identifies
  <2> QED BY <1>2, <2>1, <2>2 DEF Agrees, IsOpen
<1> QED BY <1>3, <1>4

\* The handlers that leave players with their sessions, and every close.
LEMMA TakingKeepsSessions ==
  ASSUME ServerInv, IdentifiedFirst, NEW s \in Sessions, NEW op, Dispatched(s, op), Consume(s),
         player_id' = player_id
  PROVE  \A t \in Sessions : SessionKept(t)
<1>1. \A t \in Sessions : (IsOpen(t)' => IsOpen(t)) /\ (phase'[t] = "free" => phase[t] = "free")
  BY DEF ServerInv, SessionTypes, Consume, Dispatched, IsOpen
<1> QED BY <1>1, TakenLeavesNone DEF SessionKept

LEMMA CloseKeepsSessions ==
  ASSUME ServerInv, NEW s \in Sessions, NEW read \in 0..Len(rx[s]), Close(s, read)
  PROVE  \A t \in Sessions : SessionKept(t)
<1>1. /\ phase' = [phase EXCEPT ![s] = "closed"]
      /\ rx' = [rx EXCEPT ![s] = SubSeq(@, 1, read)]
      /\ player_id' = player_id
  BY DEF Close
<1>2. /\ rx[s] \in Seq(Request)
      /\ rx'[s] = SubSeq(rx[s], 1, read)
      /\ \A t \in Sessions \ {s} : rx'[t] = rx[t]
  BY <1>1 DEF ServerInv, SessionTypes
<1>3. rx'[s] # <<>> => rx[s] # <<>> /\ rx'[s][1] = rx[s][1]
  BY <1>2
<1>4. \A t \in Sessions : (IsOpen(t)' => IsOpen(t)) /\ (phase'[t] = "free" => phase[t] = "free")
  BY <1>1 DEF ServerInv, SessionTypes, IsOpen
<1> QED BY <1>1, <1>2, <1>3, <1>4 DEF SessionKept
LEMMA LiveKept ==
  ASSUME \A t \in Sessions : SessionKept(t), states' = states
  PROVE  \A p \in PlayerIds : Live(p)' => Live(p)
  BY BoundsAssumption DEF SessionKept, Live, Carriers, PSM!IsOffline, PlayerIds, IsOpen

\* A step that takes nobody's session or seat and tells the clients nothing.
LEMMA UndisturbedKeeps ==
  ASSUME ServerInv, SeatInv, \A t \in Sessions : SessionKept(t),
         UNCHANGED <<client, next_player_id>>,
         \A p \in PlayerIds : Live(p)' => Live(p),
         \A r \in DOMAIN rooms : r \in DOMAIN rooms' /\ rooms'[r].player_ids = rooms[r].player_ids
  PROVE  SeatInv'
<1>1. next_player_id \in Int
  BY DEF ServerInv, RegistryTypes
<1>2. \A c \in Clients : client[c].session # None => client[c].session \in Sessions
  BY DEF ServerInv, OtherTypes, ClientType
<1>3. ClientsAgree'
  BY <1>1, <1>2, AgreesKept DEF SeatInv, ClientsAgree
<1>4. SeatsKept
  BY DEF SeatsKept
<1> QED BY <1>3, <1>4, SeatsKeptKeep DEF SeatInv

LEMMA AnswerKeepsSeats ==
  ASSUME ServerInv, RegistryInv, SeatInv, NEW s \in Sessions, NEW op,
         Dispatched(s, op), Consume(s), UNCHANGED <<player_id, registry_vars, room_vars, states, client>>
  PROVE  SeatInv'
<1>1. \A t \in Sessions : SessionKept(t)
  BY TakingKeepsSessions DEF RegistryInv
<1> QED BY <1>1, LiveKept, UndisturbedKeeps DEF registry_vars, room_vars

LEMMA StutterKeepsSeats ==
  ASSUME ServerInv, SeatInv, UNCHANGED <<phase, player_id, rx, next_player_id, states, rooms, client>>
  PROVE  SeatInv'
<1>1. \A t \in Sessions : SessionKept(t)
  BY DEF SessionKept, IsOpen
<1> QED BY <1>1, LiveKept, UndisturbedKeeps

LEMMA CloseKeepsSeats ==
  ASSUME ServerInv, SeatInv, NEW s \in Sessions, IsOpen(s), NEW read \in 0..Len(rx[s]), Close(s, read)
  PROVE  SeatInv'
<1>0. PICK p, r : p = player_id[s] /\ r = RM!get_room_id_by_player(p)
  OBVIOUS
<1>1. /\ UNCHANGED <<client, next_player_id, player_id>>
      /\ PSM!disconnect(p, r) /\ RM!MarkPlayer(p, RM!Offline)
  BY <1>0 DEF Close, RM!mark_player_disconnected
<1>2. \A t \in Sessions : SessionKept(t)
  BY CloseKeepsSessions
<1>3. \A q : q # p => (PSM!IsOffline(q)' => PSM!IsOffline(q))
  BY <1>1 DEF PSM!disconnect, PSM!insert, PSM!IsOffline
<1>4. p \in PlayerIds => Live(p)
  BY <1>0 DEF Live, Carriers
<1>5. \A q \in PlayerIds : Live(q)' => Live(q)
  BY <1>2, <1>3, <1>4, BoundsAssumption DEF Live, Carriers, SessionKept, PlayerIds, IsOpen
<1>6. \A q \in DOMAIN rooms : q \in DOMAIN rooms' /\ rooms'[q].player_ids = rooms[q].player_ids
  BY <1>1 DEF RM!MarkPlayer, ServerInv, RMP!RoomInv, RMP!TypeOK, RMP!RoomType
<1> QED BY <1>1, <1>2, <1>5, <1>6, UndisturbedKeeps

\* The session object is gone, and with it what the client had of it.
LEMMA AbortKeepsSeats ==
  ASSUME ServerInv, SeatInv, NEW s \in Sessions, OnAbort(s)
  PROVE  SeatInv'
<1>1. /\ phase[s] = "closed" /\ rx' = rx /\ states' = states /\ rooms' = rooms
      /\ phase' \in [Sessions -> {"free", "open", "closed", "draining", "done"}]
      /\ phase'[s] # "open"
      /\ next_player_id' = next_player_id
      /\ \A t \in Sessions \ {s} : phase'[t] = phase[t] /\ player_id'[t] = player_id[t]
      /\ player_id'[s] = 0
  BY DEF OnAbort, ServerInv, SessionTypes, Phases, server_vars, registry_vars, room_vars
<1>2. \A c \in Clients :
        client'[c] = IF client[c].session = s THEN [client[c] EXCEPT !.session = None] ELSE client[c]
  BY DEF OnAbort
<1>3. ASSUME NEW c \in Clients
      PROVE  /\ client[c] \in ClientType
             /\ client'[c].pid = client[c].pid /\ client'[c].room = client[c].room
             /\ client'[c].session \in {client[c].session, None}
             /\ client'[c].session # None => client[c].session \in Sessions \ {s}
  <2>1. client[c] \in ClientType
    BY DEF ServerInv, OtherTypes
  <2> QED BY <1>2, <2>1 DEF ClientType
<1>4. \A t \in Sessions \ {s} : SessionKept(t)
  BY <1>1 DEF SessionKept, IsOpen
<1>5. next_player_id \in Int
  BY DEF ServerInv, RegistryTypes
<1>6. ClientsAgree'
  BY <1>1, <1>3, <1>4, <1>5, AgreesKept DEF SeatInv, ClientsAgree
<1>7. \A p \in PlayerIds : Live(p)' => Live(p)
  BY <1>1, BoundsAssumption DEF Live, Carriers, PSM!IsOffline, PlayerIds, IsOpen
<1>8. SeatsKept
  BY <1>1, <1>3, <1>7 DEF SeatsKept
<1> QED BY <1>6, <1>8, SeatsKeptKeep DEF SeatInv
LEMMA StopKeepsSeats ==
  ASSUME ServerInv, SeatInv, NEW c \in Clients, StopClient(c)
  PROVE  SeatInv'
<1>1. /\ UNCHANGED <<phase, player_id, rx, next_player_id, states, rooms>>
      /\ client' = [client EXCEPT ![c] = NewClient]
  BY DEF StopClient, session_vars, server_vars, registry_vars, room_vars
<1>2. \A d \in Clients : client'[d] = IF d = c THEN NewClient ELSE client[d]
  BY <1>1 DEF ServerInv, OtherTypes
<1>3. \A t \in Sessions : SessionKept(t)
  BY <1>1 DEF SessionKept, IsOpen
<1>4. next_player_id \in Nat \ {0}
  BY DEF ServerInv, RegistryTypes
<1>5. ASSUME NEW d \in Clients PROVE Agrees(d)'
  <2>1. CASE d = c
    BY <1>1, <1>2, <1>4, <2>1 DEF Agrees, NewClient
  <2>2. CASE d # c
    <3>1. client[d].session # None => client[d].session \in Sessions
      BY DEF ServerInv, OtherTypes, ClientType
    <3> QED BY <1>1, <1>2, <1>3, <1>4, <2>2, <3>1, AgreesKept DEF SeatInv, ClientsAgree
  <2> QED BY <2>1, <2>2
<1>6. SeatsKept
  BY <1>1, <1>2, <1>3, LiveKept DEF SeatsKept, NewClient
<1> QED BY <1>5, <1>6, SeatsKeptKeep DEF SeatInv, ClientsAgree

\* A new connection: its first request is about the client's own player, or about
\* none when it has none yet.
LEMMA ConnectKeepsSeats ==
  ASSUME ServerInv, OwnerInv, SeatInv, NEW c \in Clients, NEW first, NEW known \in ClientType,
         Connect(c, first, known),
         known.pid < next_player_id, known.pid = 0 => known.room = 0,
         known.room # 0 => known.room = client[c].room /\ known.pid = client[c].pid,
         first.op = "login" => known.pid = 0,
         first.op = "reconnect" => first.arg = known.pid
  PROVE  SeatInv'
<1>1. PICK s \in Sessions :
        /\ phase[s] = "free"
        /\ phase' = [phase EXCEPT ![s] = "open"]
        /\ rx' = [rx EXCEPT ![s] = <<first>>]
        /\ client' = [client EXCEPT ![c] = [known EXCEPT !.session = s]]
        /\ UNCHANGED <<player_id, next_player_id, states, rooms>>
  BY DEF Connect, server_vars, registry_vars, room_vars
<1>2. player_id[s] = 0
  BY <1>1 DEF OwnerInv, IdsHandedOut
<1>3. /\ phase'[s] = "open" /\ rx'[s] = <<first>> /\ rx'[s][1] = first
      /\ \A t \in Sessions \ {s} : phase'[t] = phase[t] /\ rx'[t] = rx[t]
  BY <1>1 DEF ServerInv, SessionTypes
<1>4. /\ client'[c].session = s /\ client'[c].pid = known.pid /\ client'[c].room = known.room
      /\ \A d \in Clients \ {c} : client'[d] = client[d]
  BY <1>1 DEF ServerInv, OtherTypes, ClientType
<1>5. \A t \in Sessions \ {s} : SessionKept(t)
  BY <1>1, <1>3 DEF SessionKept, IsOpen
<1>6. next_player_id \in Int
  BY DEF ServerInv, RegistryTypes
<1>7. ASSUME NEW d \in Clients PROVE Agrees(d)'
  <2>1. CASE d = c
    BY <1>1, <1>2, <1>3, <1>4, <2>1 DEF Agrees, IsOpen
  <2>2. CASE d # c
    <3>1. client[d].session # None => client[d].session \in Sessions \ {s}
      BY <1>1 DEF ServerInv, OtherTypes, ClientType, SeatInv, ClientsAgree, Agrees
    <3> QED BY <1>1, <1>4, <1>5, <1>6, <2>2, <3>1, AgreesKept DEF SeatInv, ClientsAgree
  <2> QED BY <2>1, <2>2
<1>8. \A p \in PlayerIds : Live(p)' => Live(p)
  BY <1>1, <1>2, <1>3, BoundsAssumption DEF Live, Carriers, PSM!IsOffline, PlayerIds, IsOpen
<1>9. SeatsKept
  BY <1>1, <1>4, <1>8 DEF SeatsKept
<1> QED BY <1>7, <1>9, SeatsKeptKeep DEF SeatInv, ClientsAgree

LEMMA SendKeepsSeats ==
  ASSUME ~LoginAnytime, ServerInv, SeatInv, NEW c \in Clients, ClientSend(c)
  PROVE  SeatInv'
<1>1. PICK s \in {client[c].session} \ {None}, req \in NextRequests(c) :
        /\ rx' = [rx EXCEPT ![s] = Append(@, req)]
        /\ client' = IF req.op = "match" THEN [client EXCEPT ![c].asked = ~Rematch] ELSE client
        /\ UNCHANGED <<phase, player_id, next_player_id, states, rooms>>
  BY DEF ClientSend, server_vars, registry_vars, room_vars
<1>2. ~Identifies(req)
  <2>1. req.op \in LaterOps
    BY <1>1 DEF NextRequests
  <2> QED BY <2>1 DEF LoginAnytime, Identifies
<1>3. s \in Sessions
  BY <1>1 DEF ServerInv, OtherTypes, ClientType
<1>4. /\ rx[s] \in Seq(Request)
      /\ rx'[s] = Append(rx[s], req)
      /\ \A t \in Sessions \ {s} : rx'[t] = rx[t]
  BY <1>1, <1>3 DEF ServerInv, SessionTypes
<1>5. Identifies(rx'[s][1]) => rx[s] # <<>> /\ rx'[s][1] = rx[s][1]
  <2>1. CASE rx[s] = <<>>
    BY <1>2, <1>4, <2>1
  <2>2. CASE rx[s] # <<>>
    <3>1. 1 \in 1..Len(rx[s])
      BY <1>4, <2>2
    <3> QED BY <1>4, <2>2, <3>1
  <2> QED BY <2>1, <2>2
<1>6. ASSUME NEW t \in Sessions PROVE SessionKept(t)
  <2>1. CASE t = s
    BY <1>1, <1>5, <2>1 DEF SessionKept, IsOpen
  <2>2. CASE t # s
    BY <1>1, <1>4, <2>2 DEF SessionKept, IsOpen
  <2> QED BY <2>1, <2>2
<1>7. ASSUME NEW d \in Clients
      PROVE  /\ client'[d].session = client[d].session
             /\ client'[d].pid = client[d].pid /\ client'[d].room = client[d].room
             /\ client[d].session # None => client[d].session \in Sessions
  BY <1>1 DEF ServerInv, OtherTypes, ClientType
<1>8. next_player_id \in Int
  BY DEF ServerInv, RegistryTypes
<1>9. ClientsAgree'
  BY <1>1, <1>6, <1>7, <1>8, AgreesKept DEF SeatInv, ClientsAgree
<1>10. SeatsKept
  BY <1>1, <1>6, <1>7, LiveKept DEF SeatsKept
<1> QED BY <1>9, <1>10, SeatsKeptKeep DEF SeatInv
\* A new player is nobody's room mate: no client was told of a room in its name.
LEMMA LoginKeepsSeats ==
  ASSUME ServerInv, OwnerInv, RegistryInv, SeatInv, NEW s \in Sessions, HandleLogin(s)
  PROVE  SeatInv'
<1>0. PICK p : p = next_player_id
  OBVIOUS
<1>1. /\ Dispatched(s, "login") /\ Consume(s)
      /\ next_player_id' = p + 1
      /\ player_id' = [player_id EXCEPT ![s] = p]
      /\ client' = [c \in Clients |->
                      IF Told(s, c) THEN [client[c] EXCEPT !.pid = p, !.asked = FALSE]
                      ELSE client[c]]
      /\ states' = states /\ rooms' = rooms
  BY <1>0 DEF HandleLogin, NextPlayerId, room_vars
<1>2. p \in Nat \ {0}
  BY <1>0 DEF ServerInv, RegistryTypes
<1>3. rx[s] # <<>> /\ rx[s][1].op = "login" /\ IsOpen(s)
  <2>1. Dispatched(s, "login")
    BY <1>1
  <2>2. rx[s] # <<>> /\ rx[s][1].op = "login"
    BY <2>1 DEF Dispatched
  <2> QED BY <2>2 DEF RegistryInv, IdentifiedFirst, Identifies
<1>4. /\ \A t \in Sessions : IsOpen(t)' <=> IsOpen(t)
      /\ \A t \in Sessions : phase'[t] = "free" => phase[t] = "free"
  BY <1>1 DEF ServerInv, SessionTypes, Consume, Dispatched, IsOpen
<1>5. player_id'[s] = p /\ \A t \in Sessions \ {s} : player_id'[t] = player_id[t]
  BY <1>1 DEF ServerInv, SessionTypes
<1>6. /\ rx'[s] # <<>> => ~Identifies(rx'[s][1])
      /\ \A t \in Sessions \ {s} : rx'[t] = rx[t]
  BY <1>1, TakenLeavesNone DEF RegistryInv
<1>7. \A t \in Sessions \ {s} : SessionKept(t)
  BY <1>4, <1>5, <1>6 DEF SessionKept
<1>8. next_player_id' = p + 1
  BY <1>1
<1>9. ASSUME NEW c \in Clients, client[c].session = s
      PROVE  /\ client'[c].session = s /\ client'[c].pid = p /\ client'[c].room = 0
             /\ Agrees(c)'
  <2>1. client[c].pid = 0 /\ client[c].room = 0
    BY <1>3, <1>9, NoneAssumption DEF SeatInv, ClientsAgree, Agrees
  <2>2. client[c] \in ClientType
    BY DEF ServerInv, OtherTypes
  <2>3. client'[c] = [client[c] EXCEPT !.pid = p, !.asked = FALSE]
    BY <1>1, <1>3, <1>9 DEF Told
  <2>4. client'[c].session = s /\ client'[c].pid = p /\ client'[c].room = 0
    BY <1>9, <2>1, <2>2, <2>3 DEF ClientType
  <2>5. phase'[s] # "free"
    BY <1>3, <1>4 DEF IsOpen
  <2>6. p < next_player_id' /\ p # 0
    BY <1>2, <1>8
  <2> QED BY <1>5, <1>6, <2>4, <2>5, <2>6 DEF Agrees, Identifies
<1>10. ASSUME NEW c \in Clients, client[c].session # s
      PROVE  client'[c] = client[c] /\ Agrees(c)'
  <2>1. client'[c] = client[c]
    BY <1>1, <1>10 DEF Told
  <2>2. client[c].session # None => client[c].session \in Sessions \ {s}
    BY <1>10 DEF ServerInv, OtherTypes, ClientType
  <2>3. next_player_id' \in Int /\ next_player_id <= next_player_id'
    BY <1>0, <1>2, <1>8
  <2> QED BY <1>7, <2>1, <2>2, <2>3, AgreesKept DEF SeatInv, ClientsAgree
<1>11. ASSUME NEW c \in Clients, client'[c].room # 0, Live(client[c].pid)'
       PROVE  Seated(client[c].pid, client[c].room)'
  <2>1. client[c].session # s
    BY <1>9, <1>11
  <2>2. client'[c] = client[c]
    BY <1>10, <2>1
  <2>3. client[c].pid < p
    BY <1>0 DEF SeatInv, ClientsAgree, Agrees
  <2>4. client[c].pid \in Nat
    BY BoundsAssumption DEF ServerInv, OtherTypes, ClientType
  <2>5. client[c].pid # p
    BY <1>2, <2>3, <2>4
  <2>6. Live(client[c].pid)
    BY <1>1, <1>4, <1>5, <1>11, <2>2, <2>5 DEF Live, Carriers, PSM!IsOffline, IsOpen
  <2> QED BY <1>1, <1>11, <2>2, <2>6 DEF SeatInv, ToldIsSeated, Seated
<1> QED BY <1>9, <1>10, <1>11 DEF SeatInv, ClientsAgree, ToldIsSeated

\* The session becomes the player's whose client it is, and whose window ran.
LEMMA ReconnectedKeepsSeats ==
  ASSUME ServerInv, RegistryInv, SeatInv, NEW s \in Sessions, Reconnected(s)
  PROVE  SeatInv'
<1>0. PICK p : p = Head(rx[s]).arg
  OBVIOUS
<1>1. /\ Dispatched(s, "reconnect") /\ Consume(s)
      /\ PSM!IsOffline(p) /\ PSM!mark_online(p)
      /\ player_id' = [player_id EXCEPT ![s] = p]
      /\ RM!MarkPlayer(p, RM!Online)
      /\ UNCHANGED <<client, next_player_id>>
  BY <1>0 DEF Reconnected, RM!mark_player_reconnected
<1>2. rx[s] # <<>> /\ rx[s][1].op = "reconnect" /\ rx[s][1].arg = p /\ IsOpen(s)
  BY <1>0, <1>1 DEF Dispatched, RegistryInv, IdentifiedFirst, Identifies
<1>3. /\ \A t \in Sessions : IsOpen(t)' <=> IsOpen(t)
      /\ \A t \in Sessions : phase'[t] = "free" => phase[t] = "free"
  BY <1>1 DEF ServerInv, SessionTypes, Consume, Dispatched, IsOpen
<1>4. player_id'[s] = p /\ \A t \in Sessions \ {s} : player_id'[t] = player_id[t]
  BY <1>1 DEF ServerInv, SessionTypes
<1>5. /\ rx'[s] # <<>> => ~Identifies(rx'[s][1])
      /\ \A t \in Sessions \ {s} : rx'[t] = rx[t]
  BY <1>1, TakenLeavesNone DEF RegistryInv
<1>6. \A t \in Sessions \ {s} : SessionKept(t)
  BY <1>3, <1>4, <1>5 DEF SessionKept
<1>7. ASSUME NEW c \in Clients PROVE Agrees(c)'
  <2>1. CASE client[c].session = s
    <3>1. client[c].pid = p
      BY <1>2, <2>1, NoneAssumption DEF SeatInv, ClientsAgree, Agrees
    <3>2. phase'[s] # "free"
      BY <1>2, <1>3 DEF IsOpen
    <3> QED BY <1>1, <1>4, <1>5, <2>1, <3>1, <3>2 DEF Agrees, Identifies, SeatInv, ClientsAgree
  <2>2. CASE client[c].session # s
    <3>1. client[c].session # None => client[c].session \in Sessions \ {s}
      BY <2>2 DEF ServerInv, OtherTypes, ClientType
    <3>2. next_player_id \in Int
      BY DEF ServerInv, RegistryTypes
    <3> QED BY <1>1, <1>6, <3>1, <3>2, AgreesKept DEF SeatInv, ClientsAgree
  <2> QED BY <2>1, <2>2
<1>8. ASSUME NEW q \in PlayerIds, Live(q)' PROVE Live(q)
  <2>1. CASE q = p
    BY <1>1, <2>1 DEF Live
  <2>2. CASE q # p
    <3>1. PSM!IsOffline(q)' => PSM!IsOffline(q)
      BY <1>1, <2>2 DEF PSM!mark_online, PSM!IsOffline
    <3> QED BY <1>3, <1>4, <1>8, <2>2, <3>1 DEF Live, Carriers, IsOpen
  <2> QED BY <2>1, <2>2
<1>9. \A r \in DOMAIN rooms : r \in DOMAIN rooms' /\ rooms'[r].player_ids = rooms[r].player_ids
  BY <1>1 DEF RM!MarkPlayer, ServerInv, RMP!RoomInv, RMP!TypeOK, RMP!RoomType
<1>10. SeatsKept
  BY <1>1, <1>8, <1>9 DEF SeatsKept
<1> QED BY <1>7, <1>10, SeatsKeptKeep DEF SeatInv, ClientsAgree

\* Who is told of the new room is listed in it: the registry leads the broadcast to
\* the session of the listed player, and the client there is that player's.
LEMMA CreateKeepsSeats ==
  ASSUME ServerInv, RegistryInv, SeatInv, NEW s \in Sessions, RoomCreated(s)
  PROVE  SeatInv'
<1>0. PICK n, S : n = next_room_id /\ S = Range(MQ!Matched(Head(rx[s]).arg))
  OBVIOUS
<1>1. /\ Dispatched(s, "match") /\ Consume(s)
      /\ S \subseteq DOMAIN players
      /\ RM!create_room(S)
      /\ client' = [c \in Clients |->
                      IF \E t \in {players[q] : q \in S} : Told(t, c)
                      THEN [client[c] EXCEPT !.room = n]
                      ELSE client[c]]
      /\ UNCHANGED <<player_id, next_player_id, states>>
  BY <1>0 DEF RoomCreated, Reachable, Unregistered, registry_vars
<1>2. /\ rooms' = RM!insert(rooms, [r \in {n} |-> RM!Room(S)])
      /\ n \notin DOMAIN rooms
  BY <1>0, <1>1 DEF RM!create_room, ServerInv, RMP!RoomInv, RMP!TypeOK
<1>3. /\ \A r \in DOMAIN rooms : r \in DOMAIN rooms' /\ rooms'[r] = rooms[r]
      /\ n \in DOMAIN rooms' /\ rooms'[n].player_ids = S
  BY <1>2 DEF RM!insert, RM!Room
<1>4. \A t \in Sessions : SessionKept(t)
  BY <1>1, TakingKeepsSessions DEF RegistryInv
<1>5. ASSUME NEW c \in Clients
      PROVE  /\ client'[c].session = client[c].session /\ client'[c].pid = client[c].pid
             /\ \/ client'[c].room = client[c].room
                \/ client'[c].room = n /\ client[c].pid \in S /\ client[c].pid # 0
             /\ client[c].session # None => client[c].session \in Sessions
  <2>1. client[c] \in ClientType
    BY DEF ServerInv, OtherTypes
  <2>2. CASE \E t \in {players[q] : q \in S} : Told(t, c)
    <3>1. PICK q \in S : client[c].session = players[q] /\ IsOpen(players[q])
      BY <2>2 DEF Told
    <3>2. q \in PlayerIds /\ players[q] \in Sessions /\ player_id[players[q]] = q
      BY <1>1, <3>1 DEF RegistryInv, RegistryExact, Carriers
    <3>3. client[c].pid = q /\ q # 0
      BY <3>1, <3>2, BoundsAssumption, NoneAssumption
         DEF SeatInv, ClientsAgree, Agrees, PlayerIds
    <3>4. client'[c] = [client[c] EXCEPT !.room = n]
      BY <1>1, <2>2
    <3> QED BY <2>1, <3>1, <3>2, <3>3, <3>4 DEF ClientType
  <2>3. CASE ~\E t \in {players[q] : q \in S} : Told(t, c)
    <3>1. client'[c] = client[c]
      BY <1>1, <2>3
    <3> QED BY <2>1, <3>1 DEF ClientType
  <2> QED BY <2>2, <2>3
<1>6. next_player_id \in Int
  BY DEF ServerInv, RegistryTypes
<1>7. ClientsAgree'
  BY <1>1, <1>4, <1>5, <1>6, AgreesKept DEF SeatInv, ClientsAgree
<1>8. ASSUME NEW c \in Clients, client'[c].room # 0, Live(client[c].pid)'
      PROVE  Seated(client[c].pid, client[c].room)'
  <2>1. client[c].pid \in Nat
    BY BoundsAssumption DEF ServerInv, OtherTypes, ClientType
  <2>2. CASE client'[c].room = n /\ client[c].pid \in S
    BY <1>3, <1>5, <2>2 DEF Seated
  <2>3. CASE client'[c].room = client[c].room
    <3>1. client[c].pid \in PlayerIds
      BY <1>8, <2>3, BoundsAssumption
         DEF ServerInv, OtherTypes, ClientType, SeatInv, ClientsAgree, Agrees, PlayerIds
    <3>2. Live(client[c].pid)
      BY <1>1, <1>4, <1>5, <1>8, <3>1, LiveKept DEF Live, Carriers, PSM!IsOffline
    <3> QED BY <1>3, <1>5, <1>8, <2>3, <3>2 DEF SeatInv, ToldIsSeated, Seated
  <2> QED BY <1>5, <2>2, <2>3
<1> QED BY <1>7, <1>8 DEF SeatInv, ToldIsSeated

\* The overdue player leaves; who else is listed in its room keeps it.
LEMMA TimeoutKeepsSeats ==
  ASSUME ServerInv, OwnerInv, SeatInv, NEW p, ReconnectTimeout(p)
  PROVE  SeatInv'
<1>1. /\ PSM!IsOffline(p) /\ RM!remove_player(p) /\ states' = PSM!erase(states, p)
      /\ UNCHANGED <<phase, player_id, rx, next_player_id, client>>
  BY DEF ReconnectTimeout, PSM!remove_player, session_vars, registry_vars
<1>2. \A t \in Sessions : SessionKept(t)
  BY <1>1 DEF SessionKept, IsOpen
<1>3. next_player_id \in Int
  BY DEF ServerInv, RegistryTypes
<1>4. \A c \in Clients : client[c].session # None => client[c].session \in Sessions
  BY DEF ServerInv, OtherTypes, ClientType
<1>5. ClientsAgree'
  BY <1>1, <1>2, <1>3, <1>4, AgreesKept DEF SeatInv, ClientsAgree
<1>6. ~PSM!IsOffline(p)' /\ \A q : PSM!IsOffline(q)' => PSM!IsOffline(q)
  BY <1>1 DEF PSM!erase, PSM!Restrict, PSM!IsOffline
<1>7. ASSUME NEW q, NEW r, q # p, Seated(q, r) PROVE Seated(q, r)'
  <2>1. CASE p \notin DOMAIN player_room_map
    BY <1>1, <1>7, <2>1 DEF RM!remove_player, Seated
  <2>2. CASE p \in DOMAIN player_room_map
    <3> DEFINE r0 == player_room_map[p]
               left == rooms[r0].player_ids \ {p}
    <3>1. rooms' = IF left = {} THEN RM!erase(rooms, r0)
                   ELSE [rooms EXCEPT ![r0].player_ids = left]
      BY <1>1, <2>2 DEF RM!remove_player, RM!RoomIsOver
    <3>2. r \in DOMAIN rooms /\ q \in rooms[r].player_ids /\ rooms[r] \in RMP!RoomType
      BY <1>7 DEF Seated, ServerInv, RMP!RoomInv, RMP!TypeOK
    <3>3. CASE r = r0
      BY <1>7, <3>1, <3>2, <3>3 DEF Seated, RMP!RoomType
    <3>4. CASE r # r0
      BY <3>1, <3>2, <3>4 DEF Seated, RM!erase, RM!Restrict
    <3> QED BY <3>3, <3>4
  <2> QED BY <2>1, <2>2
<1>8. ASSUME NEW c \in Clients, client[c].room # 0, Live(client[c].pid)'
      PROVE  Seated(client[c].pid, client[c].room)'
  <2>0. PICK q, r : q = client[c].pid /\ r = client[c].room
    OBVIOUS
  <2>1. q \in PlayerIds
    BY <1>8, <2>0, BoundsAssumption
       DEF ServerInv, OtherTypes, ClientType, SeatInv, ClientsAgree, Agrees, PlayerIds
  <2>2. Carriers(q)' # {} => Carriers(q) # {}
    BY <1>1 DEF Carriers, IsOpen
  <2>3. q # p
    BY <1>1, <1>6, <1>8, <2>0, <2>1, <2>2, OwnerInvSuffices DEF Live, SingleOwner
  <2>4. Seated(q, r)
    BY <1>1, <1>6, <1>8, <2>0, <2>2 DEF Live, SeatInv, ToldIsSeated
  <2> QED BY <1>1, <1>7, <2>0, <2>3, <2>4 DEF Seated
<1> QED BY <1>1, <1>5, <1>8 DEF SeatInv, ToldIsSeated
LEMMA ClientStepKeepsSeats ==
  ASSUME ~LoginAnytime, ServerInv, OwnerInv, SeatInv, NEW c \in Clients, ClientStep(c)
  PROVE  SeatInv'
<1>1. CASE StartClient(c)
  <2>1. Connect(c, LoginReq, NewClient)
    BY <1>1 DEF StartClient
  <2>2. NewClient \in ClientType
    BY BoundsAssumption DEF NewClient, ClientType
  <2>3. NewClient.pid = 0 /\ NewClient.room = 0 /\ LoginReq.op = "login"
    BY DEF NewClient, LoginReq
  <2>4. next_player_id \in Nat \ {0}
    BY DEF ServerInv, RegistryTypes
  <2>5. 0 < next_player_id
    BY <2>4
  <2> HIDE DEF NewClient, LoginReq
  <2> QED BY <2>1, <2>2, <2>3, <2>5, ConnectKeepsSeats
<1>2. CASE ReconnectClient(c)
  <2> DEFINE known == [client[c] EXCEPT !.asked = ~Rematch]
             first == ReconnectReq(client[c].pid)
  <2>1. Connect(c, first, known)
    BY <1>2 DEF ReconnectClient
  <2>2. client[c] \in ClientType
    BY DEF ServerInv, OtherTypes
  <2>3. known \in ClientType /\ known.pid = client[c].pid /\ known.room = client[c].room
    BY <2>2, DisciplineAssumption DEF ClientType
  <2>4. first.op = "reconnect" /\ first.arg = client[c].pid
    BY DEF ReconnectReq
  <2>5. client[c].pid < next_player_id /\ (client[c].pid = 0 => client[c].room = 0)
    BY DEF SeatInv, ClientsAgree, Agrees
  <2> HIDE DEF known, first
  <2> QED BY <2>1, <2>3, <2>4, <2>5, ConnectKeepsSeats
<1> QED BY <1>1, <1>2, StopKeepsSeats, SendKeepsSeats DEF ClientStep

LEMMA SessionStepKeepsSeats ==
  ASSUME ServerInv, OwnerInv, RegistryInv, SeatInv, NEW s \in Sessions, SessionStep(s)
  PROVE  SeatInv'
<1>1. ASSUME NEW kind, Crash(kind) PROVE SeatInv'
  BY <1>1, StutterKeepsSeats DEF Crash, session_vars, registry_vars, room_vars
<1>2. ASSUME NEW op, Dispatched(s, op), Consume(s),
             UNCHANGED <<player_id, registry_vars, room_vars, states, client>>
      PROVE  SeatInv'
  BY <1>2, AnswerKeepsSeats
<1>3. CASE MatchRejected(s) \/ MatchQueued(s) \/ ChatDelivered(s) \/ ReconnectRefused(s) \/ HandlePing(s)
  BY <1>2, <1>3 DEF MatchRejected, MatchQueued, ChatDelivered, ReconnectRefused, HandlePing
<1>4. CASE MatchCrashes(s) \/ ChatCrashes(s)
  BY <1>1, <1>4 DEF MatchCrashes, ChatCrashes, BroadcastCrash
<1>5. CASE Handle(s)
  BY <1>3, <1>4, <1>5, LoginKeepsSeats, ReconnectedKeepsSeats, CreateKeepsSeats
     DEF Handle, HandleMatch, HandleChat, HandleReconnect
<1>6. CASE OnReadError(s) \/ OnWriteError(s) \/ HeartbeatTimeout(s)
  <2>1. Len(rx[s]) \in Nat /\ AlreadyRead(s) \subseteq 0..Len(rx[s])
    BY DEF ServerInv, SessionTypes, AlreadyRead
  <2>2. IsOpen(s) /\ \E read \in 0..Len(rx[s]) : Close(s, read)
    BY <1>6, <2>1 DEF OnReadError, OnWriteError, HeartbeatTimeout
  <2> QED BY <2>2, CloseKeepsSeats
<1> QED BY <1>5, <1>6, AbortKeepsSeats DEF SessionStep

LEMMA SeatInvInductive ==
  ASSUME ~LoginAnytime
  PROVE  ServerInv /\ OwnerInv /\ RegistryInv /\ SeatInv /\ [Next]_vars => SeatInv'
<1> SUFFICES ASSUME ServerInv, OwnerInv, RegistryInv, SeatInv, [Next]_vars PROVE SeatInv'
  OBVIOUS
<1>1. CASE UNCHANGED vars
  BY <1>1, StutterKeepsSeats DEF vars, session_vars, registry_vars, room_vars
<1> QED BY <1>1, ClientStepKeepsSeats, SessionStepKeepsSeats, TimeoutKeepsSeats DEF Next

LEMMA SeatInvSuffices == ServerInv /\ SeatInv => ToldRoomExists
  BY DEF SeatInv, ToldIsSeated, Live, Seated, ToldRoomExists

\* A room its client was told of exists and lists the client's player while the
\* client is served: what was told over one connection is still true on the next.
THEOREM ToldRoomsExist ==
  ASSUME ~LoginAnytime
  PROVE  Spec => []ToldRoomExists
<1>1. Init => ServerInv /\ OwnerInv /\ RegistryInv /\ SeatInv
  <2>1. Init => SeatInv
    BY DEF Init, SeatInv, ClientsAgree, Agrees, ToldIsSeated, NewClient
  <2> QED BY <2>1, InitTypes, InitOwners, InitRegistry
<1>2. (ServerInv /\ OwnerInv /\ RegistryInv /\ SeatInv) /\ [Next]_vars
        => (ServerInv /\ OwnerInv /\ RegistryInv /\ SeatInv)'
  BY ServerInvInductive, OwnerInvInductive, RegistryInvInductive, SeatInvInductive
<1>3. ServerInv /\ SeatInv => ToldRoomExists
  BY SeatInvSuffices
<1> QED BY <1>1, <1>2, <1>3, PTL DEF Spec
-------------------------------------------------------------------------------
(* PresenceRefined: every step is one of PlayerPresence's, or none. *)

StatusOf(p) ==
    IF p >= next_player_id THEN "new"
    ELSE IF p \in DOMAIN players THEN "online"
    ELSE IF PSM!IsOffline(p) THEN "offline"
    ELSE "gone"

\* Nobody's presence changes.
SameStatus == \A p \in PlayerIds : StatusOf(p)' = StatusOf(p)
SameSeats == player_room_map' = player_room_map

LEMMA StatusStutters == SameStatus => UNCHANGED status
  BY DEF SameStatus, StatusOf, status, PlayerIds, PSM!IsOffline

LEMMA SeatsStutter == SameSeats => UNCHANGED seat
  BY DEF SameSeats, seat, RM!get_room_id_by_player, PlayerIds

LEMMA NothingMoves == SameStatus /\ SameSeats => UNCHANGED Presence!vars
  BY StatusStutters, SeatsStutter DEF Presence!vars

\* One player's presence changes, as PlayerPresence moves it.
LEMMA OneMoves ==
  ASSUME NEW p \in PlayerIds, NEW from, NEW to, StatusOf(p) = from, StatusOf(p)' = to,
         \A q \in PlayerIds \ {p} : StatusOf(q)' = StatusOf(q)
  PROVE  Presence!Move(p, from, to)
<1>1. status[p] = from
  BY DEF StatusOf, status
<1>2. status' = [q \in PlayerIds |-> StatusOf(q)']
  BY DEF StatusOf, status, PlayerIds, PSM!IsOffline
<1>3. status = [q \in PlayerIds |-> StatusOf(q)]
  BY DEF StatusOf, status
<1>4. status' = [status EXCEPT ![p] = to]
  BY <1>2, <1>3
<1> QED BY <1>1, <1>4 DEF Presence!Move

LEMMA InitPresence == Init => Presence!Init
<1> SUFFICES ASSUME Init PROVE Presence!Init
  OBVIOUS
<1>1. status = [p \in PlayerIds |-> "new"]
  BY BoundsAssumption DEF Init, status, PlayerIds
<1>2. seat = [p \in PlayerIds |-> -1]
  BY DEF Init, RM!Init, seat, RM!get_room_id_by_player, RM!NoRoom
<1> QED BY <1>1, <1>2 DEF Presence!Init, Presence!NoRoom

LEMMA LoginIsLogin ==
  ASSUME ServerInv, NEW s \in Sessions, HandleLogin(s)
  PROVE  Presence!Next
<1>0. PICK p : p = next_player_id
  OBVIOUS
<1>1. /\ p <= MaxPlayers
      /\ next_player_id' = p + 1
      /\ DOMAIN players' = DOMAIN players \cup {p}
      /\ states' = states /\ player_room_map' = player_room_map
  BY <1>0 DEF HandleLogin, NextPlayerId, add_player, insert_or_assign, room_vars
<1>2. p \in PlayerIds
  BY <1>0, <1>1, BoundsAssumption DEF ServerInv, RegistryTypes, PlayerIds
<1>3. \A q \in PlayerIds \ {p} : StatusOf(q)' = StatusOf(q)
  BY <1>0, <1>1, <1>2 DEF StatusOf, PlayerIds, PSM!IsOffline
<1>4. StatusOf(p) = "new"
  BY <1>0, <1>2 DEF StatusOf, PlayerIds
<1>5. StatusOf(p)' = "online"
  BY <1>1, <1>2 DEF StatusOf, PlayerIds
<1>6. Presence!Move(p, "new", "online")
  BY <1>2, <1>3, <1>4, <1>5, OneMoves
<1> QED BY <1>1, <1>2, <1>6, SeatsStutter DEF SameSeats, Presence!Next, Presence!Login

LEMMA ReconnectedIsReconnect ==
  ASSUME ServerInv, OwnerInv, NEW s \in Sessions, Reconnected(s)
  PROVE  Presence!Next
<1>0. PICK p : p = Head(rx[s]).arg
  OBVIOUS
<1>1. /\ Dispatched(s, "reconnect")
      /\ PSM!IsOffline(p) /\ PSM!mark_online(p)
      /\ DOMAIN players' = DOMAIN players \cup {p}
      /\ next_player_id' = next_player_id /\ player_room_map' = player_room_map
  BY <1>0 DEF Reconnected, add_player, insert_or_assign, RM!mark_player_reconnected, RM!MarkPlayer
<1>2. p \in PlayerIds
  BY <1>0, <1>1, DispatchTypes, RequestArgs DEF ServerInv
<1>3. p < next_player_id /\ p \in Nat /\ next_player_id \in Nat
  BY <1>1 DEF OwnerInv, OwnerTypes, IdsHandedOut, PSM!IsOffline
<1>4. \A q : q # p => (PSM!IsOffline(q)' <=> PSM!IsOffline(q))
  BY <1>1 DEF PSM!mark_online, PSM!IsOffline
<1>5. \A q \in PlayerIds \ {p} : StatusOf(q)' = StatusOf(q)
  BY <1>1, <1>4 DEF StatusOf
<1>6. p \notin DOMAIN players
  BY <1>1, <1>2, OwnerInvSuffices DEF SingleOwner
<1>7. StatusOf(p) = "offline" /\ StatusOf(p)' = "online"
  BY <1>1, <1>3, <1>6 DEF StatusOf
<1>8. Presence!Move(p, "offline", "online")
  BY <1>2, <1>5, <1>7, OneMoves
<1> QED BY <1>1, <1>2, <1>8, SeatsStutter DEF SameSeats, Presence!Next, Presence!Reconnect

LEMMA CloseIsDisconnect ==
  ASSUME ServerInv, OwnerInv, RegistryExact, NEW s \in Sessions, IsOpen(s), NEW read, Close(s, read)
  PROVE  Presence!Next \/ UNCHANGED Presence!vars
<1>0. PICK p, r : p = player_id[s] /\ r = RM!get_room_id_by_player(p)
  OBVIOUS
<1>1. /\ PSM!disconnect(p, r)
      /\ DOMAIN players' = DOMAIN players \ {p}
      /\ next_player_id' = next_player_id /\ player_room_map' = player_room_map
  BY <1>0 DEF Close, remove_player, erase, Restrict, RM!mark_player_disconnected, RM!MarkPlayer
<1>2. \A q : q # p => (PSM!IsOffline(q)' <=> PSM!IsOffline(q))
  BY <1>1 DEF PSM!disconnect, PSM!insert, PSM!IsOffline
<1>3. \A q \in PlayerIds \ {p} : StatusOf(q)' = StatusOf(q)
  BY <1>1, <1>2 DEF StatusOf
<1>4. CASE p = 0
  BY <1>1, <1>3, <1>4, NothingMoves, BoundsAssumption DEF SameStatus, SameSeats, PlayerIds
<1>5. CASE p # 0
  <2>1. p \in PlayerIds
    BY <1>0, <1>5, BoundsAssumption DEF ServerInv, SessionTypes, PlayerIds
  <2>2. p < next_player_id /\ p \in Nat /\ next_player_id \in Nat
    BY <1>0 DEF OwnerInv, OwnerTypes, IdsHandedOut
  <2>3. p \in DOMAIN players
    BY <1>0, <2>1 DEF RegistryExact, Carriers
  <2>4. \A q \in DOMAIN states : states[q] \in [conn : {PSM!Online, PSM!Offline}, room_id : Int]
    BY DEF ServerInv, OtherTypes, PSM!TypeOK
  <2>5. p \in DOMAIN states' /\ states'[p].conn = PSM!Offline
    BY <1>1, <2>4 DEF PSM!disconnect, PSM!insert
  <2>6. StatusOf(p) = "online" /\ StatusOf(p)' = "offline"
    BY <1>1, <2>2, <2>3, <2>5 DEF StatusOf, PSM!IsOffline
  <2>7. Presence!Move(p, "online", "offline")
    BY <1>3, <2>1, <2>6, OneMoves
  <2> QED BY <1>1, <2>1, <2>7, SeatsStutter DEF SameSeats, Presence!Next, Presence!Disconnect
<1> QED BY <1>4, <1>5
LEMMA TimeoutIsExpiry ==
  ASSUME ServerInv, OwnerInv, NEW p \in PlayerIds \cup {0}, ReconnectTimeout(p)
  PROVE  Presence!Next \/ UNCHANGED Presence!vars
<1>1. /\ PSM!IsOffline(p) /\ states' = PSM!erase(states, p)
      /\ UNCHANGED <<players, next_player_id>>
      /\ player_room_map' = IF p \in DOMAIN player_room_map THEN RM!erase(player_room_map, p)
                            ELSE player_room_map
  BY DEF ReconnectTimeout, PSM!remove_player, RM!remove_player, registry_vars
<1>2. \A q : q # p => (PSM!IsOffline(q)' <=> PSM!IsOffline(q))
  BY <1>1 DEF PSM!erase, PSM!Restrict, PSM!IsOffline
<1>3. ~PSM!IsOffline(p)'
  BY <1>1 DEF PSM!erase, PSM!Restrict, PSM!IsOffline
<1>4. \A q \in PlayerIds \ {p} : StatusOf(q)' = StatusOf(q)
  BY <1>1, <1>2 DEF StatusOf
<1>5. CASE p = 0
  <2>1. 0 \notin PlayerIds
    BY DEF PlayerIds
  <2>2. player_room_map' = player_room_map
    BY <1>1, <1>5, <2>1 DEF ServerInv, RMP!RoomInv, RMP!TypeOK
  <2> QED BY <1>4, <1>5, <2>1, <2>2, NothingMoves DEF SameStatus, SameSeats
<1>6. CASE p # 0
  <2>1. p \in PlayerIds /\ p \notin DOMAIN players
    BY <1>1, <1>6, OwnerInvSuffices DEF SingleOwner
  <2>2. p < next_player_id /\ p \in Nat /\ next_player_id \in Nat
    BY <1>1 DEF OwnerInv, OwnerTypes, IdsHandedOut, PSM!IsOffline
  <2>3. StatusOf(p) = "offline" /\ StatusOf(p)' = "gone"
    BY <1>1, <1>3, <2>1, <2>2 DEF StatusOf
  <2>4. Presence!Move(p, "offline", "gone")
    BY <1>4, <2>1, <2>3, OneMoves
  <2>5. p \notin DOMAIN player_room_map'
    BY <1>1 DEF RM!erase, RM!Restrict
  <2>6. \A q \in PlayerIds \ {p} :
          /\ q \in DOMAIN player_room_map' <=> q \in DOMAIN player_room_map
          /\ q \in DOMAIN player_room_map => player_room_map'[q] = player_room_map[q]
    BY <1>1 DEF RM!erase, RM!Restrict
  <2>7. seat' = [seat EXCEPT ![p] = -1]
    BY <2>1, <2>5, <2>6 DEF seat, RM!get_room_id_by_player, RM!NoRoom, PlayerIds
  <2> QED BY <2>1, <2>4, <2>7 DEF Presence!Next, Presence!Expire, Presence!NoRoom
<1> QED BY <1>5, <1>6

\* A room's worth of players is popped, never more.
LEMMA PoppedAreTwo ==
  ASSUME ServerInv, NEW p \in PlayerIds, NEW T, T \subseteq Range(MQ!Matched(p))
  PROVE  Cardinality(T) <= 2
<1>1. Append(queue, p) \in Seq(PlayerIds)
  BY DEF ServerInv, MQP!QueueInv, MQP!TypeOK
<1>2. PICK m : m = MQ!Matched(p)
  OBVIOUS
<1>3. \E a, b : T \subseteq {a, b}
  <2>1. CASE Len(Append(queue, p)) < 2
    <3>1. m = <<>>
      BY <1>2, <2>1 DEF MQ!Matched, MQ!Joined
    <3>2. Range(m) = {}
      BY <3>1 DEF Range
    <3> QED BY <1>2, <3>2
  <2>2. CASE ~(Len(Append(queue, p)) < 2)
    <3>1. m = SubSeq(Append(queue, p), 1, 2)
      BY <1>2, <2>2 DEF MQ!Matched, MQ!Joined
    <3>2. DOMAIN m = 1..2
      BY <1>1, <2>2, <3>1
    <3>3. Range(m) \subseteq {m[1], m[2]}
      BY <3>2 DEF Range
    <3> QED BY <1>2, <3>3
  <2> QED BY <2>1, <2>2
<1>4. PICK a, b : T \subseteq {a, b}
  BY <1>3
<1>5. IsFiniteSet({a}) /\ Cardinality({a}) = 1
  BY FS_Singleton
<1>6. IsFiniteSet({a} \cup {b}) /\ Cardinality({a} \cup {b}) <= 2
  <2>1. PICK A : A = {a}
    OBVIOUS
  <2>2. IsFiniteSet(A) /\ Cardinality(A) = 1
    BY <1>5, <2>1, Zenon
  <2>3. /\ IsFiniteSet(A \cup {b})
        /\ Cardinality(A \cup {b}) = IF b \in A THEN Cardinality(A) ELSE Cardinality(A) + 1
    BY <2>2, FS_AddElement, Zenon
  <2>4. Cardinality(A \cup {b}) <= 2
    BY <2>2, <2>3
  <2> QED BY <2>1, <2>3, <2>4
<1>7. T \in SUBSET ({a} \cup {b})
  BY <1>4
<1>8. IsFiniteSet(T) /\ Cardinality(T) <= Cardinality({a} \cup {b})
  BY <1>6, <1>7, FS_Subset
<1>9. Cardinality(T) \in Nat /\ Cardinality({a} \cup {b}) \in Nat
  BY <1>6, <1>8, FS_CardinalityType
<1> QED BY <1>6, <1>8, <1>9

\* The popped players are online; those without a seat get one in a room that is new.
LEMMA CreateIsSeat ==
  ASSUME ServerInv, OwnerInv, RegistryInv, NEW s \in Sessions, RoomCreated(s)
  PROVE  Presence!Next \/ UNCHANGED Presence!vars
<1>0. PICK n, p : n = next_room_id /\ p = Head(rx[s]).arg
  OBVIOUS
<1> DEFINE S == Range(MQ!Matched(p))
           T == S \ DOMAIN player_room_map
<1>1. /\ Dispatched(s, "match")
      /\ S \subseteq DOMAIN players
      /\ n <= MaxRooms
      /\ player_room_map' = RM!insert(player_room_map, [q \in S |-> n])
      /\ UNCHANGED <<players, next_player_id, states>>
  BY <1>0 DEF RoomCreated, Reachable, Unregistered, RM!create_room, RM!Indexed, registry_vars
<1>2. p \in PlayerIds
  BY <1>0, <1>1, DispatchTypes, RequestArgs DEF ServerInv
<1>3. Cardinality(T) <= 2
  BY <1>2, PoppedAreTwo
<1>4. S \subseteq PlayerIds
  BY <1>2, MatchedArePlayers
<1> HIDE DEF S
<1>5. SameStatus
  BY <1>1 DEF SameStatus, StatusOf, PSM!IsOffline
<1>6. CASE T = {}
  <2>1. DOMAIN player_room_map' = DOMAIN player_room_map
        /\ \A q \in DOMAIN player_room_map : player_room_map'[q] = player_room_map[q]
    BY <1>1, <1>6 DEF RM!insert
  <2>2. UNCHANGED seat
    BY <2>1 DEF seat, RM!get_room_id_by_player
  <2> QED BY <1>5, <2>2, StatusStutters DEF Presence!vars
<1>7. CASE T # {}
  <2>1. n \in 1..MaxRooms /\ n \notin DOMAIN rooms /\ n # -1
    BY <1>0, <1>1, BoundsAssumption DEF ServerInv, RMP!RoomInv, RMP!TypeOK
  <2>2. \A q \in PlayerIds : seat[q] # n
    BY <2>1 DEF seat, RM!get_room_id_by_player, RM!NoRoom, ServerInv, RMP!RoomInv, RMP!RoomIndex
  <2>3. \A q \in T : status[q] = "online" /\ seat[q] = -1
    <3>1. \A q \in T : q \in PlayerIds /\ q \in DOMAIN players /\ q \notin DOMAIN player_room_map
      BY <1>1, <1>4
    <3>2. \A q \in DOMAIN players : q < next_player_id /\ q \in Nat /\ next_player_id \in Nat
      BY DEF RegistryInv, RegistryExact, Carriers, OwnerInv, OwnerTypes, IdsHandedOut
    <3>3. \A q \in T : ~(q >= next_player_id)
      BY <3>1, <3>2
    <3> QED BY <3>1, <3>3 DEF status, seat, RM!get_room_id_by_player, RM!NoRoom
  <2>4. seat' = [q \in PlayerIds |-> IF q \in T THEN n ELSE seat[q]]
    <3>1. ASSUME NEW q \in PlayerIds
          PROVE  RM!get_room_id_by_player(q)' = IF q \in T THEN n ELSE RM!get_room_id_by_player(q)
      BY <1>1 DEF RM!get_room_id_by_player, RM!insert
    <3>2. seat' = [q \in PlayerIds |-> RM!get_room_id_by_player(q)']
      BY DEF seat, PlayerIds, RM!get_room_id_by_player
    <3>3. seat = [q \in PlayerIds |-> RM!get_room_id_by_player(q)]
      BY DEF seat
    <3> HIDE DEF T
    <3> QED BY <3>1, <3>2, <3>3
  <2>5. T \in SUBSET PlayerIds
    BY <1>4
  <2>6. UNCHANGED status
    BY <1>5, StatusStutters
  <2> HIDE DEF T
  <2>7. Presence!Cardinality(T) <= 2
    BY <1>3 DEF Presence!Cardinality, Cardinality
  <2>8. Presence!Seat(T)
    BY <1>7, <2>1, <2>2, <2>3, <2>4, <2>6, <2>7 DEF Presence!Seat, Presence!NoRoom
  <2> QED BY <2>5, <2>8 DEF Presence!Next
<1> QED BY <1>6, <1>7
LEMMA ClientStepIsHidden ==
  ASSUME ServerInv, NEW c \in Clients, ClientStep(c)
  PROVE  UNCHANGED Presence!vars
<1>1. UNCHANGED <<players, next_player_id, states, player_room_map>>
  BY DEF ClientStep, StopClient, StartClient, ReconnectClient, ClientSend, Connect,
         server_vars, registry_vars, room_vars
<1> QED BY <1>1, NothingMoves DEF SameStatus, SameSeats, StatusOf, PSM!IsOffline

LEMMA SessionStepIsPresence ==
  ASSUME ServerInv, OwnerInv, RegistryInv, NEW s \in Sessions, SessionStep(s)
  PROVE  Presence!Next \/ UNCHANGED Presence!vars
<1>1. ASSUME UNCHANGED <<players, next_player_id, states, player_room_map>>
      PROVE  UNCHANGED Presence!vars
  BY <1>1, NothingMoves DEF SameStatus, SameSeats, StatusOf, PSM!IsOffline
<1>2. ASSUME NEW kind, Crash(kind) PROVE UNCHANGED Presence!vars
  BY <1>1, <1>2 DEF Crash, registry_vars, room_vars
<1>3. CASE MatchRejected(s) \/ MatchQueued(s) \/ ChatDelivered(s) \/ ReconnectRefused(s) \/ HandlePing(s)
  BY <1>1, <1>3
     DEF MatchRejected, MatchQueued, ChatDelivered, ReconnectRefused, HandlePing, registry_vars, room_vars
<1>4. CASE MatchCrashes(s) \/ ChatCrashes(s)
  BY <1>2, <1>4 DEF MatchCrashes, ChatCrashes, BroadcastCrash
<1>5. CASE Handle(s)
  BY <1>3, <1>4, <1>5, LoginIsLogin, ReconnectedIsReconnect, CreateIsSeat
     DEF Handle, HandleMatch, HandleChat, HandleReconnect
<1>6. CASE OnReadError(s) \/ OnWriteError(s) \/ HeartbeatTimeout(s)
  BY <1>6, CloseIsDisconnect DEF OnReadError, OnWriteError, HeartbeatTimeout, RegistryInv
<1>7. CASE OnAbort(s)
  BY <1>1, <1>7 DEF OnAbort, server_vars, registry_vars, room_vars
<1> QED BY <1>5, <1>6, <1>7 DEF SessionStep

LEMMA StepIsPresence ==
  ServerInv /\ OwnerInv /\ RegistryInv /\ [Next]_vars => [Presence!Next]_(Presence!vars)
<1> SUFFICES ASSUME ServerInv, OwnerInv, RegistryInv, [Next]_vars
             PROVE  Presence!Next \/ UNCHANGED Presence!vars
  OBVIOUS
<1>1. CASE UNCHANGED vars
  BY <1>1, NothingMoves
     DEF vars, registry_vars, room_vars, SameStatus, SameSeats, StatusOf, PSM!IsOffline
<1> QED BY <1>1, ClientStepIsHidden, SessionStepIsPresence, TimeoutIsExpiry DEF Next

\* The server implements PlayerPresence: whatever the sessions, the registry and the
\* timers do, a player is new, online, offline and gone in no other order, and gives
\* up its seat only with its window.
THEOREM ServerRefinesPresence ==
  ASSUME ~LoginAnytime
  PROVE  Spec => PresenceRefined
<1>1. Init => ServerInv /\ OwnerInv /\ RegistryInv
  BY InitTypes, InitOwners, InitRegistry
<1>2. (ServerInv /\ OwnerInv /\ RegistryInv) /\ [Next]_vars
        => (ServerInv /\ OwnerInv /\ RegistryInv)'
  BY ServerInvInductive, OwnerInvInductive, RegistryInvInductive
<1>3. Init => Presence!Init
  BY InitPresence
<1>4. ServerInv /\ OwnerInv /\ RegistryInv /\ [Next]_vars => [Presence!Next]_(Presence!vars)
  BY StepIsPresence
<1> QED BY <1>1, <1>2, <1>3, <1>4, PTL DEF Spec, PresenceRefined, Presence!Spec
===============================================================================
