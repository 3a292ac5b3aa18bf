------------------------------ MODULE GameServer ------------------------------
(***************************************************************************)
(* The room server: src/GameServer.cpp composing the sessions (src/net),   *)
(* the services (src/service) and the managers of players, queue, rooms    *)
(* and reconnection windows.                                               *)
(*                                                                         *)
(* One thread runs io_.run(), so every asio handler is atomic and an       *)
(* action here is one handler: a request taken from a session, the         *)
(* completion of a read or a write, or a timer.  What interleaves is the   *)
(* order of those handlers and of the clients' steps.  An exception that   *)
(* leaves a handler, or a null dereference in one, ends the process: that  *)
(* is the variable fault, and no step follows it.                          *)
(*                                                                         *)
(* Time is abstracted: a session may be found idle for more than 15 s, and *)
(* an offline player be found so for more than 30 s, at any tick.  A tick  *)
(* that finds several of them is a run of ticks that find one each.        *)
(***************************************************************************)
EXTENDS Integers, Sequences, FiniteSets, UnorderedMap

CONSTANTS
    Clients,        \* client programs
    Sessions,       \* Session objects that may exist at one time
    None,           \* no session
    MaxPlayers,     \* bound on the player ids handed out
    MaxRooms,       \* bound on the rooms created
    MaxScore,       \* bound on the score at which a client still chats
    MaxInFlight,    \* bound on the requests a session has not handled yet
    LaterOps,       \* what a client may ask after the first request of a
                    \* connection, which logs in or reconnects
    Rematch,        \* clients may ask for a match again; FALSE: once a login,
                    \* as the client simulator
    StaleReads      \* a read may have completed when a session is closed

ASSUME BoundsAssumption ==
    /\ MaxPlayers \in Nat /\ MaxRooms \in Nat /\ MaxScore \in Nat /\ MaxInFlight \in Nat
ASSUME DisciplineAssumption ==
    /\ LaterOps \subseteq {"login", "match", "chat", "reconnect", "ping"}
    /\ Rematch \in BOOLEAN /\ StaleReads \in BOOLEAN
ASSUME NoneAssumption == None \notin Sessions

VARIABLES
    \* Session
    phase,           \* session -> "free", "open", "closed", "draining" or "done"
    player_id,       \* session -> player_id_, 0 until a login
    rx,              \* session -> requests sent to it and not handled yet
    sent,            \* session -> an async write may be outstanding
    \* PlayerManager, ConnectionManager, LoginService
    players,         \* players_: player id -> session (a weak_ptr)
    conns,           \* sessions_ (owning)
    next_player_id,  \* next_player_id_, counted from 1 instead of 10000
    \* MatchQueue, RoomManager, PlayerStateManager, PlayerStateRepository
    queue, in_queue, rooms, player_room_map, next_room_id, states, repo,
    \* the clients and the process
    client,          \* client -> its connection and what it was told
    fault            \* "none", or how the process ended

session_vars == <<phase, player_id, rx, sent>>
registry_vars == <<players, conns, next_player_id>>
queue_vars == <<queue, in_queue>>
room_vars == <<rooms, player_room_map, next_room_id>>
vars == <<session_vars, registry_vars, queue_vars, room_vars, states, repo, client, fault>>

PlayerIds == 1..MaxPlayers

\* A connection may log in or reconnect after its first request, a second time
\* included; without it the first request does, and no later one.
LoginAnytime == "login" \in LaterOps \/ "reconnect" \in LaterOps

MQ == INSTANCE MatchQueue WITH RoomSize <- 2
RM == INSTANCE RoomManager
PSM == INSTANCE PlayerStateManager
Repo == INSTANCE PlayerStateRepository

(***************************************************************************)
(* The registries: PlayerManager::add_player and remove_player,            *)
(* ConnectionManager::add_session and remove_session, and the counter of   *)
(* LoginService::generate_player_id.                                       *)
(***************************************************************************)
add_player(p, s) == players' = insert_or_assign(players, p, s)

\* Mutant: the close callback leaves the player registered.
remove_player_Missing(p) == players' = players
remove_player(p) == players' = erase(players, p)

\* Mutant: the session is not put under the heartbeat's watch.
add_session_Missing(s) == conns' = conns
add_session(s) == conns' = conns \cup {s}

\* Mutant: the close callback leaves the session in the set.
remove_session_Missing(s) == conns' = conns
remove_session(s) == conns' = conns \ {s}

NextPlayerId == next_player_id + 1

(***************************************************************************)
(* Requests.  "ping" stands for every request that is answered and changes *)
(* nothing the model keeps: heartbeat, ranking, a login without a name, a  *)
(* reconnection with a wrong token.                                        *)
(***************************************************************************)
LoginReq == [op |-> "login"]
MatchReq(p) == [op |-> "match", arg |-> p]
ChatReq(r) == [op |-> "chat", arg |-> r]
ReconnectReq(p) == [op |-> "reconnect", arg |-> p]
PingReq == [op |-> "ping"]

Request ==
    {LoginReq, PingReq}
        \cup {MatchReq(p) : p \in PlayerIds}
        \cup {ReconnectReq(p) : p \in PlayerIds}
        \cup {ChatReq(r) : r \in 0..MaxRooms}

\* What a client knows before it talks to the server.
NewClient == [session |-> None, pid |-> 0, room |-> 0, asked |-> FALSE]

Init ==
    /\ phase = [s \in Sessions |-> "free"]
    /\ player_id = [s \in Sessions |-> 0]
    /\ rx = [s \in Sessions |-> <<>>]
    /\ sent = [s \in Sessions |-> FALSE]
    /\ players = <<>> /\ conns = {} /\ next_player_id = 1
    /\ MQ!Init /\ RM!Init /\ PSM!Init /\ Repo!Init
    /\ client = [c \in Clients |-> NewClient]
    /\ fault = "none"

\* No handler is in the middle of the packets of one read (see Consume).
Idle == fault = "none" /\ \A s \in Sessions : phase[s] # "draining"

IsOpen(s) == phase[s] = "open"

-------------------------------------------------------------------------------
(***************************************************************************)
(* Clients.  They are honest: they name their own player and token.        *)
(***************************************************************************)
server_vars ==
    <<registry_vars, queue_vars, room_vars, states, repo, fault>>

\* A connection is accepted (do_accept, Session::start) and its first request
\* is on the way.  The connection the client had before is left to the server.
Connect(c, first, known) ==
    \E s \in Sessions :
        /\ Idle
        /\ phase[s] = "free"
        /\ phase' = [phase EXCEPT ![s] = "open"]
        /\ rx' = [rx EXCEPT ![s] = <<first>>]
        /\ client' = [client EXCEPT ![c] = [known EXCEPT !.session = s]]
        /\ UNCHANGED <<player_id, sent, server_vars>>

\* A client program ends.  Its connection is left as it is: the server may hear
\* of it (OnReadError) or not, when the end of the connection is lost.
StopClient(c) ==
    /\ Idle
    /\ client[c] # NewClient
    /\ client' = [client EXCEPT ![c] = NewClient]
    /\ UNCHANGED <<session_vars, server_vars>>

\* A client program starts, anew if it ran before, and logs in.
StartClient(c) ==
    /\ next_player_id <= MaxPlayers
    /\ \E first \in IF LoginAnytime THEN {LoginReq, PingReq} ELSE {LoginReq} :
          Connect(c, first, NewClient)

\* ClientSimulator::reconnect: a new connection, and ReconnectReq on it.
ReconnectClient(c) ==
    /\ client[c].pid # 0
    /\ Connect(c, ReconnectReq(client[c].pid), [client[c] EXCEPT !.asked = ~Rematch])

\* The rooms a client may name: the one it was told, or, before that, whatever
\* the uninitialised room_id_ of the simulator holds (0: no room's id).
ChatRooms(c) == IF client[c].room = 0 THEN 0..MaxRooms ELSE {client[c].room}

NextRequests(c) ==
    LET p == client[c].pid
        all == {PingReq}
            \cup {ChatReq(r) : r \in ChatRooms(c)}
            \cup (IF next_player_id <= MaxPlayers THEN {LoginReq} ELSE {})
            \cup (IF p = 0 THEN {} ELSE {ReconnectReq(p)})
            \cup (IF p # 0 /\ (Rematch \/ ~client[c].asked) THEN {MatchReq(p)} ELSE {})
    IN  {req \in all : req.op \in LaterOps}

\* Bound: no more chats once some player reached MaxScore.
ChatsLeft == \A p \in DOMAIN repo : repo[p].score < MaxScore

ClientSend(c) ==
    \E s \in {client[c].session} \ {None} : \E req \in NextRequests(c) :
        /\ Idle
        /\ IsOpen(s)
        /\ Len(rx[s]) < MaxInFlight
        /\ req.op = "chat" => ChatsLeft
        /\ rx' = [rx EXCEPT ![s] = Append(@, req)]
        /\ client' = IF req.op = "match" THEN [client EXCEPT ![c].asked = ~Rematch] ELSE client
        /\ UNCHANGED <<phase, player_id, sent, server_vars>>

-------------------------------------------------------------------------------
(***************************************************************************)
(* Sessions: taking a request, and sending.                                *)
(***************************************************************************)

\* The next request of s is being dispatched.  do_read's completion looks at
\* ec, never at closed_: what was read before a close is dispatched after it,
\* and parse_packet runs through all of it before any other handler runs.
Dispatched(s, op) ==
    /\ fault = "none"
    /\ phase[s] \in {"open", "closed", "draining"}
    /\ \A t \in Sessions \ {s} : phase[t] # "draining"
    /\ rx[s] # <<>>
    /\ Head(rx[s]).op = op

Consume(s) ==
    /\ rx' = [rx EXCEPT ![s] = Tail(@)]
    /\ phase' = IF IsOpen(s) THEN phase
                ELSE [phase EXCEPT ![s] = IF Len(rx[s]) > 1 THEN "draining" ELSE "closed"]

\* Session::send: on an open session a write is outstanding afterwards, for as
\* long as the peer pleases, so its completion needs no step of its own; on a
\* closed session the packet is queued and never written.
Sent(S) == sent' = [s \in Sessions |-> sent[s] \/ (s \in S /\ IsOpen(s))]

\* The client at the other end of s, if any, learns what an open s sends it.
Told(s, c) == client[c].session = s /\ IsOpen(s)

\* PlayerManager::get_session for each of S, then send: at() throws for a player
\* that is not registered, and lock() is null when its session object is gone.
Unregistered(S) == S \ DOMAIN players
Expired(S) == {p \in S \cap DOMAIN players : phase[players[p]] = "done"}
Reachable(S) == Unregistered(S) = {} /\ Expired(S) = {}

Crash(kind) ==
    /\ fault' = kind
    /\ UNCHANGED <<session_vars, registry_vars, queue_vars, room_vars, states, repo, client>>

BroadcastCrash(S) ==
    \/ Unregistered(S) # {} /\ Crash("out_of_range")
    \/ Expired(S) # {} /\ Crash("null_session")

-------------------------------------------------------------------------------
(***************************************************************************)
(* The services.                                                           *)
(***************************************************************************)

\* LoginService::handle_login with a user name.
HandleLogin(s) ==
    LET p == next_player_id IN
    /\ Dispatched(s, "login")
    /\ p <= MaxPlayers
    /\ next_player_id' = NextPlayerId
    /\ player_id' = [player_id EXCEPT ![s] = p]
    /\ add_player(p, s)
    /\ add_session(s)
    /\ Repo!save_new_player(p)
    /\ Sent({s})
    /\ client' = [c \in Clients |->
                    IF Told(s, c) THEN [client[c] EXCEPT !.pid = p, !.asked = FALSE]
                    ELSE client[c]]
    /\ Consume(s)
    /\ UNCHANGED <<queue_vars, room_vars, states, fault>>

\* MatchService::handle_match: the player of the request is turned down, or
\* queued, or queued and popped with the one who waited.
MatchRejected(s) ==
    /\ Dispatched(s, "match")
    /\ Head(rx[s]).arg <= 0 \/ MQ!contains(Head(rx[s]).arg)
    /\ Sent({s})
    /\ Consume(s)
    /\ UNCHANGED <<player_id, registry_vars, queue_vars, room_vars, states, repo, client, fault>>

MatchQueued(s) ==
    LET p == Head(rx[s]).arg IN
    /\ Dispatched(s, "match")
    /\ p > 0
    /\ MQ!Matched(p) = <<>>
    /\ MQ!join_and_pop(p)
    /\ Sent({s})
    /\ Consume(s)
    /\ UNCHANGED <<player_id, registry_vars, room_vars, states, repo, client, fault>>

\* RoomManager::create_room with its notification and its repository update.
RoomCreated(s) ==
    LET p == Head(rx[s]).arg
        seated == Range(MQ!Matched(p))
        notified == {players[q] : q \in seated}
    IN  /\ Dispatched(s, "match")
        /\ p > 0
        /\ seated # {}
        /\ MQ!join_and_pop(p)
        /\ Reachable(seated)
        /\ RM!create_room(seated)
        /\ Repo!save_room(seated, next_room_id)
        /\ Sent(notified \cup {s})
        /\ client' = [c \in Clients |->
                        IF \E t \in notified : Told(t, c)
                        THEN [client[c] EXCEPT !.room = next_room_id]
                        ELSE client[c]]
        /\ Consume(s)
        /\ UNCHANGED <<player_id, registry_vars, states, fault>>

MatchCrashes(s) ==
    LET p == Head(rx[s]).arg IN
    /\ Dispatched(s, "match")
    /\ p > 0
    /\ ~MQ!contains(p)
    /\ next_room_id <= MaxRooms
    /\ BroadcastCrash(Range(MQ!Matched(p)))

HandleMatch(s) ==
    MatchRejected(s) \/ MatchQueued(s) \/ RoomCreated(s) \/ MatchCrashes(s)

\* ChatService::handle_chat: the sender scores, then the room of the request
\* (null when there is none) sends to everyone it lists.
ChatDelivered(s) ==
    LET r == Head(rx[s]).arg IN
    /\ Dispatched(s, "chat")
    /\ r \in DOMAIN rooms
    /\ Reachable(rooms[r].player_ids)
    /\ Repo!add_score(player_id[s])
    /\ Sent({players[q] : q \in rooms[r].player_ids})
    /\ Consume(s)
    /\ UNCHANGED <<player_id, registry_vars, queue_vars, room_vars, states, client, fault>>

ChatCrashes(s) ==
    LET r == Head(rx[s]).arg IN
    /\ Dispatched(s, "chat")
    /\ \/ r \notin DOMAIN rooms /\ Crash("no_room")
       \/ r \in DOMAIN rooms /\ BroadcastCrash(rooms[r].player_ids)

HandleChat(s) == ChatDelivered(s) \/ ChatCrashes(s)

\* ReconnectService::handle_reconnect.
ReconnectRefused(s) ==
    /\ Dispatched(s, "reconnect")
    /\ ~PSM!IsOffline(Head(rx[s]).arg)
    /\ Sent({s})
    /\ Consume(s)
    /\ UNCHANGED <<player_id, registry_vars, queue_vars, room_vars, states, repo, client, fault>>

Reconnected(s) ==
    LET p == Head(rx[s]).arg IN
    /\ Dispatched(s, "reconnect")
    /\ PSM!IsOffline(p)
    /\ player_id' = [player_id EXCEPT ![s] = p]
    /\ add_player(p, s)
    /\ add_session(s)
    /\ RM!mark_player_reconnected(p)
    /\ PSM!mark_online(p)
    /\ Sent({s})
    /\ Consume(s)
    /\ UNCHANGED <<next_player_id, queue_vars, repo, client, fault>>

HandleReconnect(s) == ReconnectRefused(s) \/ Reconnected(s)

\* HeartbeatService, RankingService and the refusals of the others: a reply.
HandlePing(s) ==
    /\ Dispatched(s, "ping")
    /\ Sent({s})
    /\ Consume(s)
    /\ UNCHANGED <<player_id, registry_vars, queue_vars, room_vars, states, repo, client, fault>>

Handle(s) ==
    HandleLogin(s) \/ HandleMatch(s) \/ HandleChat(s) \/ HandleReconnect(s) \/ HandlePing(s)

-------------------------------------------------------------------------------
(***************************************************************************)
(* Closing a session, and the timers.                                      *)
(***************************************************************************)

\* Session::close on an open session, with the callback of do_accept.  Of the
\* requests on the way the first `read` have been read already.
Close(s, read) ==
    LET p == player_id[s] IN
    /\ phase' = [phase EXCEPT ![s] = "closed"]
    /\ rx' = [rx EXCEPT ![s] = SubSeq(@, 1, read)]
    /\ sent' = [sent EXCEPT ![s] = FALSE]
    /\ MQ!leave(p)
    /\ remove_player(p)
    /\ remove_session(s)
    /\ PSM!disconnect(p, RM!get_room_id_by_player(p))
    /\ RM!mark_player_disconnected(p)
    /\ UNCHANGED <<player_id, next_player_id, repo, client, fault>>

AlreadyRead(s) == IF StaleReads THEN 0..Len(rx[s]) ELSE {0}

\* do_read completes with eof or an error: nothing read is left behind.
OnReadError(s) == Idle /\ IsOpen(s) /\ Close(s, 0)

\* do_write completes with an error.
OnWriteError(s) ==
    Idle /\ IsOpen(s) /\ sent[s] /\ \E read \in AlreadyRead(s) : Close(s, read)

\* ConnectionManager::check_timeout finds s silent for more than 15 s.  Only a
\* session in conns is looked at, and close() on a closed one does nothing.
HeartbeatTimeout(s) ==
    Idle /\ s \in conns /\ IsOpen(s) /\ \E read \in AlreadyRead(s) : Close(s, read)

\* The aborted read and write of a closed session have completed and let go of
\* it.  Unless conns holds it the object is destroyed; a weak_ptr in players
\* keeps it from being the same object again.
OnAbort(s) ==
    /\ Idle
    /\ phase[s] = "closed"
    /\ rx[s] = <<>>
    /\ s \notin conns
    /\ phase' = [phase EXCEPT ![s] = IF s \in Range(players) THEN "done" ELSE "free"]
    /\ player_id' = [player_id EXCEPT ![s] = 0]
    /\ client' = [c \in Clients |->
                    IF client[c].session = s THEN [client[c] EXCEPT !.session = None] ELSE client[c]]
    /\ UNCHANGED <<rx, sent, server_vars>>

\* GameServer::check_reconnect_timeout finds p offline for more than 30 s.
ReconnectTimeout(p) ==
    /\ Idle
    /\ PSM!IsOffline(p)
    /\ RM!remove_player(p)
    /\ PSM!remove_player(p)
    /\ UNCHANGED <<session_vars, registry_vars, queue_vars, repo, client, fault>>

-------------------------------------------------------------------------------
ClientStep(c) == StopClient(c) \/ StartClient(c) \/ ReconnectClient(c) \/ ClientSend(c)

SessionStep(s) ==
    Handle(s) \/ OnReadError(s) \/ OnWriteError(s) \/ HeartbeatTimeout(s) \/ OnAbort(s)

Next ==
    \/ \E c \in Clients : ClientStep(c)
    \/ \E s \in Sessions : SessionStep(s)
    \/ \E p \in PlayerIds \cup {0} : ReconnectTimeout(p)

Spec == Init /\ [][Next]_vars

(***************************************************************************)
(* Fairness.  io_.run() executes what is ready, so a dispatched request    *)
(* and the completion of an aborted operation are not postponed for ever;  *)
(* the two timers re-arm every 5 s, so a connection no client uses is in   *)
(* the end found silent and an offline player found overdue.  Clients,     *)
(* connection errors and writes owe nothing.                               *)
(***************************************************************************)
Silent(s) == \A c \in Clients : client[c].session # s

Fairness ==
    /\ \A s \in Sessions :
        /\ WF_vars(Handle(s))
        /\ WF_vars(OnAbort(s))
        /\ WF_vars(Silent(s) /\ HeartbeatTimeout(s))
    /\ \A p \in PlayerIds \cup {0} : WF_vars(ReconnectTimeout(p))

FairSpec == Spec /\ Fairness
===============================================================================
