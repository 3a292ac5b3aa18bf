---------------------------- MODULE GameServerProps ----------------------------
(* What GameServer is expected to guarantee.  Properties that need a discipline *)
(* of the clients (LoginAnytime, Rematch) or of the network (StaleReads) say so; *)
(* the others hold whatever these constants are.                                *)
EXTENDS GameServer

\* The sessions that are open on behalf of player p.
Carriers(p) == {s \in Sessions : IsOpen(s) /\ player_id[s] = p}

Phases == {"free", "open", "closed", "draining", "done"}
ClientType == [session : Sessions \cup {None}, pid : 0..MaxPlayers,
               room : 0..MaxRooms, asked : BOOLEAN]

SessionTypes ==
    /\ phase \in [Sessions -> Phases]
    /\ player_id \in [Sessions -> 0..MaxPlayers]
    /\ rx \in [Sessions -> Seq(Request)]
    /\ sent \in [Sessions -> BOOLEAN]

RegistryTypes ==
    /\ next_player_id \in 1..(MaxPlayers + 1)
    /\ DOMAIN players \subseteq PlayerIds
    /\ \A p \in DOMAIN players : players[p] \in Sessions
    /\ conns \subseteq Sessions

\* The types of all variables; ids stay below the counters they come from.
TypeOK ==
    /\ SessionTypes
    /\ RegistryTypes
    /\ client \in [Clients -> ClientType]
    /\ fault \in {"none", "out_of_range", "null_session", "no_room"}
    /\ MQ!TypeOK /\ RM!TypeOK /\ PSM!TypeOK /\ Repo!TypeOK
    /\ next_room_id <= MaxRooms + 1

\* A player is never served over two connections, and a player whose window is
\* running is not served at all: neither a session nor the registry still carries
\* it.  It is what makes the close callback and the two timeouts, which act by
\* player id, act on the right player -- also when sessions are closed with
\* requests still to be dispatched, or log in twice.
SingleOwner ==
    \A p \in PlayerIds :
        /\ \A s, t \in Carriers(p) : s = t
        /\ PSM!IsOffline(p) => Carriers(p) = {} /\ p \notin DOMAIN players

\* What a step that takes a player out of the room index owes it: no open session
\* carries it, the registry does not list it, and its window ends with the step.
Eviction ==
    \A p \in DOMAIN player_room_map \ DOMAIN player_room_map' :
        /\ Carriers(p) = {}
        /\ p \notin DOMAIN players'
        /\ p \notin DOMAIN states'

\* Nobody loses the seat of a room while connected, whichever timers and requests
\* meet: the player whose window runs out may be reconnecting in the next handler.
NoConnectedEviction == [][Eviction]_vars

\* The room and the reconnection manager never disagree on who is offline, though
\* each keeps its own flag and close, reconnection and timeout update them in turn.
RoomView ==
    \A p \in DOMAIN player_room_map :
        rooms[player_room_map[p]].conn[p] = RM!Offline <=> PSM!IsOffline(p)

-------------------------------------------------------------------------------
\* With ~LoginAnytime: the registry, the connection set and the sessions tell the
\* same story.  players_ maps exactly the players of open sessions to them, and
\* conns holds exactly the open sessions that carry a player.
RegistryExact ==
    /\ DOMAIN players = {p \in PlayerIds : Carriers(p) # {}}
    /\ \A p \in DOMAIN players : players[p] \in Carriers(p)
    /\ conns = {s \in Sessions : IsOpen(s) /\ player_id[s] # 0}

\* With ~LoginAnytime: a broadcast may meet a player that is not registered, but
\* never a registered one whose session object is gone.
NoNullSession == fault # "null_session"

\* With ~LoginAnytime: a room its client was told of exists and lists the client's
\* player for as long as the client is served, so a chat in it finds a room -- also
\* when the index names another room, and when the others of the room are removed.
ToldRoomExists ==
    \A c \in Clients :
        (client[c].room # 0 /\ client[c].session \in Carriers(client[c].pid))
            => /\ client[c].room \in DOMAIN rooms
               /\ client[c].pid \in rooms[client[c].room].player_ids

\* With ~Rematch: rooms, index and repository agree.  A room lists exactly the
\* players indexed under it, at most two, and the repository has their room.
RoomsExact ==
    \A r \in DOMAIN rooms :
        /\ rooms[r].player_ids = {p \in DOMAIN player_room_map : player_room_map[p] = r}
        /\ Cardinality(rooms[r].player_ids) <= 2
        /\ \A p \in rooms[r].player_ids : repo[p].room_id = r

\* With none of the three: only players that can be told of a room wait for one.
QueueIsOnline == \A p \in in_queue : p \in DOMAIN players

\* A match of p is being dispatched from a session that does not carry p: one closed
\* since the request was read, or one whose reconnection was refused.
AskedElsewhere(p) ==
    \E s \in Sessions \ Carriers(p) :
        rx[s] # <<>> /\ Head(rx[s]) = MatchReq(p) /\ rx'[s] = Tail(rx[s])

\* With ~LoginAnytime: there is one way to wait unregistered, and no other step of
\* anybody opens a second: to be asked for by a session that does not carry the
\* player (any more).  No close or timeout leaves a player waiting whom it
\* unregisters, whatever else is on the way.
QueueEntry ==
    [][\A p \in in_queue' \ DOMAIN players' :
          p \in in_queue \ DOMAIN players \/ AskedElsewhere(p)]_vars

\* Nobody is connected and no player's window is running.  Sessions may still be
\* closing, with requests read before to be dispatched.
NobodyLeft ==
    /\ fault = "none"
    /\ \A s \in Sessions : ~IsOpen(s)
    /\ DOMAIN states \subseteq {0}

\* With ~LoginAnytime: then nobody is registered and no session is owned.
RegistryDrained == NobodyLeft => players = <<>> /\ conns = {}

\* With ~LoginAnytime and ~Rematch: then there is no room and no index entry.
RoomsDrained == NobodyLeft => rooms = <<>> /\ player_room_map = <<>>

\* With ~LoginAnytime and ~Rematch: the closes and the timeouts together have left
\* nothing of anybody in the registries and the rooms.
Drained == RegistryDrained /\ RoomsDrained

-------------------------------------------------------------------------------
(* Liveness. *)

\* Player p has logged in and no client will ever speak for it again.
Abandoned(p) ==
    /\ p < next_player_id
    /\ \A c \in Clients : client[c].pid # p
    /\ \A s \in Sessions : \A i \in 1..Len(rx[s]) : rx[s][i] # ReconnectReq(p)

Reclaimed(p) ==
    /\ Carriers(p) = {}
    /\ p \notin DOMAIN players \cup DOMAIN states \cup DOMAIN player_room_map \cup in_queue
    /\ \A r \in DOMAIN rooms : p \notin rooms[r].player_ids

\* With none of the three: a player nobody speaks for is forgotten by every part
\* of the server in the end -- the silent connection is closed, the queue left, the
\* window runs out, the room is left -- unless the process ends before.
AbandonedReclaimed ==
    \A p \in PlayerIds : Abandoned(p) ~> (Reclaimed(p) \/ fault # "none")

-------------------------------------------------------------------------------
(* What the repository's documents say and the code does not do. *)

\* protocol.md, ChatReq: the notification goes to everyone in the room.  No chat
\* and no room notification may meet a player it cannot be sent to.
BroadcastReaches == fault # "out_of_range"

\* benchmark_report.md, reconnection test: room_id is restored.  The room an
\* offline player would be told on reconnection is the room it is seated in.
RoomRestored ==
    \A p \in PlayerIds : PSM!IsOffline(p) => states[p].room_id = RM!get_room_id_by_player(p)

-------------------------------------------------------------------------------
(* Refinement of PlayerPresence. *)

status == [p \in PlayerIds |->
    IF p >= next_player_id THEN "new"
    ELSE IF p \in DOMAIN players THEN "online"
    ELSE IF PSM!IsOffline(p) THEN "offline"
    ELSE "gone"]

seat == [p \in PlayerIds |-> RM!get_room_id_by_player(p)]

Presence ==
    INSTANCE PlayerPresence WITH Players <- PlayerIds, Rooms <- 1..MaxRooms, RoomSize <- 2

\* With ~LoginAnytime: the sessions, registries and timers together give each
\* player the life PlayerPresence describes.
PresenceRefined == Presence!Spec

===============================================================================
