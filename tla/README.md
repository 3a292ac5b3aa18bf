# A verification project for game_server

TLA+ modules, TLC configurations and TLAPS proofs for the room server of this
repository: a single-threaded Boost.Asio TCP server where clients log in, are
matched two by two into rooms, chat, lose their connection, and reconnect within
30 s or are cleaned up. Line numbers below are those of the files under `src/`.

## 1. The system

| component | state | operations | who calls it |
|---|---|---|---|
| `GameServer` | io_context, timers, everything below | `do_accept` and the close callback, heartbeat check (5 s), reconnection check (5 s), room tick (100 ms) | the event loop |
| `Session` | `player_id_`, `token_`, `recv_buffer_`, `write_queue_`, `closed_`, `last_active_time_` | `do_read`, `parse_packet`, `send`, `do_write`, `close` | asio completions, services, `ConnectionManager` |
| `ConnectionManager` | `sessions_` (owning set) | `add_session`, `remove_session`, `check_timeout` | login, reconnection, close callback, timer |
| `PlayerManager` | `players_`: id -> `weak_ptr<Session>` | `add_player`, `remove_player`, `get_session` | login, reconnection, close callback, rooms |
| `PlayerStateManager` | `states_`: id -> connection state, room, token, time | `save_online`, `mark_disconnected`, `mark_online`, `get_state`, `remove_player` | close callback, reconnection, timer |
| `MemoryPlayerStateRepository` | id -> name, score, room | save, load, `update_score` | login, `create_room`, ranking |
| `MatchQueue` | `queue_` (deque) and `in_queue_` (set) | `join`, `leave`, `contains`, `try_pop_matched_players` | match service, close callback |
| `RoomManager`, `Room` | `rooms_`, `player_room_map_`, `next_room_id_`; per room `player_ids_`, `player_states_` | `create_room`, `remove_player`, marks, `get_room`, `broadcast` | match, chat, reconnection, close callback, timer |
| services (login, match, chat, reconnect, heartbeat, ranking) | the login's id counter | one handler per message | dispatcher |
| client simulator | `player_id_`, `room_id_`, `token_` | login, match on `LoginResp`, chat, heartbeat, reconnect | - |
| `MessageCodec`, `MessageDispatcher` | - | framing, choice of the handler | `Session` |
| `ServerMetrics`, `MetricsReporter` | counters | count, report | everyone |

All handlers run on the one thread of `io_.run()`. So each handler is atomic, the
mutexes of the managers are never contended, and what is hard is not data races but
the *order of handlers*: a read that completed before its session was closed and is
parsed after it; a reconnection that arrives while the old connection is still
served, or just as its window ends; a broadcast that meets a player who has gone; and
the fact that "who is where" is kept in eight structures that every handler updates
one after another. A handler that throws, or dereferences null, ends the process:
neither `parse_packet`, `io_.run()` nor `main` catches anything.

What makes each part correct:

* queue: deque and set agree; a player waits once; a full room never waits;
* rooms: the index never names a missing room; a room ends with its last player;
* registries: one session per player, registered while and only while it is open;
* reconnection: an offline player is not served, and a served one is never evicted;
* the room's flag and the reconnection table agree on who is offline;
* clean-up: no close leaves its player in the queue, an abandoned server has neither
  registrations nor rooms, and a player nobody speaks for is forgotten in the end;
* connection: each direction is a FIFO of messages, whatever TCP and the completions do
  to its bytes, and nothing that is queued waits for ever;
* messages: what is built is read back, and announced with the size it is written with;
* timing: who sends heartbeats is served, there is a time at which a reconnection is
  accepted whatever the checks' phases, who is silent is forgotten within a known time;
* services and metrics: what a client is told was true, and what a report says adds up.

`PROJECT.json` lists under `hazards` where the code is exposed to each, with the
properties that watch it.

## 2. The modules

| module | models |
|---|---|
| `UnorderedMap` | the `std::unordered_map` operations the managers use (external code) |
| `MatchQueue` | `MatchQueue`, with the join-and-pop sequence of `MatchService::handle_match` |
| `RoomManager` | `RoomManager` and the state of `Room` |
| `PlayerStateManager` | the table of reconnection windows |
| `PlayerStateRepository` | score and room of each player, with the load/modify/save of its users |
| `GameServer` | sessions, registries, services, close callback, timers and clients, composing the four above by `INSTANCE` |
| `PlayerPresence` | the abstract specification: the life of a player as its client sees it |
| `MessageCodec` | `encode` and `try_decode` of the codec, byte for byte |
| `Connection` | one TCP connection: `Session`'s buffers, write queue and completions, and the client's reads and writes |
| `MessageChannel` | the abstract specification of one direction of a connection: a FIFO that may break |
| `Protobuf`, `GameMessages` | the wire format, and the messages of `message.proto` with their fields |
| `Selection` | the elements of a sequence at given positions: what these modules use in place of `SelectSeq`, whose recursion no proof can enter |
| `RankingService`, `ServerMetrics` | the ranking of a set of scores; the counters and a report |
| `Protocol` | a connection with dispatcher, heartbeat, ranking, chats of a roommate and metrics, composing the modules above |
| `Timers` | the two limits and the three timers of one player's life, on a clock |
| `ConnectionProps`, `ProtocolProps` | the properties of a connection, the refinement mappings onto `MessageChannel`, and the properties end to end |
| `GameServerProps` | the properties, and the refinement mapping onto `PlayerPresence` |
| `MCMatchQueue`, `MCRoomManager`, `MCGameServer`, `MCProtocol` | small instances for TLC |
| `MatchQueueProofs`, `RoomManagerProofs`, `GameServerProofs`, `GameServerRoomsProofs`, `TimersProofs` | theorems and proofs about queue, rooms, server and timers |
| `MessageProofs`, `ConnectionProofs`, `ProtocolProofs` | theorems and proofs about messages as bytes (codec and generated classes), about one connection, and about the services behind it; each extends the one before |

The three models look at the same server at three distances. `GameServer` has all the
players, and a request is a unit; `Protocol` has one connection down to its bytes, and
the other players only as those who chat into it; `Timers` has one player and the time.
What each leaves open another settles: `GameServer` dispatches whole requests in order,
which is what `RequestsInOrder` says of the bytes; it lets a timer find any session
silent, and `Timers` says which ones a timer can find.

### How GameServer corresponds to the code

*Actions.* `HandleLogin`, `HandleMatch`, `HandleChat`, `HandleReconnect` and
`HandlePing` are the handlers of `GameServer::start`; each is the whole handler, with
every manager it calls. `Close` is `Session::close` on an open session with the
callback of `do_accept` (`GameServer.cpp:111`); it is reached from a read error, a
write error and the heartbeat timer (`OnReadError`, `OnWriteError`,
`HeartbeatTimeout`). `OnAbort` is the moment the last pending operation lets go of a
closed session. `ReconnectTimeout` is `check_reconnect_timeout`. The clients'
actions are `StartClient`, `ReconnectClient`, `ClientSend` and `StopClient`.

*Sessions.* `phase` is "free" (no such object), "open", "closed" (`closed_`, and still
referenced), "draining" (in the middle of the packets of one read after the close;
no other handler runs meanwhile) and "done" (destroyed, but a `weak_ptr` in
`players_` still names it, so it is not taken for a new one). A session whose object is
gone and that nothing names becomes "free" and stands for the next connection.

*Requests after a close.* `do_read`'s completion looks at its error code only
(`Session.cpp:14`). When `close()` is called by another handler, reads that have
completed are parsed later, with all their packets; reads that have not are aborted.
`Close(s, read)` keeps the first `read` requests, any number; `StaleReads = FALSE`
keeps none.

*Writes.* Of the write queue the model keeps `sent`: since its opening something was
sent on this session. A write completes when the peer reads, which may be arbitrarily
late, so from then on a write error may come at any time, and completions change
nothing else.

*Time.* The heartbeat timer may find any session of the set silent, and the
reconnection timer any offline player overdue, at any tick, so no lower bound on 15 s
or 30 s is modelled; the properties hold for all timings. A tick that finds several is a
run of ticks that find one each: the loops of `check_timeout` and
`check_reconnect_timeout` treat their players independently.

*Requests.* "ping" stands for the requests that are answered and change nothing the
model keeps: heartbeat, ranking, a login without a name, a reconnection with a wrong
token. The token is left out because `generate_token` computes it from the id and ids
are not reused. Clients are honest: they name their own id and token. What is
sent to a client on an open session is known to it at once, which lets it ask earlier
than it really could.

*Ids.* Player ids start at 1 instead of 10000; 0 is the anonymous id, as in the code.
The close of a connection that never logged in makes an entry for player 0 in the
reconnection table, as in the code.

*Faults.* `fault` names how the process ended: "out_of_range" (`players_.at()` of an
unregistered player), "null_session" (`lock()` of a destroyed session), "no_room"
(`get_room` of an unknown room). No step follows a fault.

*Client disciplines.* Three constants say what clients and network do, so that each
property can be stated under the weakest discipline it holds for:
`LaterOps` (what a connection asks after its first request; with "login" or
"reconnect" in it a connection may change its player), `Rematch` (a client asks for a
match again after it was matched; the simulator does not), `StaleReads`.

*Bounds.* `MaxPlayers` (logins), `MaxRooms` (rooms), `MaxInFlight` (requests waiting on
a session) and `MaxScore` (the score at which chatting stops) bound the state space
through guards of the clients' actions and of `create_room`.

### How Connection and Protocol correspond to the code

*Bytes.* `up` and `down` are the two streams, with how much of each was read. The
contents are real: headers are written and read by `MessageCodec`, bodies by `Protobuf`,
so a length that is misread or a field that is skipped would show as another message.

*Completions.* asio finishes an operation at one time (`ServerRead`, `WriteTaken`) and
runs its handler at another (`OnRead`, `OnWrite`); any other handler may come between,
also `Close`. A handler cannot be interrupted: `parse_packet`'s loop is the repeated
`HandlePacket`, and while it is under way (`~Idle`) no other handler of the server runs.
After a close, a completed read is still parsed, as in the code.

*The queue.* `send` always appends, and starts a write when the queue was empty; the
completion pops and starts the next. `Notify` is `Room::broadcast` from another session.
A message above `MAX_BODY_SIZE` becomes a packet without a byte, which is queued and
"written" like any other: `RepliesInOrder` is about the messages that fit.

*Short writes.* `ShortWrites` says whether `write_some` may write part of a packet. The
passing run has `FALSE`; with `TRUE` the order and the content of what is delivered are
lost (run `ShortWrite`), while the counters stay right.

*Handlers.* `Handle` is a packet's way through `incr_recv_packet`, the dispatcher and its
handler with the handler's counters; `Chat` is a chat of a roommate on its own session, with
its score; `Report` the report of the metrics. The requests that log in, match, chat and
reconnect are `GameServer`'s. A heartbeat's times and the scores are small numbers;
`ServerTime` is constant, since nothing but the printed line reads it.

*Counters.* `Half` is half the range of a packet counter: 2^31 in the code, 3 in the run so
that the counters wrap. The difference of two wrapped counters overflows an `int`, which is
undefined: `Rates` has both outcomes a build can produce. `HalfMs` is half the range of the
two counters of the round trips, 2^63 in the code and 8 in the run: clients tell their round trips
themselves, and two of 7 wrap the sum. A ranking's length is narrowed from 64 to 32 bits, as
`int top_n = req.top_n()` does (`RankingService.cpp:34`).

*Protobuf.* A class is the sequence of its fields; the four generated functions go through
them in order. The library's varints are modelled at 64 bits, so a negative number takes ten
bytes. An `int32` field (`player_id` and `room_id` of `ReconnectResp`, `message.proto:74`) keeps
the lowest 32 bits of what is set and of what is read (`Narrowed`), and is written extended to 64. Merging, copying, reflection and unknown fields that are kept are left out.

### How Timers corresponds to the code

The clock ticks in half seconds, since limits and ages are compared in whole seconds after
rounding down. A timer is the time until it is due; its handler runs at most `Lag` late, and
arms it again from then, as `expires_after` in the handlers does. `idle` is the age of
`last_active_time_`, `away` that of `disconnected_time`. A heartbeat takes at most `Delay`. The
client beats, or is silent (`stop_heartbeat`, or its end); a silent client may reconnect at any
time, once it does it beats again, and an attempt that the server refuses changes nothing there.
When a client tries is thus left open: `ReconnectWindow` says when it is sure to succeed, with
the run's lag and delay from 23.5 s to 31 s after it fell silent, and not whether a client does so.
(The simulator's `test_reconnect`, which `main` does not call, tries once, 80 s after it was set
up; by `SilentIsForgotten` its player was removed within a minute of its silence.)
`TimingAssumption` is what the properties need: a period, the lag and the delay stay
below the 16 s that a check calls silent.

## 3. The runs

`CHECK_DEADLOCK FALSE` in every run of the server and of the protocol: the process may die
(`fault`), a bounded instance runs out of ids, and a connection may be closed or have nothing
more to say. The two component runs and `Timers` check deadlock.

| run | instance | checks |
|---|---|---|
| `MatchQueue` | 6 players, rooms of 4 | `TypeOK`, `Mirror`, `NeverFull` |
| `RoomManager` | 3 players, 3 rooms | `TypeOK`, `RoomIndex`, `RoomLasts` |
| `Ownership` | 2 clients, 2 sessions, 2 players, 2 requests in flight; login, match and reconnect at any time; stale reads | `TypeOK`, `SingleOwner`, `RoomView`, `NoConnectedEviction` |
| `Presence` | 1 client that restarts, 2 sessions, 3 players, 2 rooms, 2 requests in flight; rematches; stale reads | `RegistryExact`, `ToldRoomExists`, refinement of `PlayerPresence` |
| `Simulator` | 2 clients, 2 sessions, 3 players, 1 room; match and chat as the simulator; stale reads | `NoNullSession`, `RoomsExact`, `Drained`, `QueueEntry` |
| `Reclaim` | 2 clients, 2 sessions, 2 players; match; no stale reads; fairness | `QueueIsOnline`, `AbandonedReclaimed` |
| `ChatToOffline` | as Simulator, 2 players, no stale reads | `BroadcastReaches` is violated |
| `StaleRoomId` | matches and rematches | `RoomRestored` is violated |
| `RematchLeaksRoom` | rematches, 2 rooms | `RoomsDrained` is violated |
| `Protocol` | 2 requests of six (two numbers, none, and an unknown id among their fields), a roommate that chats once, a text that fits and one that does not; reads of 9 and 40 bytes; `MAX_BODY_SIZE` 22, counters of 6 values, a report; fairness | `NoStuckQueue`, `HeartbeatEcho`, `RankingsTrue`, `PacketsCounted`, `AverageRtt`, `RoundTrip`, `SizeExact`, and both directions as `MessageChannel`: `RequestsInOrder`, `RepliesInOrder`, `RequestsHandled`, `RepliesArrive` |
| `Timers` | lag 1 s, delay 2 s; any phase | `BeatingIsServed`, `ReconnectWindow`, `SilentIsForgotten` |
| `ShortWrite` | as Protocol, heartbeats only, short writes | `RepliesInOrder` is violated |

Why the bounds are enough: a room takes two players, so two clients meet every
situation of a room; two sessions are one old and one new connection of a player, or
the connections of two players. Of three players in `Simulator` one can wait, or be seated,
after a connection of another was closed and taken for a new one. Two requests in flight are the smallest stale batch whose
second request sees what the first did. In `Presence` three logins of a
client that restarts put players into overlapping rooms: one of
a room's players may be indexed under another room. `MatchQueue` is run with
rooms of 4, since with 2 at most one player waits and order means nothing.

In `Protocol`, a read of 9 bytes cuts every packet but the empty one, in the header of the
next one too; one of 40 joins two. Two requests and a chat give three packets in the queue,
one of them empty when the chat is too long, and a read, a write and a handler of each in
every order with a close. The sample messages have each kind of field negative, zero, empty,
longer than one length byte, repeated and nested. A body of 22 bytes holds a message of two
numbers, whatever they are, which is what the theorems ask of `MAX_BODY_SIZE`
(`NumbersAssumption`); the longer of the two texts still makes a notice that does not fit. `Timers` has no bound: ages and timers
are bounded by the timers themselves. The numbers of the samples are within the 32 bits of TLC's
integers, so that narrowing changes none of them; the theorems are about all numbers.

Every property of a passing run has a mutant in `PROJECT.json`: a change of one
mapped definition, as a slip in that code would make it, after which TLC finds the
property violated under the same configuration.

### What the violated runs show

1. **A chat to an offline roommate ends the process** (`Room.cpp:31`): `broadcast`
   asks `players_.at()` for everybody in the room, offline players included.
2. **A reconnection reports a stale room** (`PlayerStateManager.cpp:49`): `save_online`
   inserts, and the entry of an earlier disconnection wins.
3. **A rematch leaks a room** (`RoomManager.cpp:97`): the index keeps the first room, so
   nothing ever empties the second.
4. **A short write loses the rest of a packet** (`Session.cpp:60`): the completion pops the
   whole packet, whatever `length` says.

Three more divergences show with the configurations at hand and one more line each:

* *A match request read before the close leaks a queue entry* (`Session.cpp:26`): its player
  waits for ever, and the next one is matched with it, which ends the process. `Simulator`
  with the invariant `QueueIsOnline` alone (against `README.md:250`). `QueueEntry` says that there
  is no other way into the queue than this one and the third below.
* *A login read before the close leaks a session* (`LoginService.cpp:76`), if it was not the first request
  of its connection: a closed session enters the connection set, its player the registry, and
  nothing takes them out. `Ownership` with the invariant
  `conns \subseteq {s \in Sessions : IsOpen(s)}` (against `docs/architecture.md:363`).
* *A match needs no login* (`MatchService.cpp:30`, against `docs/protocol.md:292`): a client whose
  reconnection was refused asks with its old id, and a player that is not registered waits.
  `Simulator` with `Rematch = TRUE`, `StaleReads = FALSE` and the invariant `QueueIsOnline` alone.

Further differences from the documents are modelled as the code has them and need no
run: a player keeps its seat when its connection is lost, since the removal in the close
callback is commented out (`GameServer.cpp:122`, against `docs/architecture.md:411`); and
a chat goes to the room its request names, not to the room of its sender
(`ChatService.cpp:40`, against `docs/protocol.md:377`); numbers of the header are written
lowest byte first (`MessageCodec.cpp:27`), where `docs/protocol.md:37` has them the other
way round; and a body length above the limit is waited for, not answered by a close
(`MessageCodec.cpp:61`, against `docs/protocol.md:61`): `try_decode` never returns `Error`.
A round trip below a millisecond is told as 0 and left out of the average
(`HeartbeatService.cpp:27`), though `record_heartbeat` would take it.

### Fairness

`Fairness` asks for four things. `WF(Handle(s))` and `WF(OnAbort(s))`:
`io_.run()` executes completions that are ready, so a request that was read is
dispatched and an aborted operation completes. `WF(Silent(s) /\ HeartbeatTimeout(s))`:
the heartbeat timer re-arms itself every 5 s, so a session in the set to which no client
belongs is found silent, since nothing but its packets renews its time. For the same
reason `WF(ReconnectTimeout(p))`: an offline player is found overdue unless it comes
back. Nothing is asked of clients, of connection errors, of writes, nor of connections
that have not logged in (the code never times these out).

In `Connection`, the operations that are ready complete and their handlers run (weak
fairness of `ServerRead`, `OnRead`, of a write and `OnWrite`, and of the client's reads), TCP
delivers and a peer that reads lets a socket take more. `[]<>Idle` says that the loop of
`parse_packet` ends, which it does because each round takes bytes off the buffer and nothing
adds any meanwhile. Nobody owes a request, a notice or a close. `Timers` needs no fairness:
its bounds are safety properties of a clock that waits for what is overdue.

## 4. The proofs

For every value of the constants, from the assumptions `BoundsAssumption`,
`DisciplineAssumption`, `NoneAssumption` of `GameServer`, `RoomSizeAssumption` of
`MatchQueue`, `MaxBodySizeAssumption` of `MessageCodec`, the three of `Connection`,
`TimingAssumption` of `Timers`, and of `Protocol` and its properties: `OthersAssumption` (finitely
many players), `ChatsAssumption` (what a chat announces is one of the connection's notices),
`NumbersAssumption` (ids, times and scores are numbers of 64 bits, and two of them fit into a
packet: the code's limit is 1 MB), `HalfAssumption` (a counter of either kind has at least two values) and
`SamplesAssumption` (the sample values are of their fields' types, shorter than 256 MB). The theorems
about a connection that are marked so have the hypothesis `~ShortWrites`: once a packet is written in
part, both sides take messages out of the stream at the wrong places, and the code does not have the
properties of order and content, as the run `ShortWrite` shows for `RepliesInOrder`. `QueueIsDriven` has it
for another reason: `Connection` says what may answer a request, not what may answer such a message.
The counters are right nevertheless, and their theorems do without the hypothesis.

| theorem | says |
|---|---|
| `QueueTypes`, `QueueMirrored`, `QueueNeverFull` | `TypeOK`, `Mirror` and `NeverFull` of the queue |
| `RoomTypes`, `RoomIndexSound`, `RoomsLast` | `TypeOK`, `RoomIndex` and `RoomLasts` of the rooms |
| `TypesCorrect` | `TypeOK` of the composed server |
| `ComponentsSound` | queue mirror and room index hold inside the server |
| `OwnerIsSingle` | `SingleOwner` |
| `NobodyEvicted` | `NoConnectedEviction` |
| `RoomViewAgrees` | `RoomView` |
| `RegistryAgrees`, `NoNullDereference`, `ToldRoomsExist` | `RegistryExact`, `NoNullSession`, `ToldRoomExists`, if `~LoginAnytime` |
| `ServerRefinesPresence` | the server implements `PlayerPresence`, if `~LoginAnytime` |
| `RoomsAgree` | `RoomsExact`, if `~Rematch` |
| `ServerDrains` | `Drained`, if neither `LoginAnytime` nor `Rematch` |
| `QueueEntered` | `QueueEntry`, if `~LoginAnytime` |
| `DecodeEncoded` | `try_decode` gives back what `encode` was given, whatever follows it |
| `ConnectionInvariant`, `QueueIsDriven` | types, framing and `NoStuckQueue` of a connection, if `~ShortWrites` |
| `RequestsAreFramed`, `RepliesAreFramed` | `RequestsInOrder` and `RepliesInOrder`: the connection implements two `MessageChannel`s, one of requests and one of answers, if `~ShortWrites` |
| `ProtocolDelivers` | `Protocol` is a `Connection` with services behind it, and delivers as one, if `~ShortWrites` |
| `ParseSerialize`, `SizeIsLength` | the generated code, for every schema and every message of it: what is serialized is parsed back, and is as long as `ByteSizeLong` says |
| `MessagesRoundTrip`, `SizesAreExact` | `RoundTrip` and `SizeExact`, for any samples |
| `PacketsAreCounted`, `AverageIsMeasured` | `PacketsCounted` and `AverageRtt`, also with short writes |
| `HeartbeatsAreEchoed`, `RankingsStayTrue` | `HeartbeatEcho` and `RankingsTrue`, if `~ShortWrites` |
| `BeatingServed`, `WindowIsOpen`, `SilentForgotten` | the three properties of `Timers` |

*Queue.* `QueueInv` is the three invariants together. `leave` erases the first
occurrence from the deque; that this is the only one is what `Mirror` says, and
`RemoveAtProperties` gives the deque it leaves.

*Rooms.* `RoomInv` is the type invariant, `RoomIndex` and that no room is empty. The types are
needed because a new room's id must be no room's yet, for `insert` would not replace it. For
`RoomLasts` a room that `remove_player` does not name keeps its list, and so must not be empty before
the step either.

*Server, types.* `ServerInv` adds to the types of the sessions and registries the two
component invariants. The lemmas of the component proofs are reused through `INSTANCE`:
what remains is that the server calls the components with players only.

*Ownership.* `SingleOwner` is not inductive. `OwnerInv` adds that every id a session or
the reconnection table knows is below the counter, so that a login's new id is nobody's,
that a free session carries nobody, and that it holds for all ids, not just those within
the bound. With it, the delicate step is `Reconnected`: a second carrier could appear,
but the player must be offline, an offline player has no carrier, and `mark_online` ends
the window in the same handler. `Close` keeps the other half: the window it starts is the
one of a player whose only carrier it closes.

*Eviction and view.* Only `ReconnectTimeout` takes anybody out of the index, and it takes
an offline player, who by `SingleOwner` is served by nobody. `RoomView` needs the same
fact in `RoomCreated`: a room is built with everyone online, and everyone popped is
registered (or the handler would have thrown), so nobody popped is offline.

*Registry* (`~LoginAnytime`). `RegistryExact` fails when a session changes its player, or gets
one after it was closed. `IdentifiedFirst` says why neither happens: the request that gives a
session its player is the first of the connection, and until it is handled nothing was sent to
the session and it is in no set, so no write error and no timer can close it with the request
already read. `NoneExpired` follows: an object that is gone was closed, and the close took it
from `players_`.

*What a client was told* (`~LoginAnytime`). The room of a client must be tied to its player over
the connections it had: `ClientsAgree` relates a client, its session and the request that
identifies it, `ToldIsSeated` keeps the told room for as long as the player is `Live`, that is,
served or within its window. The step that needs both is `RoomCreated`, whose notice goes by way
of the registry to a session, and from there to a client.

*Refinement* (`~LoginAnytime`). A player's status is a function of the id counter, the registry and
the reconnection table, and its seat is the index's. Each handler is shown to move at most one
player's status, or to seat at most two (`PoppedAreTwo`, from the finite set theorems); all others
stutter. `RegistryExact` turns what a close does to a session into what it does to its player.

*Rooms* (`~Rematch`). A player is in one place at most. `AsksOnce`: a request for a match that is on
the way is the only one of its player, who is neither waiting nor seated; who waits is not seated;
and whoever asked is `Spent`: no client has this player and may still ask. Then those who
are popped sit nowhere, so `insert` files all of them under the new room, and the repository,
which knows everybody who logged in (`AllSaved`), has the same.

*Clean-up* (`~LoginAnytime`, `~Rematch`). `SeatedLive`: a seated player is served or has a window.
Who is popped is registered (or the handler throws), so who is seated is served; who is registered
stays so until the close of the session that carries it, which opens the window of its player; and
whoever is taken out of the table has either been taken out of the index too or reconnected. In a server
without open sessions and windows nobody is either, which empties the index and, by `RoomsExact` and
because no room is empty, the rooms; `RegistryExact` empties the registries. A request dispatched
after a close changes none of this.

*Queue entries* (`~LoginAnytime`). `QueueEntered` goes through the steps: a close takes one
player out of the registry and the queue together; nothing else unregisters anybody; and a match adds
the player it names, who by `RegistryExact` is registered if the session that asks carries it. That only registered players
wait (`QueueIsOnline`) is not a theorem: it holds of clients that behave as the simulator when nothing
is dispatched after a close, as the run `Reclaim` shows, and fails otherwise.

*Codec.* Every size below 2^32 and every id below 2^16 survive their bytes; a packet's header is
then found at the head of any buffer that begins with it, and cutting at the size gives the
body. `MaxBodySizeAssumption` is what a size of four bytes needs.

*Framing.* `Framed` is the invariant: there are positions in the stream at which its packets
end, the messages handled are the first of the requests, and the two buffers hold exactly what
was read after the last of these. A read moves bytes from the stream to the buffers'
end; a handled packet moves its position by its size, which `DecodeEncoded` says is the size
`encode` wrote. That the buffers begin where a packet does is what makes each step of
`parse_packet` a `Deliver` of the channel. `NoStuckQueue` needs that a write under
way, or whose handler is to come, is that of a packet still in the queue, also after a close.

*Answers.* `Answered` says the same of the other direction, where the queue is in the way: the answers
that were queued and fit into a packet are those whose bytes were written, those of the packets in the
queue (the first of which may be on its way to the socket or already there), in this order; and what was
written is what the client has been given, what its buffer holds and what it has not read, cut at the
packets' ends. A packet without a byte, of a message that does not fit, passes through the queue
and leaves the stream alone, which is why `Fitting` is in the refinement mapping.

*Generated code.* A varint is read back because the groups of seven bits that `Varint` writes
are those that `ReadVarint` puts together, from the last one; ten groups for a negative number,
whose last is the sign. `Gives(b, ps)` says that `b` is exactly the fields `ps`, *whatever bytes follow
it*: it holds of one field, and of `a \o b` when it holds of both, so it holds of a whole message by
induction on its fields. What is read of a field is what was written of it, since all fields
with its number, and no others, come from its bytes; a default is left out and read
from nothing. Lengths go the same way, field by field. Nothing but the nesting of messages, which is
one deep, is specific to `message.proto`; the lemmas `LoginReqIs` to `RankingRespIs` show that each of
its messages is one of its schema.

*Counters.* A counter `StandsFor` a number when it is whole turns of the counter away from it and in its
range; adding one, wrapped, stands for the number plus one. `CountInv` says what each counter stands for
(`Len(handled)` plus the chats, and so on), that the total at the last report stands for some
number of packets, which is what the reported rates add up to, again up to whole turns, and that sum and
number of the round trips stand for those of `Measured`. From there a rate is the difference of two
counters, and `(n - counted) % (2 * Half) = 0` follows whether or not it overflows. For the counters of
the chats the proof needs that the scores add up to one more when one of them does, which the library
defines by a recursive function over sets. Of the bytes it needs only `CountTypes`: what the server
reads are bytes, what it takes out of them are messages, and a message gets one answer or none.

*Heartbeats.* `EchoInv`: the heartbeat answers queued so far are as many as the heartbeats handled,
and the k-th is the answer to the k-th. Handled requests are the first of those sent, and read answers the
first of those queued (`HandledStarts`, `ReceivedStarts`, from `Framed` and `Answered`), also among the
messages of one kind; and the time that an answer carries is read back by `ParseSerialize`. It needs that
whatever bytes a heartbeat has, the time read from them has 64 bits, and so the answer fits.

*Rankings.* An answer does not say when it was made. `RankInv` therefore keeps the moment
under a quantifier: there are snapshots of the scores, one for each ranking queued, each below the next and
all below the present scores, and each ranking is one of the possible ones for its snapshot. A
ranking of a snapshot is sorted, lists nobody twice and leaves out only who has no more than its last
(`RankingsAreTrue`, from the finite set theorems: an order of all players has every player in it);
that scores only rise gives the comparisons between rankings. A ranking that does not fit into a packet is
skipped together with its snapshot.

*Timers.* `TimersInv` relates each age to a timer: the age a check let pass has grown by at
most the time since that check (`Checked`); a beating client's session is as old as its timer
and the heartbeat on its way say (`Beating`); and `Silent` relates the time of a silent client to the ages the server goes by: while it
is online, to `idle` and the heartbeat on its way; while it is offline, to `away` and the most
that the first stage takes; and when it is gone, the window has passed.

Every invariant and action property of the passing runs but `QueueIsOnline` is stated by one of these
theorems. Only model-checked are this one and the three liveness properties (`AbandonedReclaimed`,
`RequestsHandled`, `RepliesArrive`), since liveness under fairness and `ENABLED` are out of the
prover's reach.

Much of the model is defined by recursion over numbers or sets: varints, fields, sums, selections. The
modules write it as recursive functions, never as `RECURSIVE` operators, and the proofs show once per
function that it exists and what its equations are (`GroupsExist`, `ChainExists`, `SumsExist` and so
on), by induction in the form `Induction` of `MessageProofs`: a set of numbers that contains 0 and the
successor of each member is `Nat`, which follows from the well-foundedness of `<`.

## 5. Not modelled, and why

The room tick, which only counts; accept errors, after which the server accepts nothing
more; the gauges of the metrics, which are copied into a printed line and read by nothing else;
the wording of messages and logs; of the generated code what the program does not use (merging,
copying, swapping, arenas, reflection); the client's second socket in `reconnect()` and the fixed
times of the simulator's scenarios, which belong to a test client. A body length above what TLC's
integers hold cannot be run; what the code does with one (it waits) is in `Complete`, and the
proofs have no such limit. Memory: neither the receive buffer nor the write queue has a bound in
the code. Code nothing calls: `handle_cancel_match` (registered for no message), `remove_room`,
`broadcast_except`, `add_player` of `Room`, `check_token`, `mark_online` and `mark_offline` of the
repository, `print_stat`, `send_ranking_resp`.

## 6. What could follow

1. *Proofs*: how far the theorems on order and content go with short writes (everything up to the
   first one).
2. *Composition*: several connections at the byte level under `GameServer`'s handlers, in place
   of the argument of section 2 that joins the models.
