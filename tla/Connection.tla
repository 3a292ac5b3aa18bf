------------------------------ MODULE Connection ------------------------------
(***************************************************************************)
(* One TCP connection, byte by byte: the client's writes and reads         *)
(* (client/ClientSimulator.cpp) and the server's Session                   *)
(* (src/net/Session.cpp) with its receive buffer and its write queue.      *)
(*                                                                         *)
(* TCP delivers the bytes of each direction in order; a read may take any  *)
(* part of what is there.  asio completes an operation (ServerRead,        *)
(* WriteTaken) and runs its handler (OnRead, OnWrite) at separate times;   *)
(* other handlers of the server may run between the two, and close() too.  *)
(* What a handler answers is the parameter Replies.                        *)
(***************************************************************************)
EXTENDS MessageCodec

CONSTANTS
    Requests,       \* messages the client may send
    Notices,        \* messages the handlers of other sessions may send here
    Replies(_),     \* the sequences of messages that may answer a message
    ShortWrites,    \* write_some may write part of a packet
    ReadSizes,      \* how much a read may take
    MaxRequests,    \* bound on the requests of the connection
    MaxNotices      \* bound on the notices of the connection

ASSUME RequestsAssumption ==
    Requests \subseteq Message /\ \A m \in Requests : Fits(m) /\ Replies(m) \subseteq Seq(Message)
ASSUME NoticesAssumption == Notices \subseteq Message
ASSUME ReadsAssumption ==
    ShortWrites \in BOOLEAN /\ ReadSizes \subseteq Nat \ {0} /\ MaxRequests \in Nat /\ MaxNotices \in Nat

VARIABLES
    \* the stream to the server
    up,             \* bytes written by the client
    taken,          \* how many of them the server has read
    \* Session
    read_buffer,    \* read_buffer_ of a completed read whose handler has not run
    recv_buffer,    \* recv_buffer_
    closed,         \* closed_
    write_queue,    \* write_queue_, a sequence of packets
    write,          \* async_write_some: "idle", "busy", "done" (its handler not run)
    \* the stream to the client
    down,           \* bytes written by the server
    seen,           \* how many of them the client has read
    client_buffer,  \* recv_buffer_ of the client
    \* history: the messages
    requests,       \* sent by the client
    handled,        \* dispatched by the server
    replies,        \* given to Session::send
    received        \* handled by the client

client_vars == <<down, seen, client_buffer, received>>
reading_vars == <<taken, read_buffer, recv_buffer, handled>>
writing_vars == <<write_queue, write, replies>>
vars == <<up, requests, closed, reading_vars, writing_vars, client_vars>>

HeartbeatReqId == 9001

Init ==
    /\ up = <<>> /\ taken = 0 /\ down = <<>> /\ seen = 0
    /\ read_buffer = <<>> /\ recv_buffer = <<>> /\ client_buffer = <<>>
    /\ closed = FALSE
    /\ write_queue = <<>> /\ write = "idle"
    /\ requests = <<>> /\ handled = <<>> /\ replies = <<>> /\ received = <<>>

\* No handler of the server is in the middle of parse_packet's loop.
Idle == ~Complete(recv_buffer)

\* How much of packet p a call of write_some writes.
Written(p) == IF ShortWrites /\ p # <<>> THEN 1..Len(p) ELSE {Len(p)}

Upto(n, available) == IF n < available THEN n ELSE available

-------------------------------------------------------------------------------
(***************************************************************************)
(* The client.  Heartbeats are written by write_some, whose result it      *)
(* ignores, everything else by boost::asio::write.                         *)
(***************************************************************************)
ClientSend(m) ==
    /\ ~closed
    /\ Len(requests) < MaxRequests
    /\ requests' = Append(requests, m)
    /\ \E n \in IF m.msg_id = HeartbeatReqId THEN Written(encode(m)) ELSE {Len(encode(m))} :
          up' = up \o SubSeq(encode(m), 1, n)
    /\ UNCHANGED <<closed, reading_vars, writing_vars, client_vars>>

\* do_read: what has arrived is appended, and try_parse takes the whole packets
\* one by one (ClientParse) before the next read.
ClientRead(n) ==
    /\ ~Complete(client_buffer)
    /\ seen < Len(down)
    /\ LET m == Upto(n, Len(down) - seen) IN
          /\ seen' = seen + m
          /\ client_buffer' = client_buffer \o SubSeq(down, seen + 1, seen + m)
    /\ UNCHANGED <<up, requests, closed, reading_vars, writing_vars, down, received>>

ClientParse ==
    /\ Complete(client_buffer)
    /\ received' = Append(received, Decoded(client_buffer))
    /\ client_buffer' = Remainder(client_buffer)
    /\ UNCHANGED <<up, requests, closed, reading_vars, writing_vars, down, seen>>

-------------------------------------------------------------------------------
(***************************************************************************)
(* Session: reading.                                                       *)
(***************************************************************************)

\* async_read_some completes.  It is armed by do_read at the end of OnRead.
ServerRead(n) ==
    /\ Idle
    /\ ~closed
    /\ read_buffer = <<>>
    /\ taken < Len(up)
    /\ LET m == Upto(n, Len(up) - taken) IN
          /\ taken' = taken + m
          /\ read_buffer' = SubSeq(up, taken + 1, taken + m)
    /\ UNCHANGED <<up, requests, closed, recv_buffer, handled, writing_vars, client_vars>>

Received == recv_buffer \o read_buffer

\* Its handler runs, also when the session was closed meanwhile.
OnRead ==
    /\ Idle
    /\ read_buffer # <<>>
    /\ recv_buffer' = Received
    /\ read_buffer' = <<>>
    /\ UNCHANGED <<up, requests, closed, taken, handled, writing_vars, client_vars>>

\* Mutant: every send starts a write.
SendAll_Always(ms) ==
    /\ write_queue' = write_queue \o [i \in DOMAIN ms |-> encode(ms[i])]
    /\ write' = IF ms # <<>> /\ ~closed THEN "busy" ELSE write
    /\ replies' = replies \o ms
\* Session::send for each of ms: do_write when the queue was empty.
SendAll(ms) ==
    /\ write_queue' = write_queue \o [i \in DOMAIN ms |-> encode(ms[i])]
    /\ write' = IF write_queue = <<>> /\ ms # <<>> /\ ~closed THEN "busy" ELSE write
    /\ replies' = replies \o ms

\* One round of parse_packet's loop.
HandlePacket ==
    /\ Complete(recv_buffer)
    /\ recv_buffer' = Remainder(recv_buffer)
    /\ handled' = Append(handled, Decoded(recv_buffer))
    /\ \E ms \in Replies(Decoded(recv_buffer)) : SendAll(ms)
    /\ UNCHANGED <<up, requests, closed, taken, read_buffer, client_vars>>

\* A handler of another session sends to this one: Room::broadcast.
Notify(m) ==
    /\ Idle
    /\ Len(replies) < Len(handled) + MaxNotices
    /\ SendAll(<<m>>)
    /\ UNCHANGED <<up, requests, closed, reading_vars, client_vars>>

-------------------------------------------------------------------------------
(***************************************************************************)
(* Session: writing and closing.                                           *)
(***************************************************************************)

\* The socket has taken n bytes of the packet at the front.
WriteTaken(n) ==
    /\ write = "busy"
    /\ ~closed
    /\ n \in Written(Head(write_queue))
    /\ down' = down \o SubSeq(Head(write_queue), 1, n)
    /\ write' = "done"
    /\ UNCHANGED <<up, requests, closed, reading_vars, write_queue, replies, seen, client_buffer, received>>

\* Mutant: the next write is started by the next send only.
NextWrite_None == "idle"
NextWrite == IF Tail(write_queue) = <<>> \/ closed THEN "idle" ELSE "busy"

\* do_write's completion without an error: pop_front, whatever was written.
OnWrite ==
    /\ Idle
    /\ write = "done"
    /\ write_queue' = Tail(write_queue)
    /\ write' = NextWrite
    /\ UNCHANGED <<up, requests, closed, reading_vars, replies, client_vars>>

\* do_write's completion with an error, after a close: the queue stays as it is.
OnWriteAborted ==
    /\ Idle
    /\ closed
    /\ write = "busy"
    /\ write' = "idle"
    /\ UNCHANGED <<up, requests, closed, reading_vars, write_queue, replies, client_vars>>

\* Session::close, from the heartbeat timer or a read or write error.
Close ==
    /\ Idle
    /\ ~closed
    /\ closed' = TRUE
    /\ UNCHANGED <<up, requests, reading_vars, writing_vars, client_vars>>

-------------------------------------------------------------------------------
Writes == \E n \in 0..Len(Head(write_queue)) : WriteTaken(n)

ServerStep ==
    \/ \E n \in ReadSizes : ServerRead(n)
    \/ OnRead \/ HandlePacket
    \/ write = "busy" /\ Writes
    \/ OnWrite \/ OnWriteAborted \/ Close
    \/ \E m \in Notices : Notify(m)

ClientStep ==
    \/ \E m \in Requests : ClientSend(m)
    \/ \E n \in ReadSizes : ClientRead(n)
    \/ ClientParse

Next == ServerStep \/ ClientStep

Spec == Init /\ [][Next]_vars

(***************************************************************************)
(* Fairness.  io_.run() on each side runs what is ready; TCP delivers, and *)
(* a socket whose peer reads takes more.  parse_packet's loop comes to its *)
(* end, which is the weak fairness of HandlePacket.  Nobody owes a         *)
(* request, a notice or a close.                                           *)
(***************************************************************************)
Fairness ==
    /\ WF_vars(\E n \in ReadSizes : ServerRead(n))
    /\ WF_vars(OnRead) /\ []<>Idle
    /\ WF_vars(write = "busy" /\ Writes) /\ WF_vars(OnWrite)
    /\ WF_vars(\E n \in ReadSizes : ClientRead(n)) /\ WF_vars(ClientParse)

FairSpec == Spec /\ Fairness
===============================================================================
