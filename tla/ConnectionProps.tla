---------------------------- MODULE ConnectionProps ----------------------------
(* What a connection guarantees.                                              *)
EXTENDS Connection, Selection

TypeOK ==
    /\ up \in Seq(Byte) /\ taken \in 0..Len(up)
    /\ down \in Seq(Byte) /\ seen \in 0..Len(down)
    /\ read_buffer \in Seq(Byte) /\ recv_buffer \in Seq(Byte) /\ client_buffer \in Seq(Byte)
    /\ closed \in BOOLEAN
    /\ write_queue \in Seq(Seq(Byte)) /\ write \in {"idle", "busy", "done"}
    /\ requests \in Seq(Requests)
    /\ handled \in Seq(Message) /\ replies \in Seq(Message) /\ received \in Seq(Message)

Up == INSTANCE MessageChannel WITH sent <- requests, delivered <- handled, broken <- closed

\* The messages that make a packet.
Fitting(ms) == Selected(ms, {i \in DOMAIN ms : Fits(ms[i])})

Down == INSTANCE MessageChannel
            WITH sent <- Fitting(replies), delivered <- received, broken <- closed

\* With ~ShortWrites: however the stream is cut into reads, the handlers are given
\* the client's requests, whole, once each and in order, also when the session is
\* closed between a read and its handler.
RequestsInOrder == Up!Spec

\* With ~ShortWrites: the client is given what Session::send was given, once each
\* and in order, except the messages that are too long for a packet, although one
\* queue serves the answers and the broadcasts of other sessions.
RepliesInOrder == Down!Spec

\* With ~ShortWrites: every request is handled in the end, unless the session is
\* closed: no cut of the stream leaves parse_packet waiting for what is there.
RequestsHandled == Up!Delivery

\* With ~ShortWrites: every answer and broadcast that fits arrives in the end, unless
\* the session is closed: the chain of completions that empties the queue is never
\* interrupted, not even by a packet without bytes.
RepliesArrive == Down!Delivery

\* An open session has a write outstanding exactly when something is queued: a
\* packet is never left behind by the completion that should have written it, and
\* never more than one is given to the socket.
NoStuckQueue == ~closed => (write_queue # <<>> <=> write # "idle")
===============================================================================
