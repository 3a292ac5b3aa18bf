---------------------------- MODULE MessageChannel ----------------------------
(***************************************************************************)
(* One direction of a connection, as its users see it: what is sent is     *)
(* delivered once each and in the order of sending, and all of it unless   *)
(* the connection breaks.                                                  *)
(***************************************************************************)
EXTENDS Integers, Sequences

VARIABLES
    sent,        \* the messages sent so far
    delivered,   \* the messages delivered so far
    broken       \* the connection has ended

vars == <<sent, delivered, broken>>

Init == sent = <<>> /\ delivered = <<>> /\ broken = FALSE

\* A handler may send several messages.
Extends(new, old) == Len(new) > Len(old) /\ SubSeq(new, 1, Len(old)) = old

Send == Extends(sent', sent) /\ UNCHANGED <<delivered, broken>>

\* The next message arrives; its receiver may send at once, on this channel too.
Deliver ==
    /\ Len(delivered) < Len(sent)
    /\ delivered' = Append(delivered, sent[Len(delivered) + 1])
    /\ UNCHANGED <<sent, broken>>

Break == ~broken /\ broken' = TRUE /\ UNCHANGED <<sent, delivered>>

Next == Send \/ Deliver \/ Break

Spec == Init /\ [][Next]_vars

\* Everything sent is delivered, unless the connection breaks.
Delivery == (Len(delivered) < Len(sent)) ~> (Len(delivered) = Len(sent) \/ broken)
===============================================================================
