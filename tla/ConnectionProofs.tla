---------------------------- MODULE ConnectionProofs ----------------------------
(***************************************************************************)
(* The framing and the write queue of a connection, for every set of       *)
(* requests, every size of body that a packet's header can carry, every    *)
(* way of cutting the stream into reads and every interleaving, as long as *)
(* a write takes the whole packet: in both directions the connection       *)
(* implements MessageChannel.                                              *)
(***************************************************************************)
EXTENDS ConnectionProps, MessageProofs

\* A stream is the packets of ms, one after another: the i-th ends at e[i].
PacketsOf(ms, stream, e) ==
    /\ e \in [0..Len(ms) -> Nat]
    /\ e[0] = 0 /\ e[Len(ms)] = Len(stream)
    /\ \A i \in 0..Len(ms) : e[i] <= Len(stream)
    /\ \A i \in 1..Len(ms) :
          /\ e[i] = e[i - 1] + Len(encode(ms[i]))
          /\ \A k \in 1..Len(encode(ms[i])) : stream[e[i - 1] + k] = encode(ms[i])[k]

\* The stream to the server is the requests'.
Packets(e) == PacketsOf(requests, up, e)

\* The two buffers hold what was read after the packet handled last.
Buffered(e) ==
    /\ e[Len(handled)] + Len(recv_buffer) + Len(read_buffer) = taken
    /\ \A k \in 1..Len(recv_buffer) : recv_buffer[k] = up[e[Len(handled)] + k]
    /\ \A k \in 1..Len(read_buffer) :
          read_buffer[k] = up[e[Len(handled)] + Len(recv_buffer) + k]

HandledFirst ==
    /\ Len(handled) <= Len(requests)
    /\ \A i \in 1..Len(handled) : handled[i] = requests[i]

Framed == HandledFirst /\ \E e : Packets(e) /\ Buffered(e)

\* What NoStuckQueue needs of a closed session: a write that is under way, or whose
\* handler has not run, is that of a packet still queued.
WriteHasPacket == write # "idle" => write_queue # <<>>

ConnInv == TypeOK /\ Framed /\ NoStuckQueue /\ WriteHasPacket

-------------------------------------------------------------------------------
LEMMA InitConn == Init => ConnInv
<1> SUFFICES ASSUME Init PROVE ConnInv
  OBVIOUS
<1>1. TypeOK
  <2>1. <<>> \in Seq(Byte) /\ <<>> \in Seq(Message) /\ <<>> \in Seq(Requests)
        /\ <<>> \in Seq(Seq(Byte)) /\ 0 \in 0..Len(<<>>)
    BY SMT
  <2> QED BY <2>1, Zenon DEF Init, TypeOK
<1>2. HandledFirst
  BY DEF Init, HandledFirst
<1>3. Packets([i \in 0..0 |-> 0]) /\ Buffered([i \in 0..0 |-> 0])
  BY DEF Init, Packets, PacketsOf, Buffered
<1>4. NoStuckQueue /\ WriteHasPacket
  BY DEF Init, NoStuckQueue, WriteHasPacket
<1> QED BY <1>1, <1>2, <1>3, <1>4 DEF ConnInv, Framed

\* A request that may be sent has a packet.
LEMMA RequestPacket ==
  ASSUME NEW m \in Requests
  PROVE  /\ m \in Message /\ Fits(m)
         /\ encode(m) \in Seq(Byte) /\ Len(encode(m)) \in Nat /\ Len(encode(m)) >= 6
<1>1. m \in Message /\ Fits(m)
  BY RequestsAssumption
<1>2. encode(m) \in Seq(Byte) /\ Len(encode(m)) = 6 + Len(m.body) /\ Len(m.body) \in Nat
  BY <1>1, EncodeShape, MessageParts, Zenon DEF HEADER_SIZE
<1> QED BY <1>1, <1>2, SMT

\* encode gives bytes, also for a message that does not fit.
LEMMA EncodeType ==
  ASSUME NEW m \in Message
  PROVE  encode(m) \in Seq(Byte)
<1>1. CASE Fits(m)
  BY <1>1, EncodeShape
<1>2. CASE ~Fits(m)
  BY <1>2 DEF encode
<1> QED BY <1>1, <1>2

\* The whole of a sequence.
LEMMA WholeSeq ==
  ASSUME NEW S, NEW s \in Seq(S)
  PROVE  SubSeq(s, 1, Len(s)) = s
  BY SMT

LEMMA WiderSeq ==
  ASSUME NEW S, NEW T, S \subseteq T, NEW s \in Seq(S)
  PROVE  s \in Seq(T)
  BY SMT

-------------------------------------------------------------------------------
\* A message more, and its packet at the end of the stream.
LEMMA PacketAppended ==
  ASSUME NEW ms \in Seq(Message), NEW stream \in Seq(Byte), NEW m \in Message, NEW e,
         PacketsOf(ms, stream, e)
  PROVE  \E f : /\ PacketsOf(Append(ms, m), stream \o encode(m), f)
                /\ \A i \in 0..Len(ms) : f[i] = e[i]
<1> DEFINE p == encode(m)
           n == Len(ms)
<1>1. p \in Seq(Byte) /\ Len(p) \in Nat /\ Len(stream) \in Nat /\ n \in Nat
  BY EncodeType, LenProperties
<1> HIDE DEF p, n
<1>2. PICK ns, longer : ns = Append(ms, m) /\ longer = stream \o p
  BY Zenon
<1>3. /\ Len(ns) = n + 1 /\ ns[n + 1] = m /\ \A i \in 1..n : ns[i] = ms[i]
  BY <1>2, AppendProperties DEF n
<1>4. /\ Len(longer) = Len(stream) + Len(p)
      /\ \A k \in 1..Len(stream) : longer[k] = stream[k]
      /\ \A k \in 1..Len(p) : longer[Len(stream) + k] = p[k]
  BY <1>1, <1>2, SeqFacts
<1>5. PICK f : f = [i \in 0..(n + 1) |-> IF i <= n THEN e[i] ELSE Len(stream) + Len(p)]
  OBVIOUS
<1>6. e \in [0..n -> Nat] /\ e[0] = 0 /\ e[n] = Len(stream)
  BY DEF PacketsOf, n
<1>7. /\ f \in [0..(n + 1) -> Nat] /\ f[n + 1] = Len(stream) + Len(p)
      /\ \A i \in 0..n : f[i] = e[i]
  BY <1>1, <1>5, <1>6, SMT
<1> DEFINE P(i) ==
      /\ f[i] = f[i - 1] + Len(encode(ns[i]))
      /\ \A k \in 1..Len(encode(ns[i])) : longer[f[i - 1] + k] = encode(ns[i])[k]
<1>8. ASSUME NEW i \in 1..n PROVE P(i)
  <2> DEFINE q == encode(ms[i])
  <2>1. ns[i] = ms[i] /\ ms[i] \in Message
    BY <1>3, ElementOfSeq DEF n
  <2>2. Len(q) \in Nat
    BY <2>1, EncodeType, LenProperties
  <2>3. e[i] = e[i - 1] + Len(q) /\ \A k \in 1..Len(q) : stream[e[i - 1] + k] = q[k]
    BY Zenon DEF PacketsOf, n
  <2> HIDE DEF q
  <2>4. f[i] = e[i] /\ f[i - 1] = e[i - 1] /\ e[i] \in Nat /\ e[i - 1] \in Nat
    BY <1>1, <1>6, <1>7, SMT
  <2>5. e[i] <= Len(stream)
    BY <1>1, SMT DEF PacketsOf, n
  <2>6. \A k \in 1..Len(q) : e[i - 1] + k \in 1..Len(stream)
    BY <1>1, <2>2, <2>3, <2>4, <2>5, SMT
  <2>7. \A k \in 1..Len(q) : longer[e[i - 1] + k] = q[k]
    BY <2>3, <2>6, <1>4, Zenon
  <2> QED BY <2>1, <2>3, <2>4, <2>7, Zenon DEF q
<1>9. P(n + 1)
  <2>1. (n + 1) - 1 = n /\ f[n] = Len(stream)
    BY <1>1, <1>6, <1>7, SMT
  <2>2. encode(ns[n + 1]) = p
    BY <1>3, Zenon DEF p
  <2>3. f[n + 1] = f[n] + Len(p) /\ \A k \in 1..Len(p) : longer[f[n] + k] = p[k]
    BY <2>1, <1>4, <1>7, Zenon
  <2> QED BY <2>1, <2>2, <2>3, Zenon
<1>10. f[0] = 0 /\ f[n + 1] = Len(longer)
  BY <1>1, <1>4, <1>6, <1>7, SMT
<1>11. \A i \in 0..(n + 1) : f[i] <= Len(longer)
  <2>1. \A i \in 0..n : e[i] <= Len(stream) /\ e[i] \in Nat
    BY <1>6, Zenon DEF PacketsOf, n
  <2>2. \A i \in 0..(n + 1) : i \in 0..n \/ i = n + 1
    BY <1>1, SMT
  <2>3. ASSUME NEW i \in 0..n PROVE f[i] <= Len(longer)
    <3>1. f[i] = e[i] /\ e[i] <= Len(stream) /\ e[i] \in Nat
      BY <2>1, <1>7
    <3> QED BY <3>1, <1>1, <1>4, SMT
  <2>4. f[n + 1] <= Len(longer)
    BY <1>1, <1>4, <1>7, SMT
  <2> QED BY <2>2, <2>3, <2>4, Zenon
<1> HIDE DEF P
<1>12. \A i \in 1..(n + 1) : P(i)
  <2>1. \A i \in 1..(n + 1) : i \in 1..n \/ i = n + 1
    BY <1>1, SMT
  <2> QED BY <2>1, <1>8, <1>9, Zenon
<1>13. PacketsOf(ns, longer, f)
  BY <1>3, <1>7, <1>10, <1>11, <1>12, Zenon DEF PacketsOf, P
<1> QED BY <1>2, <1>7, <1>13, Zenon DEF p, n

\* A buffer begins with the packet of the message after the first h.
TakesNext(ms, e, h, b) ==
    /\ h + 1 \in 1..Len(ms) /\ ms[h + 1] \in Message
    /\ Decoded(b) = ms[h + 1]
    /\ PacketSize(b) = Len(encode(ms[h + 1])) /\ Len(encode(ms[h + 1])) <= Len(b)
    /\ e[h + 1] = e[h] + Len(encode(ms[h + 1])) /\ Len(encode(ms[h + 1])) \in Nat

\* A packet that is found in a buffer is the next message's: its header is the one
\* that encode wrote, since the stream at this place is its packet.
LEMMA NextPacket ==
  ASSUME NEW ms \in Seq(Message), \A i \in 1..Len(ms) : Fits(ms[i]),
         NEW stream \in Seq(Byte), NEW e, PacketsOf(ms, stream, e),
         NEW h \in 0..Len(ms), NEW b \in Seq(Byte), Complete(b),
         e[h] + Len(b) <= Len(stream), \A k \in 1..Len(b) : b[k] = stream[e[h] + k]
  PROVE  TakesNext(ms, e, h, b)
<1> DEFINE n == Len(ms)
           r == Len(b)
           m == ms[h + 1]
<1>1. n \in Nat /\ h \in 0..n /\ r \in Nat /\ Len(stream) \in Nat
  BY LenProperties
<1>2. e[h] \in Nat /\ e[n] = Len(stream) /\ e[h] + r <= Len(stream)
  BY Zenon DEF PacketsOf
<1>3. r >= 6
  BY SMT DEF Complete, HEADER_SIZE
<1> HIDE DEF n, r
<1>4. h + 1 \in 1..n
  <2>1. h # n
    BY <1>1, <1>2, <1>3, SMT
  <2> QED BY <2>1, <1>1, SMT
<1>5. m \in Message /\ Fits(m)
  BY <1>4, ElementOfSeq DEF n
<1>6. /\ e[h + 1] = e[h] + Len(encode(m))
      /\ \A k \in 1..Len(encode(m)) : stream[e[h] + k] = encode(m)[k]
  <2>1. (h + 1) - 1 = h
    BY <1>1, SMT
  <2> QED BY <2>1, <1>4, Zenon DEF PacketsOf, n
<1>7. Len(encode(m)) \in Nat
  BY <1>5, EncodeType, LenProperties
<1>8. Begins(b, m)
  <2>1. \A k \in 1..r : k <= Len(encode(m)) => k \in 1..Len(encode(m))
    BY <1>7, <1>1, SMT
  <2> QED BY <2>1, <1>6, Zenon DEF Begins, r
<1>9. PacketSize(b) = Len(encode(m)) /\ Len(encode(m)) <= r /\ Decoded(b) = m
  BY <1>5, <1>8, DecodeEncoded, Zenon DEF r
<1> QED BY <1>4, <1>5, <1>6, <1>7, <1>9, Zenon DEF n, r, TakesNext

-------------------------------------------------------------------------------
\* A request adds its packet to the stream, behind whatever is buffered.
LEMMA ClientSendKeeps ==
  ASSUME ConnInv, ~ShortWrites, NEW m \in Requests, ClientSend(m)
  PROVE  TypeOK' /\ Framed'
<1> DEFINE p == encode(m)
           n == Len(requests)
<1>1. /\ m \in Message /\ p \in Seq(Byte) /\ Len(p) \in Nat
  BY RequestPacket
<1>2. up \in Seq(Byte) /\ requests \in Seq(Requests) /\ n \in Nat
  BY DEF ConnInv, TypeOK
<1>3. requests' = Append(requests, m) /\ up' = up \o p
  <2>1. PICK k \in {Len(p)} : up' = up \o SubSeq(p, 1, k)
    BY DEF ClientSend, Written
  <2>2. SubSeq(p, 1, Len(p)) = p
    BY <1>1, WholeSeq
  <2> QED BY <2>1, <2>2 DEF ClientSend
<1>4. UNCHANGED <<closed, reading_vars, writing_vars, client_vars>>
  BY DEF ClientSend
<1> HIDE DEF p, n
<1>5. /\ requests' \in Seq(Requests) /\ Len(requests') = n + 1
      /\ requests'[n + 1] = m /\ \A i \in 1..n : requests'[i] = requests[i]
  BY <1>2, <1>3, SMT DEF n
<1>6. /\ up' \in Seq(Byte) /\ Len(up') = Len(up) + Len(p)
      /\ \A k \in 1..Len(up) : up'[k] = up[k]
      /\ \A k \in 1..Len(p) : up'[Len(up) + k] = p[k]
  <2>1. /\ up \o p \in Seq(Byte) /\ Len(up \o p) = Len(up) + Len(p)
        /\ \A k \in 1..Len(up) : (up \o p)[k] = up[k]
        /\ \A k \in 1..Len(p) : (up \o p)[Len(up) + k] = p[k]
    BY <1>1, <1>2, SeqFacts, SMT
  <2> QED BY <2>1, <1>3, Zenon
<1>7. TypeOK'
  BY <1>1, <1>4, <1>5, <1>6, SMT DEF ConnInv, TypeOK, reading_vars, writing_vars, client_vars
<1>8. PICK e : Packets(e) /\ Buffered(e)
  BY DEF ConnInv, Framed
<1>e. e \in [0..n -> Nat] /\ Len(up) \in Nat
  BY <1>2, <1>8, LenProperties DEF Packets, PacketsOf, n
<1>9. PICK f : Packets(f)' /\ \A i \in 0..n : f[i] = e[i]
  <2>1. requests \in Seq(Message)
    BY <1>2, RequestsAssumption, WiderSeq
  <2>2. PICK f : /\ PacketsOf(Append(requests, m), up \o encode(m), f)
                 /\ \A i \in 0..Len(requests) : f[i] = e[i]
    BY <2>1, <1>1, <1>2, <1>8, PacketAppended DEF Packets
  <2> QED BY <2>2, <1>3, Zenon DEF Packets, p, n
<1>f. \A i \in 0..n : f[i] = e[i]
  BY <1>9
<1>10. Buffered(f)'
  <2> DEFINE h == Len(handled)
             r == Len(recv_buffer)
             b == Len(read_buffer)
  <2>1. /\ h \in 0..n /\ r \in Nat /\ b \in Nat /\ taken \in 0..Len(up)
        /\ UNCHANGED <<handled, recv_buffer, read_buffer, taken>>
    BY <1>4, SMT DEF ConnInv, Framed, HandledFirst, TypeOK, n, reading_vars
  <2>2. /\ e[h] + r + b = taken /\ e[h] \in Nat
        /\ \A k \in 1..r : recv_buffer[k] = up[e[h] + k]
        /\ \A k \in 1..b : read_buffer[k] = up[e[h] + r + k]
    BY <1>8, <1>e, <2>1 DEF Buffered
  <2> HIDE DEF h, r, b
  <2>3. f[h] = e[h]
    BY <2>1, <1>f, Zenon
  <2>4. /\ \A k \in 1..r : e[h] + k \in 1..Len(up)
        /\ \A k \in 1..b : e[h] + r + k \in 1..Len(up)
    BY <2>1, <2>2, <1>e, SMT
  <2>5. /\ \A k \in 1..r : recv_buffer[k] = up'[e[h] + k]
        /\ \A k \in 1..b : read_buffer[k] = up'[e[h] + r + k]
    BY <2>2, <2>4, <1>6, Zenon
  <2> QED BY <2>1, <2>2, <2>3, <2>5, Zenon DEF Buffered, h, r, b
<1>11. HandledFirst'
  <2> DEFINE h == Len(handled)
  <2>1. h <= n /\ \A i \in 1..h : handled[i] = requests[i]
    BY Zenon DEF ConnInv, Framed, HandledFirst, n
  <2>2. handled' = handled /\ h \in Nat
    BY <1>4, SMT DEF reading_vars, ConnInv, TypeOK
  <2> HIDE DEF h
  <2>3. h <= n + 1 /\ \A i \in 1..h : i \in 1..n
    BY <2>1, <2>2, <1>2, SMT
  <2>4. \A i \in 1..h : handled[i] = requests'[i]
    BY <2>1, <2>3, <1>5, Zenon
  <2> QED BY <2>2, <2>3, <2>4, <1>5, Zenon DEF HandledFirst, h
<1> QED BY <1>7, <1>9, <1>10, <1>11 DEF Framed

\* What the buffers and the history have to do with the stream.
LEMMA Position ==
  ASSUME TypeOK, HandledFirst, NEW e, Packets(e), Buffered(e)
  PROVE  /\ Len(handled) \in 0..Len(requests) /\ Len(requests) \in Nat /\ Len(up) \in Nat
         /\ Len(recv_buffer) \in Nat /\ Len(read_buffer) \in Nat
         /\ e[Len(handled)] \in Nat
         /\ e[Len(handled)] + Len(recv_buffer) + Len(read_buffer) = taken
         /\ taken \in Nat /\ taken <= Len(up)
<1>1. /\ Len(handled) \in Nat /\ Len(requests) \in Nat /\ Len(up) \in Nat
      /\ Len(recv_buffer) \in Nat /\ Len(read_buffer) \in Nat
      /\ taken \in Nat /\ taken <= Len(up)
  BY SMT DEF TypeOK
<1>2. Len(handled) \in 0..Len(requests)
  BY <1>1, SMT DEF HandledFirst
<1>3. e[Len(handled)] \in Nat
  BY <1>2, Zenon DEF Packets, PacketsOf
<1> QED BY <1>1, <1>2, <1>3, Zenon DEF Buffered

\* A read goes on where the buffers end.
LEMMA ServerReadKeeps ==
  ASSUME ConnInv, NEW n \in ReadSizes, ServerRead(n)
  PROVE  TypeOK' /\ Framed'
<1>1. PICK e : Packets(e) /\ Buffered(e)
  BY DEF ConnInv, Framed
<1> DEFINE h == Len(handled)
           r == Len(recv_buffer)
<1>2. /\ e[h] \in Nat /\ r \in Nat /\ e[h] + r = taken
      /\ taken \in Nat /\ taken < Len(up) /\ Len(up) \in Nat /\ read_buffer = <<>>
  BY <1>1, Position, SMT DEF ConnInv, Framed, ServerRead
<1>3. PICK m \in Nat : /\ m <= Len(up) - taken
                       /\ taken' = taken + m /\ read_buffer' = SubSeq(up, taken + 1, taken + m)
  <2>1. n \in Nat
    BY ReadsAssumption
  <2>2. Upto(n, Len(up) - taken) \in Nat /\ Upto(n, Len(up) - taken) <= Len(up) - taken
    BY <2>1, <1>2, SMT DEF Upto
  <2> QED BY <2>2, Zenon DEF ServerRead
<1>4. /\ read_buffer' \in Seq(Byte) /\ Len(read_buffer') = m
      /\ \A k \in 1..m : read_buffer'[k] = up[taken + k]
  <2>1. up \in Seq(Byte) /\ taken + m <= Len(up)
    BY <1>2, <1>3, SMT DEF ConnInv, TypeOK
  <2>2. /\ SubSeq(up, taken + 1, taken + m) \in Seq(Byte)
        /\ Len(SubSeq(up, taken + 1, taken + m)) = m
        /\ \A k \in 1..m : SubSeq(up, taken + 1, taken + m)[k] = up[taken + k]
    BY <2>1, <1>2, SubSeqFacts, SMT
  <2> QED BY <2>2, <1>3, Zenon
<1>5. UNCHANGED <<up, requests, closed, recv_buffer, handled, writing_vars, client_vars>>
  BY Zenon DEF ServerRead
<1>6. taken' \in 0..Len(up)
  BY <1>2, <1>3, SMT
<1>7. TypeOK'
  BY <1>4, <1>5, <1>6, Zenon DEF ConnInv, TypeOK, writing_vars, client_vars
<1>8. Packets(e)'
  BY <1>1, <1>5, Zenon DEF Packets
<1>9. Buffered(e)'
  <2>1. e[h] + r + m = taken'
    BY <1>2, <1>3, SMT
  <2>2. \A k \in 1..r : recv_buffer[k] = up[e[h] + k]
    BY <1>1 DEF Buffered
  <2> HIDE DEF r, h
  <2>3. \A k \in 1..m : read_buffer'[k] = up[e[h] + r + k]
    BY <1>2, <1>4, Zenon
  <2> QED BY <2>1, <2>2, <2>3, <1>4, <1>5, Zenon DEF Buffered, r, h
<1>10. HandledFirst'
  BY <1>5, Zenon DEF ConnInv, Framed, HandledFirst
<1> QED BY <1>7, <1>8, <1>9, <1>10 DEF Framed

\* The handler of a read joins the two buffers.
LEMMA OnReadKeeps ==
  ASSUME ConnInv, OnRead
  PROVE  TypeOK' /\ Framed'
<1>1. PICK e : Packets(e) /\ Buffered(e)
  BY DEF ConnInv, Framed
<1> DEFINE h == Len(handled)
           r == Len(recv_buffer)
           b == Len(read_buffer)
<1>2. /\ e[h] \in Nat /\ r \in Nat /\ b \in Nat /\ e[h] + r + b = taken
      /\ \A k \in 1..r : recv_buffer[k] = up[e[h] + k]
      /\ \A k \in 1..b : read_buffer[k] = up[e[h] + r + k]
  BY <1>1, Position, Zenon DEF ConnInv, Framed, Buffered
<1>3. UNCHANGED <<up, requests, closed, taken, handled, writing_vars, client_vars>>
  BY Zenon DEF OnRead
<1>4. read_buffer' = <<>> /\ recv_buffer' = recv_buffer \o read_buffer
  BY Zenon DEF OnRead, Received
<1>5. recv_buffer \in Seq(Byte) /\ read_buffer \in Seq(Byte)
  BY Zenon DEF ConnInv, TypeOK
<1>6. /\ recv_buffer' \in Seq(Byte) /\ Len(recv_buffer') = r + b
      /\ \A k \in 1..r : recv_buffer'[k] = recv_buffer[k]
      /\ \A k \in 1..b : recv_buffer'[r + k] = read_buffer[k]
  <2>1. /\ recv_buffer \o read_buffer \in Seq(Byte)
        /\ Len(recv_buffer \o read_buffer) = r + b
        /\ \A k \in 1..r : (recv_buffer \o read_buffer)[k] = recv_buffer[k]
        /\ \A k \in 1..b : (recv_buffer \o read_buffer)[r + k] = read_buffer[k]
    BY <1>5, SeqFacts, SMT
  <2> QED BY <2>1, <1>4, Zenon
<1>7. read_buffer' \in Seq(Byte) /\ Len(read_buffer') = 0
  BY <1>4, SMT
<1>8. TypeOK'
  BY <1>3, <1>6, <1>7, Zenon DEF ConnInv, TypeOK, writing_vars, client_vars
<1>9. Packets(e)'
  BY <1>1, <1>3, Zenon DEF Packets
<1>10. Buffered(e)'
  <2> HIDE DEF h, r, b
  <2>1. ASSUME NEW k \in 1..(r + b) PROVE recv_buffer'[k] = up[e[h] + k]
    <3>1. CASE k \in 1..r
      BY <3>1, <1>2, <1>6, Zenon
    <3>2. CASE k \notin 1..r
      <4>1. PICK j \in 1..b : k = r + j
        <5>1. k - r \in 1..b /\ k = r + (k - r)
          BY <3>2, <1>2, SMT
        <5> QED BY <5>1, Zenon
      <4>2. e[h] + r + j = e[h] + k
        BY <4>1, <1>2, SMT
      <4> QED BY <4>1, <4>2, <1>2, <1>6, Zenon
    <3> QED BY <3>1, <3>2
  <2>2. e[h] + (r + b) + 0 = taken
    BY <1>2, SMT
  <2>3. \A k \in 1..0 : read_buffer'[k] = up[e[h] + (r + b) + k]
    BY SMT
  <2> QED BY <2>1, <2>2, <2>3, <1>3, <1>6, <1>7, Zenon DEF Buffered, h
<1>11. HandledFirst'
  BY <1>3, Zenon DEF ConnInv, Framed, HandledFirst
<1> QED BY <1>8, <1>9, <1>10, <1>11 DEF Framed

-------------------------------------------------------------------------------
\* What send adds to the queue keeps it driven.
LEMMA SendAllKeeps ==
  ASSUME TypeOK, NoStuckQueue, WriteHasPacket, NEW ms \in Seq(Message), SendAll(ms),
         UNCHANGED closed
  PROVE  /\ write_queue' \in Seq(Seq(Byte)) /\ write' \in {"idle", "busy", "done"}
         /\ replies' \in Seq(Message)
         /\ NoStuckQueue' /\ WriteHasPacket'
<1> DEFINE ps == [i \in DOMAIN ms |-> encode(ms[i])]
<1>1. ps \in Seq(Seq(Byte)) /\ Len(ps) = Len(ms) /\ Len(ms) \in Nat
  <2>1. ASSUME NEW i \in 1..Len(ms) PROVE encode(ms[i]) \in Seq(Byte)
    <3>1. ms[i] \in Message
      BY SMT
    <3> QED BY <3>1, EncodeType
  <2> DEFINE packet(i) == encode(ms[i])
  <2>2. \A i \in 1..Len(ms) : packet(i) \in Seq(Byte)
    BY <2>1
  <2> HIDE DEF packet
  <2>3. /\ [i \in DOMAIN ms |-> packet(i)] \in Seq(Seq(Byte))
        /\ Len([i \in DOMAIN ms |-> packet(i)]) = Len(ms) /\ Len(ms) \in Nat
    BY <2>2, SMT
  <2> QED BY <2>3 DEF packet
<1>2. write_queue \in Seq(Seq(Byte)) /\ write \in {"idle", "busy", "done"}
      /\ replies \in Seq(Message) /\ closed \in BOOLEAN
  BY Zenon DEF TypeOK
<1>3. /\ write_queue' = write_queue \o ps /\ replies' = replies \o ms
      /\ write' = IF write_queue = <<>> /\ ms # <<>> /\ ~closed THEN "busy" ELSE write
  BY Zenon DEF SendAll
<1> HIDE DEF ps
<1>4. write_queue' \in Seq(Seq(Byte)) /\ Len(write_queue') = Len(write_queue) + Len(ps)
  <2>1. /\ write_queue \o ps \in Seq(Seq(Byte))
        /\ Len(write_queue \o ps) = Len(write_queue) + Len(ps)
    BY <1>1, <1>2, SeqFacts, Zenon
  <2> QED BY <2>1, <1>3, Zenon
<1>5. replies' \in Seq(Message)
  BY <1>2, <1>3, SMT
<1>6. /\ write_queue = <<>> <=> Len(write_queue) = 0
      /\ write_queue' = <<>> <=> Len(write_queue') = 0
      /\ ms = <<>> <=> Len(ms) = 0
      /\ Len(write_queue) \in Nat
  BY <1>2, <1>4, SMT
<1>7. write_queue' = <<>> <=> write_queue = <<>> /\ ms = <<>>
  BY <1>1, <1>4, <1>6, SMT
<1>8. NoStuckQueue' /\ WriteHasPacket'
  BY <1>2, <1>3, <1>7, Zenon DEF NoStuckQueue, WriteHasPacket
<1> QED BY <1>2, <1>3, <1>4, <1>5, <1>8, Zenon

\* A packet that is taken from the buffer is the next request.
LEMMA NextRequest ==
  ASSUME ConnInv, Complete(recv_buffer), NEW e, Packets(e), Buffered(e)
  PROVE  LET h == Len(handled) m == requests[Len(handled) + 1] IN
         /\ h + 1 \in 1..Len(requests) /\ m \in Requests
         /\ Decoded(recv_buffer) = m
         /\ PacketSize(recv_buffer) = Len(encode(m)) /\ Len(encode(m)) <= Len(recv_buffer)
         /\ e[h + 1] = e[h] + Len(encode(m)) /\ Len(encode(m)) \in Nat
<1> DEFINE h == Len(handled)
<1>1. /\ requests \in Seq(Requests) /\ up \in Seq(Byte) /\ recv_buffer \in Seq(Byte)
      /\ requests \in Seq(Message)
  BY RequestsAssumption, WiderSeq, Zenon DEF ConnInv, TypeOK
<1>2. \A i \in 1..Len(requests) : requests[i] \in Requests /\ Fits(requests[i])
  BY <1>1, ElementOfSeq, RequestsAssumption
<1>3. h \in 0..Len(requests) /\ e[h] + Len(recv_buffer) <= Len(up)
  <2>1. /\ h \in 0..Len(requests) /\ Len(recv_buffer) \in Nat /\ Len(read_buffer) \in Nat
        /\ e[h] \in Nat /\ e[h] + Len(recv_buffer) + Len(read_buffer) = taken
        /\ taken \in Nat /\ taken <= Len(up) /\ Len(up) \in Nat
    BY Position, Zenon DEF ConnInv, Framed
  <2> HIDE DEF h
  <2> QED BY <2>1, SMT
<1>4. \A k \in 1..Len(recv_buffer) : recv_buffer[k] = up[e[h] + k]
  BY Zenon DEF Buffered
<1>5. Complete(recv_buffer) /\ PacketsOf(requests, up, e)
  BY DEF Packets
<1>6. \A i \in 1..Len(requests) : Fits(requests[i])
  BY <1>2
<1>7. TakesNext(requests, e, h, recv_buffer)
  <2> HIDE DEF h
  <2> QED BY <1>1, <1>3, <1>4, <1>5, <1>6, NextPacket, Zenon
<1> QED BY <1>2, <1>7, Zenon DEF TakesNext

\* It is handled, and the buffer begins where the request after it does.
LEMMA HandlePacketKeeps ==
  ASSUME ConnInv, HandlePacket
  PROVE  ConnInv'
<1>1. PICK e : Packets(e) /\ Buffered(e)
  BY DEF ConnInv, Framed
<1> DEFINE h == Len(handled)
           r == Len(recv_buffer)
           m == requests[h + 1]
           p == Len(encode(m))
<1>2. /\ h + 1 \in 1..Len(requests) /\ m \in Requests
      /\ Decoded(recv_buffer) = m /\ PacketSize(recv_buffer) = p /\ p <= r
      /\ e[h + 1] = e[h] + p /\ p \in Nat
  <2>1. Complete(recv_buffer)
    BY DEF HandlePacket
  <2> QED BY <1>1, <2>1, NextRequest, Zenon
<1>3. /\ h \in Nat /\ r \in Nat /\ Len(read_buffer) \in Nat
      /\ e[h] \in Nat /\ e[h] + r + Len(read_buffer) = taken
      /\ \A k \in 1..r : recv_buffer[k] = up[e[h] + k]
      /\ \A k \in 1..Len(read_buffer) : read_buffer[k] = up[e[h] + r + k]
  <2>1. h \in 0..Len(requests) /\ \A k \in 0..Len(requests) : k \in Nat
    BY <1>1, Position, SMT DEF ConnInv, Framed
  <2> QED BY <2>1, <1>1, Position, Zenon DEF ConnInv, Framed, Buffered
<1>4. /\ recv_buffer' = SubSeq(recv_buffer, p + 1, r) /\ handled' = Append(handled, m)
      /\ UNCHANGED <<up, requests, closed, taken, read_buffer, client_vars>>
  BY <1>2, Zenon DEF HandlePacket, Remainder
<1>5. m \in Message /\ Replies(m) \subseteq Seq(Message)
  BY <1>2, RequestsAssumption
<1>6. PICK ms \in Seq(Message) : SendAll(ms)
  BY <1>2, <1>5, Zenon DEF HandlePacket
<1>7. /\ write_queue' \in Seq(Seq(Byte)) /\ write' \in {"idle", "busy", "done"}
      /\ replies' \in Seq(Message) /\ NoStuckQueue' /\ WriteHasPacket'
  BY <1>4, <1>6, SendAllKeeps, Zenon DEF ConnInv
<1>8. handled \in Seq(Message) /\ recv_buffer \in Seq(Byte)
  BY Zenon DEF ConnInv, TypeOK
<1> HIDE DEF m, p
<1>9. /\ handled' \in Seq(Message) /\ Len(handled') = h + 1
      /\ handled'[h + 1] = m /\ \A i \in 1..h : handled'[i] = handled[i]
  BY <1>4, <1>5, <1>8, SMT
<1>10. /\ recv_buffer' \in Seq(Byte) /\ Len(recv_buffer') = r - p /\ r - p \in Nat
       /\ \A k \in 1..(r - p) : recv_buffer'[k] = recv_buffer[p + k]
  <2>1. r - p \in Nat /\ p + (r - p) = r
    BY <1>2, <1>3, SMT
  <2>2. PICK d \in Nat : d = r - p
    BY <2>1
  <2>3. p + d <= Len(recv_buffer)
    BY <1>2, <1>3, <2>2, SMT
  <2>4. /\ SubSeq(recv_buffer, p + 1, p + d) \in Seq(Byte)
        /\ Len(SubSeq(recv_buffer, p + 1, p + d)) = d
        /\ \A k \in 1..d : SubSeq(recv_buffer, p + 1, p + d)[k] = recv_buffer[p + k]
    BY <1>2, <1>8, <2>3, SubSeqFacts, SMT
  <2>5. recv_buffer' = SubSeq(recv_buffer, p + 1, p + d)
    BY <1>4, <2>1, <2>2, Zenon
  <2> QED BY <2>1, <2>2, <2>4, <2>5, Zenon
<1>11. TypeOK'
  BY <1>4, <1>7, <1>9, <1>10, Zenon DEF ConnInv, TypeOK, client_vars
<1>12. Packets(e)'
  BY <1>1, <1>4, Zenon DEF Packets
<1>13. Buffered(e)'
  <2> HIDE DEF h, r
  <2>1. e[h + 1] + (r - p) + Len(read_buffer) = taken
    BY <1>2, <1>3, SMT
  <2>2. ASSUME NEW k \in 1..(r - p) PROVE recv_buffer'[k] = up[e[h + 1] + k]
    <3>1. p + k \in 1..r /\ e[h] + (p + k) = e[h + 1] + k
      BY <1>2, <1>3, SMT
    <3> QED BY <3>1, <1>3, <1>10, Zenon
  <2>3. ASSUME NEW k \in 1..Len(read_buffer)
        PROVE  read_buffer[k] = up[e[h + 1] + (r - p) + k]
    <3>1. e[h] + r + k = e[h + 1] + (r - p) + k
      BY <1>2, <1>3, SMT
    <3> QED BY <3>1, <1>3, Zenon
  <2> QED BY <2>1, <2>2, <2>3, <1>4, <1>9, <1>10, Zenon DEF Buffered
<1>14. HandledFirst'
  <2>1. \A i \in 1..h : handled[i] = requests[i]
    BY Zenon DEF ConnInv, Framed, HandledFirst
  <2>2. handled'[h + 1] = requests[h + 1]
    BY <1>9, Zenon DEF m
  <2>3. h + 1 <= Len(requests)
    BY <1>2, SMT
  <2> HIDE DEF h
  <2>4. \A i \in 1..(h + 1) : i \in 1..h \/ i = h + 1
    BY <1>3, SMT
  <2>5. ASSUME NEW i \in 1..(h + 1) PROVE handled'[i] = requests[i]
    <3>1. CASE i \in 1..h
      BY <3>1, <2>1, <1>9, Zenon
    <3>2. CASE i = h + 1
      BY <3>2, <2>2, Zenon
    <3> QED BY <2>4, <3>1, <3>2, Zenon
  <2> QED BY <2>3, <2>5, <1>4, <1>9, Zenon DEF HandledFirst
<1> QED BY <1>7, <1>11, <1>12, <1>13, <1>14 DEF ConnInv, Framed

-------------------------------------------------------------------------------
\* A step that touches neither the stream to the server nor the reading keeps the
\* framing.
LEMMA FramedStays ==
  ASSUME Framed, UNCHANGED <<up, requests, reading_vars>>
  PROVE  Framed'
<1>1. PICK e : Packets(e) /\ Buffered(e)
  BY DEF Framed
<1>2. Packets(e)' /\ Buffered(e)' /\ HandledFirst'
  BY <1>1, Zenon DEF Framed, Packets, Buffered, HandledFirst, reading_vars
<1> QED BY <1>2 DEF Framed

\* And one that touches neither the queue nor the session keeps the queue driven.
LEMMA QueueStays ==
  ASSUME NoStuckQueue, WriteHasPacket, UNCHANGED <<closed, write_queue, write>>
  PROVE  NoStuckQueue' /\ WriteHasPacket'
  BY Zenon DEF NoStuckQueue, WriteHasPacket

LEMMA NotifyKeeps ==
  ASSUME ConnInv, NEW m \in Notices, Notify(m)
  PROVE  ConnInv'
<1>1. <<m>> \in Seq(Message)
  BY NoticesAssumption, SMT
<1>2. SendAll(<<m>>) /\ UNCHANGED <<up, requests, closed, reading_vars, client_vars>>
  BY Zenon DEF Notify
<1>3. /\ write_queue' \in Seq(Seq(Byte)) /\ write' \in {"idle", "busy", "done"}
      /\ replies' \in Seq(Message) /\ NoStuckQueue' /\ WriteHasPacket'
  BY <1>1, <1>2, SendAllKeeps, Zenon DEF ConnInv
<1>4. TypeOK'
  BY <1>2, <1>3, Zenon DEF ConnInv, TypeOK, reading_vars, client_vars
<1>5. Framed'
  BY <1>2, FramedStays, Zenon DEF ConnInv
<1> QED BY <1>3, <1>4, <1>5 DEF ConnInv

LEMMA WriteTakenKeeps ==
  ASSUME ConnInv, write = "busy", NEW n \in 0..Len(Head(write_queue)), WriteTaken(n)
  PROVE  ConnInv'
<1>1. Head(write_queue) \in Seq(Byte)
  BY SMT DEF ConnInv, TypeOK, WriteHasPacket
<1>2. down' = down \o SubSeq(Head(write_queue), 1, n) /\ write' = "done"
      /\ UNCHANGED <<up, requests, closed, reading_vars, write_queue, replies, seen,
                     client_buffer, received>>
  BY Zenon DEF WriteTaken
<1>3. down \in Seq(Byte) /\ seen \in 0..Len(down)
  BY Zenon DEF ConnInv, TypeOK
<1>4. down' \in Seq(Byte) /\ seen \in 0..Len(down')
  <2>1. SubSeq(Head(write_queue), 1, n) \in Seq(Byte)
    BY <1>1, SMT
  <2>2. PICK t \in Seq(Byte) : t = SubSeq(Head(write_queue), 1, n)
    BY <2>1
  <2>3. down \o t \in Seq(Byte) /\ seen \in 0..Len(down \o t)
    BY <1>3, SMT
  <2> QED BY <1>2, <2>2, <2>3, Zenon
<1>5. TypeOK'
  BY <1>2, <1>4, Zenon DEF ConnInv, TypeOK, reading_vars
<1>6. Framed'
  BY <1>2, FramedStays, Zenon DEF ConnInv
<1>7. NoStuckQueue' /\ WriteHasPacket'
  BY <1>2, Zenon DEF ConnInv, NoStuckQueue, WriteHasPacket
<1> QED BY <1>5, <1>6, <1>7 DEF ConnInv

LEMMA OnWriteKeeps ==
  ASSUME ConnInv, OnWrite
  PROVE  ConnInv'
<1>1. write_queue \in Seq(Seq(Byte)) /\ write_queue # <<>>
  BY Zenon DEF ConnInv, TypeOK, WriteHasPacket, OnWrite
<1>2. Tail(write_queue) \in Seq(Seq(Byte))
  BY <1>1, SMT
<1>3. /\ write_queue' = Tail(write_queue)
      /\ write' = IF Tail(write_queue) = <<>> \/ closed THEN "idle" ELSE "busy"
      /\ UNCHANGED <<up, requests, closed, reading_vars, replies, client_vars>>
  BY Zenon DEF OnWrite, NextWrite
<1>4. TypeOK'
  BY <1>2, <1>3, Zenon DEF ConnInv, TypeOK, reading_vars, client_vars
<1>5. Framed'
  BY <1>3, FramedStays, Zenon DEF ConnInv
<1>6. NoStuckQueue' /\ WriteHasPacket'
  BY <1>3, Zenon DEF NoStuckQueue, WriteHasPacket
<1> QED BY <1>4, <1>5, <1>6 DEF ConnInv

LEMMA ClosingKeeps ==
  ASSUME ConnInv, OnWriteAborted \/ Close
  PROVE  ConnInv'
<1>1. UNCHANGED <<up, requests, reading_vars, write_queue, replies, client_vars>>
  BY Zenon DEF OnWriteAborted, Close, writing_vars
<1>2. closed' /\ closed' \in BOOLEAN /\ (write' = "idle" \/ write' = write)
  <2>1. CASE OnWriteAborted
    BY <2>1, Zenon DEF OnWriteAborted, ConnInv, TypeOK
  <2>2. CASE Close
    BY <2>2, Zenon DEF Close, writing_vars
  <2> QED BY <2>1, <2>2
<1>3. TypeOK'
  BY <1>1, <1>2, Zenon DEF ConnInv, TypeOK, reading_vars, client_vars
<1>4. Framed'
  BY <1>1, FramedStays, Zenon DEF ConnInv
<1>5. NoStuckQueue' /\ WriteHasPacket'
  BY <1>1, <1>2, Zenon DEF ConnInv, NoStuckQueue, WriteHasPacket
<1> QED BY <1>3, <1>4, <1>5 DEF ConnInv

LEMMA ClientReadKeeps ==
  ASSUME ConnInv, NEW n \in ReadSizes, ClientRead(n)
  PROVE  ConnInv'
<1>1. /\ down \in Seq(Byte) /\ seen \in 0..Len(down) /\ client_buffer \in Seq(Byte)
      /\ seen < Len(down) /\ n \in Nat
  BY ReadsAssumption, SMT DEF ConnInv, TypeOK, ClientRead
<1>2. PICK m \in Nat : /\ seen + m <= Len(down) /\ seen' = seen + m
                       /\ client_buffer' = client_buffer \o SubSeq(down, seen + 1, seen + m)
  <2>1. Upto(n, Len(down) - seen) \in Nat /\ seen + Upto(n, Len(down) - seen) <= Len(down)
    BY <1>1, SMT DEF Upto
  <2> QED BY <2>1, Zenon DEF ClientRead
<1>3. UNCHANGED <<up, requests, closed, reading_vars, writing_vars, down, received>>
  BY Zenon DEF ClientRead
<1>4. client_buffer' \in Seq(Byte) /\ seen' \in 0..Len(down)
  <2>1. PICK t \in Seq(Byte) : t = SubSeq(down, seen + 1, seen + m)
    <3>1. seen \in Nat
      BY <1>1, SMT
    <3>2. SubSeq(down, seen + 1, seen + m) \in Seq(Byte)
      BY <3>1, <1>1, <1>2, SubSeqFacts, Zenon
    <3> QED BY <3>2, Zenon
  <2>2. client_buffer \o t \in Seq(Byte)
    BY <1>1, SMT
  <2>3. seen' \in 0..Len(down)
    BY <1>1, <1>2, SMT
  <2> QED BY <1>2, <2>1, <2>2, <2>3, Zenon
<1>5. TypeOK'
  BY <1>3, <1>4, Zenon DEF ConnInv, TypeOK, reading_vars, writing_vars
<1>6. Framed' /\ NoStuckQueue' /\ WriteHasPacket'
  BY <1>3, FramedStays, QueueStays, Zenon DEF ConnInv, writing_vars
<1> QED BY <1>5, <1>6 DEF ConnInv

LEMMA ClientParseKeeps ==
  ASSUME ConnInv, ClientParse
  PROVE  ConnInv'
<1>1. /\ client_buffer \in Seq(Byte) /\ received \in Seq(Message)
      /\ Complete(client_buffer)
  BY Zenon DEF ConnInv, TypeOK, ClientParse
<1>2. Decoded(client_buffer) \in Message /\ Remainder(client_buffer) \in Seq(Byte)
  BY <1>1, DecodedType, Zenon
<1>3. /\ received' = Append(received, Decoded(client_buffer))
      /\ client_buffer' = Remainder(client_buffer)
      /\ UNCHANGED <<up, requests, closed, reading_vars, writing_vars, down, seen>>
  BY Zenon DEF ClientParse
<1>4. received' \in Seq(Message)
  <2>1. PICK m \in Message : m = Decoded(client_buffer)
    BY <1>2
  <2>2. Append(received, m) \in Seq(Message)
    BY <1>1, SMT
  <2> QED BY <2>1, <2>2, <1>3, Zenon
<1>5. TypeOK'
  BY <1>2, <1>3, <1>4, Zenon DEF ConnInv, TypeOK, reading_vars, writing_vars
<1>6. Framed' /\ NoStuckQueue' /\ WriteHasPacket'
  BY <1>3, FramedStays, QueueStays, Zenon DEF ConnInv, writing_vars
<1> QED BY <1>5, <1>6 DEF ConnInv

-------------------------------------------------------------------------------
LEMMA ConnInductive ==
  ASSUME ConnInv, ~ShortWrites, [Next]_vars
  PROVE  ConnInv'
<1>1. ASSUME NEW n \in ReadSizes, ServerRead(n) PROVE ConnInv'
  <2>1. UNCHANGED <<closed, write_queue, write>>
    BY <1>1, Zenon DEF ServerRead, writing_vars
  <2> QED BY <1>1, <2>1, ServerReadKeeps, QueueStays DEF ConnInv
<1>2. CASE OnRead
  <2>1. UNCHANGED <<closed, write_queue, write>>
    BY <1>2, Zenon DEF OnRead, writing_vars
  <2> QED BY <1>2, <2>1, OnReadKeeps, QueueStays DEF ConnInv
<1>3. CASE HandlePacket
  BY <1>3, HandlePacketKeeps
<1>4. CASE write = "busy" /\ Writes
  BY <1>4, WriteTakenKeeps DEF Writes
<1>5. CASE OnWrite
  BY <1>5, OnWriteKeeps
<1>6. CASE OnWriteAborted \/ Close
  BY <1>6, ClosingKeeps
<1>7. ASSUME NEW m \in Notices, Notify(m) PROVE ConnInv'
  BY <1>7, NotifyKeeps
<1>8. ASSUME NEW m \in Requests, ClientSend(m) PROVE ConnInv'
  <2>1. UNCHANGED <<closed, write_queue, write>>
    BY <1>8, Zenon DEF ClientSend, writing_vars
  <2> QED BY <1>8, <2>1, ClientSendKeeps, QueueStays DEF ConnInv
<1>9. ASSUME NEW n \in ReadSizes, ClientRead(n) PROVE ConnInv'
  BY <1>9, ClientReadKeeps
<1>10. CASE ClientParse
  BY <1>10, ClientParseKeeps
<1>11. CASE UNCHANGED vars
  <2>1. UNCHANGED <<up, requests, closed, reading_vars, writing_vars, client_vars>>
    BY <1>11, Zenon DEF vars
  <2>2. TypeOK'
    BY <2>1, Zenon DEF ConnInv, TypeOK, reading_vars, writing_vars, client_vars
  <2> QED BY <2>1, <2>2, FramedStays, QueueStays, Zenon DEF ConnInv, writing_vars
<1> QED
  BY <1>1, <1>2, <1>3, <1>4, <1>5, <1>6, <1>7, <1>8, <1>9, <1>10, <1>11, Zenon
     DEF Next, ServerStep, ClientStep

\* The types of a connection's variables, its write queue driven to its end, and its
\* stream framed.
THEOREM ConnectionInvariant == ~ShortWrites => (Spec => [](TypeOK /\ NoStuckQueue /\ Framed))
<1> SUFFICES ASSUME ~ShortWrites PROVE Spec => [](TypeOK /\ NoStuckQueue /\ Framed)
  OBVIOUS
<1>1. Init => ConnInv
  BY InitConn
<1>2. ConnInv /\ [Next]_vars => ConnInv'
  BY ConnInductive
<1>3. ConnInv => TypeOK /\ NoStuckQueue /\ Framed
  BY DEF ConnInv
<1> QED BY <1>1, <1>2, <1>3, PTL DEF Spec

\* A packet that is queued is always on its way while the session is open.
THEOREM QueueIsDriven == ~ShortWrites => (Spec => []NoStuckQueue)
<1>1. TypeOK /\ NoStuckQueue /\ Framed => NoStuckQueue
  OBVIOUS
<1> QED BY <1>1, ConnectionInvariant, PTL

\* Every step of the connection is one of the channel, or changes nothing it sees.
LEMMA UpStep ==
  ASSUME ConnInv, ~ShortWrites, [Next]_vars
  PROVE  [Up!Next]_(Up!vars)
<1>1. ASSUME NEW m \in Requests, ClientSend(m) PROVE Up!Send
  <2>1. /\ requests' = Append(requests, m) /\ requests \in Seq(Requests)
        /\ UNCHANGED <<handled, closed>>
    BY <1>1, Zenon DEF ClientSend, ConnInv, TypeOK, reading_vars
  <2>2. Len(requests') > Len(requests) /\ SubSeq(requests', 1, Len(requests)) = requests
    BY <2>1, SMT
  <2> QED BY <2>1, <2>2 DEF Up!Send, Up!Extends
<1>2. CASE HandlePacket
  <2>1. PICK e : Packets(e) /\ Buffered(e)
    BY DEF ConnInv, Framed
  <2>2. /\ Len(handled) + 1 \in 1..Len(requests)
        /\ Decoded(recv_buffer) = requests[Len(handled) + 1]
    <3>1. Complete(recv_buffer)
      BY <1>2 DEF HandlePacket
    <3> QED BY <2>1, <3>1, NextRequest, Zenon
  <2>3. Len(handled) < Len(requests)
    <3>1. Len(handled) \in Nat /\ Len(requests) \in Nat
      BY SMT DEF ConnInv, TypeOK
    <3> QED BY <2>2, <3>1, SMT
  <2>4. /\ handled' = Append(handled, Decoded(recv_buffer))
        /\ UNCHANGED <<requests, closed>>
    BY <1>2, Zenon DEF HandlePacket
  <2> QED BY <2>2, <2>3, <2>4, Zenon DEF Up!Next, Up!Deliver
<1>3. CASE Close
  BY <1>3, Zenon DEF Close, Up!Next, Up!Break, reading_vars
<1>4. ASSUME \/ \E n \in ReadSizes : ServerRead(n) \/ ClientRead(n)
             \/ OnRead \/ (write = "busy" /\ Writes) \/ OnWrite \/ OnWriteAborted
             \/ (\E m \in Notices : Notify(m)) \/ ClientParse \/ UNCHANGED vars
      PROVE  UNCHANGED Up!vars
  BY <1>4, Zenon DEF ServerRead, ClientRead, OnRead, Writes, WriteTaken, OnWrite, OnWriteAborted,
     Notify, ClientParse, vars, reading_vars, Up!vars
<1> QED
  BY <1>1, <1>2, <1>3, <1>4, Zenon DEF Next, ServerStep, ClientStep, Up!Next

\* The connection delivers the requests as MessageChannel promises: the handlers are
\* given what the client sent, once each and in order, however TCP cuts the stream.
THEOREM RequestsAreFramed == ~ShortWrites => (Spec => RequestsInOrder)
<1> SUFFICES ASSUME ~ShortWrites PROVE Spec => RequestsInOrder
  OBVIOUS
<1>1. Init => ConnInv /\ Up!Init
  BY InitConn, Zenon DEF Init, Up!Init
<1>2. ConnInv /\ [Next]_vars => ConnInv'
  BY ConnInductive
<1>3. ConnInv /\ [Next]_vars => [Up!Next]_(Up!vars)
  BY UpStep
<1> QED BY <1>1, <1>2, <1>3, PTL DEF Spec, RequestsInOrder, Up!Spec

-------------------------------------------------------------------------------
(***************************************************************************)
(* The answers: the same argument for the stream to the client, which      *)
(* holds the packets of the messages that fit.                             *)
(***************************************************************************)

\* The packets of ms, as SendAll queues them.
PacketsFor(ms) == [i \in DOMAIN ms |-> encode(ms[i])]

\* The packets that are still to be written.
Waiting == IF write = "done" THEN Tail(write_queue) ELSE write_queue

\* What the client was given is the beginning of out, and its buffer holds what it
\* read after that.
ReceivedFirst(out) ==
    /\ Len(received) <= Len(out)
    /\ \A i \in 1..Len(received) : received[i] = out[i]
ClientBuffered(e) ==
    /\ e[Len(received)] + Len(client_buffer) = seen
    /\ \A k \in 1..Len(client_buffer) : client_buffer[k] = down[e[Len(received)] + k]

\* What was given to send is what was written to the stream and what waits for it.
Streamed(written, waiting) ==
    /\ replies = written \o waiting
    /\ Waiting = PacketsFor(waiting)
    /\ ReceivedFirst(Fitting(written))
    /\ \E e : PacketsOf(Fitting(written), down, e) /\ ClientBuffered(e)

Answered == \E written, waiting \in Seq(Message) : Streamed(written, waiting)

-------------------------------------------------------------------------------
(* The messages that fit, and their packets. *)

LEMMA FittingType ==
  ASSUME NEW ms \in Seq(Message)
  PROVE  Fitting(ms) \in Seq(Message) /\ \A i \in 1..Len(Fitting(ms)) : Fits(Fitting(ms)[i])
<1> DEFINE I == {i \in DOMAIN ms : Fits(ms[i])}
<1> HIDE DEF I
<1>1. Selected(ms, I) \in Seq(Message)
  BY SelectedType
<1>2. ASSUME NEW k \in 1..Len(Selected(ms, I)) PROVE Fits(Selected(ms, I)[k])
  <2>1. PICK i \in I \cap (1..Len(ms)) : Selected(ms, I)[k] = ms[i]
    BY SelectedElements
  <2> QED BY <2>1 DEF I
<1> QED BY <1>1, <1>2, Zenon DEF Fitting, I

FittingOfAppend(ms, m) ==
    Fitting(Append(ms, m)) = IF Fits(m) THEN Append(Fitting(ms), m) ELSE Fitting(ms)
LEMMA FittingAppended ==
  ASSUME NEW ms \in Seq(Message), NEW m \in Message
  PROVE  FittingOfAppend(ms, m)
<1> DEFINE more == Append(ms, m)
           I == {i \in DOMAIN ms : Fits(ms[i])}
           J == {i \in DOMAIN more : Fits(more[i])}
<1>1. /\ Len(ms) \in Nat /\ DOMAIN ms = 1..Len(ms) /\ DOMAIN more = 1..(Len(ms) + 1)
      /\ \A k \in 1..Len(ms) : more[k] = ms[k]
      /\ more[Len(ms) + 1] = m
  BY AppendProperties, LenProperties
<1>2. \A k \in 1..Len(ms) : k \in I <=> k \in J
  BY <1>1, SMT
<1>3. Len(ms) + 1 \in J <=> Fits(m)
  BY <1>1, SMT
<1> HIDE DEF I, J
<1>4. Selected(Append(ms, m), J) =
         IF Len(ms) + 1 \in J THEN Append(Selected(ms, I), m) ELSE Selected(ms, I)
  BY <1>2, SelectedAppend
<1> QED BY <1>3, <1>4, Zenon DEF FittingOfAppend, Fitting, I, J

FittingOfConcat(ms, ns) == Fitting(ms \o ns) = Fitting(ms) \o Fitting(ns)
LEMMA FittingConcat ==
  ASSUME NEW ms \in Seq(Message), NEW ns \in Seq(Message)
  PROVE  FittingOfConcat(ms, ns)
<1> DEFINE all == ms \o ns
           I == {i \in DOMAIN ms : Fits(ms[i])}
           J == {i \in DOMAIN ns : Fits(ns[i])}
           K == {i \in DOMAIN all : Fits(all[i])}
<1>1. /\ Len(ms) \in Nat /\ Len(ns) \in Nat /\ DOMAIN ms = 1..Len(ms) /\ DOMAIN ns = 1..Len(ns)
      /\ DOMAIN all = 1..(Len(ms) + Len(ns))
      /\ \A k \in 1..Len(ms) : all[k] = ms[k]
      /\ \A k \in 1..Len(ns) : all[Len(ms) + k] = ns[k]
  BY SMT
<1>2. \A k \in 1..Len(ms) : k \in I <=> k \in K
  BY <1>1, SMT
<1>3. \A k \in 1..Len(ns) : k \in J <=> Len(ms) + k \in K
  BY <1>1, SMT
<1> HIDE DEF I, J, K
<1>4. SelectedTogether(ms, ns, I, J, K)
  BY <1>2, <1>3, SelectedConcat, Zenon
<1> QED BY <1>4, Zenon DEF SelectedTogether, FittingOfConcat, Fitting, I, J, K

LEMMA PacketsForType ==
  ASSUME NEW ms \in Seq(Message)
  PROVE  PacketsFor(ms) \in Seq(Seq(Byte)) /\ Len(PacketsFor(ms)) = Len(ms)
         /\ \A i \in 1..Len(ms) : PacketsFor(ms)[i] = encode(ms[i])
<1>1. \A i \in 1..Len(ms) : encode(ms[i]) \in Seq(Byte)
  BY ElementOfSeq, EncodeType
<1> DEFINE packet(i) == encode(ms[i])
<1>2. \A i \in 1..Len(ms) : packet(i) \in Seq(Byte)
  BY <1>1
<1> HIDE DEF packet
<1>3. /\ [i \in DOMAIN ms |-> packet(i)] \in Seq(Seq(Byte))
      /\ Len([i \in DOMAIN ms |-> packet(i)]) = Len(ms)
      /\ \A i \in 1..Len(ms) : [j \in DOMAIN ms |-> packet(j)][i] = packet(i)
  BY <1>2, SMT
<1> QED BY <1>3 DEF packet, PacketsFor

PacketsOfConcat(ms, ns) == PacketsFor(ms \o ns) = PacketsFor(ms) \o PacketsFor(ns)
LEMMA PacketsForConcat ==
  ASSUME NEW ms \in Seq(Message), NEW ns \in Seq(Message)
  PROVE  PacketsOfConcat(ms, ns)
<1> DEFINE all == ms \o ns
<1>1. /\ all \in Seq(Message) /\ Len(all) = Len(ms) + Len(ns)
      /\ Len(ms) \in Nat /\ Len(ns) \in Nat
      /\ \A k \in 1..Len(ms) : all[k] = ms[k]
      /\ \A k \in 1..Len(ns) : all[Len(ms) + k] = ns[k]
  BY SMT
<1> HIDE DEF all
<1>2. PICK p \in Seq(Seq(Byte)), q \in Seq(Seq(Byte)), r \in Seq(Seq(Byte)) :
        p = PacketsFor(ms) /\ q = PacketsFor(ns) /\ r = PacketsFor(all)
  BY <1>1, PacketsForType
<1>3. /\ Len(p) = Len(ms) /\ \A i \in 1..Len(ms) : p[i] = encode(ms[i])
      /\ Len(q) = Len(ns) /\ \A i \in 1..Len(ns) : q[i] = encode(ns[i])
      /\ Len(r) = Len(all) /\ \A i \in 1..Len(all) : r[i] = encode(all[i])
  BY <1>1, <1>2, PacketsForType
<1>4. /\ Len(r) = Len(p) + Len(q)
      /\ \A k \in 1..Len(p) : r[k] = p[k]
      /\ \A k \in 1..Len(q) : r[Len(p) + k] = q[k]
  <2>1. ASSUME NEW k \in 1..Len(p) PROVE r[k] = p[k]
    <3>1. k \in 1..Len(all)
      BY <1>1, <1>3, SMT
    <3> QED BY <3>1, <1>1, <1>3, Zenon
  <2>2. ASSUME NEW k \in 1..Len(q) PROVE r[Len(p) + k] = q[k]
    <3>1. Len(p) + k \in 1..Len(all)
      BY <1>1, <1>3, SMT
    <3> QED BY <3>1, <1>1, <1>3, Zenon
  <2> QED BY <2>1, <2>2, <1>1, <1>3, Zenon
<1>5. IsConcat(r, p, q)
  BY <1>4, ConcatUnique, Zenon
<1> QED BY <1>2, <1>5, Zenon DEF IsConcat, PacketsOfConcat, all

\* The first packet, and the others.
LEMMA PacketsForHead ==
  ASSUME NEW ms \in Seq(Message), PacketsFor(ms) # <<>>
  PROVE  /\ Head(ms) \in Message /\ Tail(ms) \in Seq(Message) /\ ms = <<Head(ms)>> \o Tail(ms)
         /\ Head(PacketsFor(ms)) = encode(Head(ms))
         /\ Tail(PacketsFor(ms)) = PacketsFor(Tail(ms))
<1>1. ms # <<>>
  <2>1. Len(PacketsFor(ms)) # 0
    BY PacketsForType, EmptySeq
  <2> QED BY <2>1, PacketsForType
<1>2. PICK m \in Message, ns \in Seq(Message) : m = Head(ms) /\ ns = Tail(ms)
  BY <1>1, HeadTailProperties
<1>3. ms = <<m>> \o ns
  BY <1>1, <1>2, SMT
<1>4. <<m>> \in Seq(Message)
  OBVIOUS
<1>5. PacketsFor(ms) = PacketsFor(<<m>>) \o PacketsFor(ns)
  BY <1>3, <1>4, PacketsForConcat, Zenon DEF PacketsOfConcat
<1>6. PacketsFor(<<m>>) = <<encode(m)>>
  BY SMT DEF PacketsFor
<1>7. PICK p \in Seq(Byte), ps \in Seq(Seq(Byte)) : p = encode(m) /\ ps = PacketsFor(ns)
  BY PacketsForType, EncodeType
<1>8. Head(<<p>> \o ps) = p /\ Tail(<<p>> \o ps) = ps
  BY SMT
<1> QED BY <1>2, <1>3, <1>5, <1>6, <1>7, <1>8, Zenon

-------------------------------------------------------------------------------
LEMMA InitAnswered == Init => Answered
<1> SUFFICES ASSUME Init PROVE Answered
  OBVIOUS
<1>1. <<>> \in Seq(Message) /\ <<>> \o <<>> = <<>> /\ PacketsFor(<<>>) = <<>>
      /\ Len(<<>>) = 0
  BY SMT DEF PacketsFor
<1>2. Fitting(<<>>) = <<>>
  BY SelectedEmpty, Zenon DEF Fitting
<1>3. PacketsOf(<<>>, down, [i \in 0..0 |-> 0]) /\ ClientBuffered([i \in 0..0 |-> 0])
  BY DEF Init, PacketsOf, ClientBuffered
<1>4. ReceivedFirst(<<>>) /\ Waiting = <<>> /\ replies = <<>>
  BY DEF Init, ReceivedFirst, Waiting
<1>5. Streamed(<<>>, <<>>)
  BY <1>1, <1>2, <1>3, <1>4, Zenon DEF Streamed
<1> QED BY <1>1, <1>5, Zenon DEF Answered

\* What neither sends, writes nor reads on this stream keeps it.
LEMMA AnsweredStays ==
  ASSUME Answered, Waiting' = Waiting, UNCHANGED <<replies, client_vars>>
  PROVE  Answered'
<1>1. PICK written \in Seq(Message), waiting \in Seq(Message) : Streamed(written, waiting)
  BY DEF Answered
<1>2. UNCHANGED <<replies, down, seen, client_buffer, received>>
  BY DEF client_vars
<1>3. Streamed(written, waiting)'
  BY <1>1, <1>2, Zenon DEF Streamed, ReceivedFirst, ClientBuffered
<1> QED BY <1>3, Zenon DEF Answered

\* What is sent waits, behind what waits already.
LEMMA SendKeepsAnswered ==
  ASSUME TypeOK, WriteHasPacket, Answered, NEW ms \in Seq(Message), SendAll(ms),
         UNCHANGED client_vars
  PROVE  Answered'
<1>1. PICK written \in Seq(Message), waiting \in Seq(Message) : Streamed(written, waiting)
  BY DEF Answered
<1>2. /\ write_queue' = write_queue \o PacketsFor(ms) /\ replies' = replies \o ms
      /\ write' = IF write_queue = <<>> /\ ms # <<>> /\ ~closed THEN "busy" ELSE write
  BY Zenon DEF SendAll, PacketsFor
<1>3. PICK q \in Seq(Seq(Byte)), p \in Seq(Seq(Byte)) : q = write_queue /\ p = PacketsFor(ms)
  BY PacketsForType, Zenon DEF TypeOK
<1>4. Waiting' = Waiting \o p
  <2>1. CASE write = "done"
    <3>1. q # <<>> /\ write' = "done"
      BY <1>2, <1>3, <2>1, Zenon DEF WriteHasPacket
    <3>2. Tail(q \o p) = Tail(q) \o p
      BY <3>1, SMT
    <3> QED BY <1>2, <1>3, <2>1, <3>1, <3>2, Zenon DEF Waiting
  <2>2. CASE write # "done"
    <3>1. write' # "done"
      BY <1>2, <2>2, Zenon
    <3> QED BY <1>2, <1>3, <2>2, <3>1, Zenon DEF Waiting
  <2> QED BY <2>1, <2>2
<1>5. PICK more \in Seq(Message) : more = waiting \o ms
  BY ConcatProperties
<1>6. Waiting' = PacketsFor(more)
  <2>1. Waiting = PacketsFor(waiting)
    BY <1>1, Zenon DEF Streamed
  <2>2. PacketsOfConcat(waiting, ms)
    BY PacketsForConcat, Zenon
  <2> QED BY <1>3, <1>4, <1>5, <2>1, <2>2, Zenon DEF PacketsOfConcat
<1>7. replies' = written \o more
  <2>1. (written \o waiting) \o ms = written \o (waiting \o ms)
    BY ConcatAssociative
  <2> QED BY <2>1, <1>1, <1>2, <1>5, Zenon DEF Streamed
<1>8. Streamed(written, more)'
  BY <1>1, <1>6, <1>7, Zenon DEF Streamed, ReceivedFirst, ClientBuffered, client_vars
<1> QED BY <1>8, Zenon DEF Answered

\* The first packet that waits goes to the end of the stream.
LEMMA WriteTakenKeepsAnswered ==
  ASSUME TypeOK, WriteHasPacket, ~ShortWrites, Answered,
         write = "busy", NEW n \in 0..Len(Head(write_queue)), WriteTaken(n)
  PROVE  Answered'
<1>1. PICK written \in Seq(Message), waiting \in Seq(Message) : Streamed(written, waiting)
  BY DEF Answered
<1>2. PICK e : PacketsOf(Fitting(written), down, e) /\ ClientBuffered(e)
  BY <1>1 DEF Streamed
<1>3. write_queue = PacketsFor(waiting) /\ write_queue # <<>>
  BY <1>1, Zenon DEF Streamed, Waiting, WriteHasPacket
<1> DEFINE m == Head(waiting)
           rest == Tail(waiting)
<1>4. /\ m \in Message /\ rest \in Seq(Message) /\ waiting = <<m>> \o rest
      /\ Head(write_queue) = encode(m) /\ Tail(write_queue) = PacketsFor(rest)
  BY <1>3, PacketsForHead, Zenon
<1> HIDE DEF m, rest
<1>5. encode(m) \in Seq(Byte) /\ down \in Seq(Byte)
  BY <1>4, EncodeType, Zenon DEF TypeOK
<1>6. /\ down' = down \o encode(m) /\ write' = "done" /\ write_queue' = write_queue
      /\ UNCHANGED <<replies, seen, client_buffer, received>>
  <2>1. SubSeq(encode(m), 1, Len(encode(m))) = encode(m)
    BY <1>5, WholeSeq
  <2>2. n = Len(encode(m)) /\ down' = down \o SubSeq(encode(m), 1, n)
    BY <1>4, Zenon DEF WriteTaken, Written
  <2> QED BY <2>1, <2>2, Zenon DEF WriteTaken
<1>7. Waiting' = PacketsFor(rest)
  BY <1>4, <1>6, Zenon DEF Waiting
<1>8. PICK more \in Seq(Message) : more = Append(written, m)
  BY <1>4, AppendProperties
<1>9. replies' = more \o rest
  <2>1. <<m>> \in Seq(Message)
    BY <1>4
  <2>2. (written \o <<m>>) \o rest = written \o (<<m>> \o rest)
    BY <1>4, <2>1, ConcatAssociative
  <2>3. Append(written, m) = written \o <<m>>
    BY <1>4, AppendIsConcat
  <2> QED BY <2>2, <2>3, <1>1, <1>4, <1>6, <1>8, Zenon DEF Streamed
<1>10. PICK out \in Seq(Message) : out = Fitting(written)
  BY FittingType
<1>11. FittingOfAppend(written, m)
  BY <1>4, FittingAppended, Zenon
<1>12. ReceivedFirst(out) /\ Len(out) \in Nat /\ Len(received) \in Nat
  BY <1>1, <1>10, LenProperties, Zenon DEF Streamed, TypeOK
<1>13. /\ ReceivedFirst(Fitting(more))'
       /\ \E f : PacketsOf(Fitting(more), down', f) /\ ClientBuffered(f)'
  <2>1. CASE Fits(m)
    <3>1. PICK longer \in Seq(Message) : longer = Append(out, m)
      BY <1>4, AppendProperties
    <3>2. Fitting(more) = longer
      BY <2>1, <3>1, <1>8, <1>10, <1>11, Zenon DEF FittingOfAppend
    <3>3. Len(longer) = Len(out) + 1 /\ \A i \in 1..Len(out) : longer[i] = out[i]
      BY <3>1, <1>4, AppendProperties
    <3>4. ReceivedFirst(longer)'
      <4>1. Len(received) <= Len(longer) /\ \A i \in 1..Len(received) : i \in 1..Len(out)
        BY <3>3, <1>12, SMT DEF ReceivedFirst
      <4> QED BY <4>1, <3>3, <1>6, <1>12, Zenon DEF ReceivedFirst
    <3>5. PICK f : PacketsOf(longer, down', f) /\ \A i \in 0..Len(out) : f[i] = e[i]
      <4>1. PacketsOf(out, down, e)
        BY <1>2, <1>10
      <4>2. \E f : /\ PacketsOf(Append(out, m), down \o encode(m), f)
                   /\ \A i \in 0..Len(out) : f[i] = e[i]
        BY <4>1, <1>4, <1>5, PacketAppended
      <4> QED BY <4>2, <3>1, <1>6, Zenon
    <3>6. ClientBuffered(f)'
      <4> DEFINE h == Len(received)
      <4>1. h \in 0..Len(out)
        BY <1>12, SMT DEF ReceivedFirst
      <4>2. f[h] = e[h] /\ e[h] \in Nat
        BY <4>1, <3>5, <1>2, <1>10, Zenon DEF PacketsOf
      <4>3. e[h] + Len(client_buffer) = seen /\ seen <= Len(down) /\ Len(client_buffer) \in Nat
            /\ Len(down) \in Nat
        <5>1. seen <= Len(down) /\ Len(client_buffer) \in Nat /\ Len(down) \in Nat
          BY SMT DEF TypeOK
        <5> QED BY <5>1, <1>2 DEF ClientBuffered
      <4> HIDE DEF h
      <4>4. \A k \in 1..Len(client_buffer) : e[h] + k \in 1..Len(down)
        BY <4>2, <4>3, SMT
      <4>5. \A k \in 1..Len(down) : down'[k] = down[k]
        <5>1. \A k \in 1..Len(down) : (down \o encode(m))[k] = down[k]
          BY <1>5, SeqFacts
        <5> QED BY <5>1, <1>6
      <4>6. \A k \in 1..Len(client_buffer) : client_buffer[k] = down[e[h] + k]
        BY <1>2, Zenon DEF ClientBuffered, h
      <4> QED BY <4>2, <4>3, <4>4, <4>5, <4>6, <1>6, Zenon DEF ClientBuffered, h
    <3> QED BY <3>2, <3>4, <3>5, <3>6, Zenon
  <2>2. CASE ~Fits(m)
    <3>1. Fitting(more) = Fitting(written)
      BY <2>2, <1>8, <1>11, Zenon DEF FittingOfAppend
    <3>2. down' = down
      <4>1. encode(m) = <<>>
        BY <2>2 DEF encode
      <4>2. down \o <<>> = down
        BY <1>5, ConcatEmptySeq
      <4> QED BY <4>1, <4>2, <1>6
    <3>3. PacketsOf(Fitting(more), down', e)
      BY <3>1, <3>2, <1>2, Zenon
    <3>4. ReceivedFirst(Fitting(more))' /\ ClientBuffered(e)'
      BY <3>1, <3>2, <1>1, <1>2, <1>6, Zenon DEF Streamed, ReceivedFirst, ClientBuffered
    <3> QED BY <3>3, <3>4, Zenon
  <2> QED BY <2>1, <2>2
<1>14. Streamed(more, rest)'
  BY <1>7, <1>9, <1>13, Zenon DEF Streamed
<1> QED BY <1>4, <1>8, <1>14, Zenon DEF Answered

\* A read of the client goes on where its buffer ends.
LEMMA ClientReadKeepsAnswered ==
  ASSUME TypeOK, Answered, NEW n \in ReadSizes, ClientRead(n)
  PROVE  Answered'
<1>1. PICK written \in Seq(Message), waiting \in Seq(Message) : Streamed(written, waiting)
  BY DEF Answered
<1>2. PICK e : PacketsOf(Fitting(written), down, e) /\ ClientBuffered(e)
  BY <1>1 DEF Streamed
<1> DEFINE h == Len(received)
           c == Len(client_buffer)
<1>3. /\ down \in Seq(Byte) /\ client_buffer \in Seq(Byte) /\ n \in Nat
      /\ seen \in Nat /\ Len(down) \in Nat /\ c \in Nat /\ seen < Len(down)
  <2>1. down \in Seq(Byte) /\ client_buffer \in Seq(Byte) /\ seen \in 0..Len(down)
    BY Zenon DEF TypeOK
  <2>2. n \in Nat /\ seen < Len(down)
    BY ReadsAssumption DEF ClientRead
  <2> QED BY <2>1, <2>2, LenProperties, SMT
<1>n. seen \in Nat /\ c \in Nat
  BY <1>3
<1>b. client_buffer \in Seq(Byte)
  BY <1>3
<1>4. PICK m \in Nat : /\ seen + m <= Len(down) /\ seen' = seen + m
                       /\ client_buffer' = client_buffer \o SubSeq(down, seen + 1, seen + m)
  <2>1. Upto(n, Len(down) - seen) \in Nat /\ seen + Upto(n, Len(down) - seen) <= Len(down)
    BY <1>3, SMT DEF Upto
  <2> QED BY <2>1, Zenon DEF ClientRead
<1>5. UNCHANGED <<down, received, writing_vars>>
  BY Zenon DEF ClientRead
<1>6. PICK t \in Seq(Byte) : /\ t = SubSeq(down, seen + 1, seen + m)
                             /\ Len(t) = m /\ \A k \in 1..m : t[k] = down[seen + k]
  <2>1. /\ SubSeq(down, seen + 1, seen + m) \in Seq(Byte)
        /\ Len(SubSeq(down, seen + 1, seen + m)) = m
        /\ \A k \in 1..m : SubSeq(down, seen + 1, seen + m)[k] = down[seen + k]
    BY <1>3, <1>4, SubSeqFacts, SMT
  <2> QED BY <2>1, Zenon
<1>7. /\ Len(client_buffer') = c + m
      /\ \A k \in 1..c : client_buffer'[k] = client_buffer[k]
      /\ \A k \in 1..m : client_buffer'[c + k] = t[k]
  <2>1. /\ Len(client_buffer \o t) = c + m
        /\ \A k \in 1..c : (client_buffer \o t)[k] = client_buffer[k]
        /\ \A k \in 1..m : (client_buffer \o t)[c + k] = t[k]
    BY <1>b, <1>6, SeqFacts
  <2> QED BY <2>1, <1>4, <1>6, Zenon
<1>8. \A k \in 1..c : client_buffer[k] = down[e[h] + k]
  BY <1>2, Zenon DEF ClientBuffered
<1>p. e[h] + c = seen
  BY <1>2, Zenon DEF ClientBuffered
<1>9. e[h] \in Nat
  <2>1. h \in 0..Len(Fitting(written))
    <3>1. h \in Nat /\ h <= Len(Fitting(written)) /\ Len(Fitting(written)) \in Nat
      BY <1>1, FittingType, LenProperties DEF Streamed, ReceivedFirst, TypeOK
    <3> HIDE DEF h
    <3> QED BY <3>1, SMT
  <2> QED BY <2>1, <1>2, Zenon DEF PacketsOf
<1> HIDE DEF h, c
<1>10. ASSUME NEW k \in 1..(c + m) PROVE client_buffer'[k] = down[e[h] + k]
  <2>1. CASE k \in 1..c
    BY <2>1, <1>7, <1>8, Zenon
  <2>2. CASE k \notin 1..c
    <3>1. PICK j \in 1..m : k = c + j
      <4>1. k - c \in 1..m /\ k = c + (k - c)
        BY <2>2, <1>3, SMT
      <4> QED BY <4>1, Zenon
    <3>2. seen + j = e[h] + k
      BY <3>1, <1>n, <1>p, <1>9, SMT
    <3> QED BY <3>1, <3>2, <1>6, <1>7, Zenon
  <2> QED BY <2>1, <2>2
<1>11. e[h] + (c + m) = seen'
  <2>1. seen' = seen + m
    BY <1>4
  <2>2. PICK w \in Nat : w = e[h]
    BY <1>9, Zenon
  <2>3. w + c = seen
    BY <2>2, <1>p, Zenon
  <2>4. w + (c + m) = seen + m
    BY <2>3, <1>n, SMT
  <2> QED BY <2>1, <2>2, <2>4, Zenon
<1>12. ClientBuffered(e)'
  BY <1>5, <1>7, <1>10, <1>11, Zenon DEF ClientBuffered, h
<1>13. Streamed(written, waiting)'
  BY <1>1, <1>2, <1>5, <1>12, Zenon DEF Streamed, ReceivedFirst, Waiting, writing_vars
<1> QED BY <1>13, Zenon DEF Answered

\* What the client takes from its buffer is the next message that fits.
LEMMA NextAnswer ==
  ASSUME TypeOK, NEW out \in Seq(Message), \A i \in 1..Len(out) : Fits(out[i]),
         ReceivedFirst(out), NEW e, PacketsOf(out, down, e), ClientBuffered(e),
         Complete(client_buffer)
  PROVE  LET h == Len(received) m == out[Len(received) + 1] IN
         /\ h + 1 \in 1..Len(out) /\ h \in Nat
         /\ Decoded(client_buffer) = m
         /\ PacketSize(client_buffer) = Len(encode(m))
         /\ Len(encode(m)) <= Len(client_buffer) /\ Len(client_buffer) \in Nat
         /\ e[h] \in Nat /\ e[h + 1] = e[h] + Len(encode(m)) /\ Len(encode(m)) \in Nat
<1> DEFINE h == Len(received)
<1>2. /\ down \in Seq(Byte) /\ client_buffer \in Seq(Byte) /\ seen <= Len(down)
      /\ Len(out) \in Nat /\ h \in Nat /\ Len(client_buffer) \in Nat
  <2>1. seen \in 0..Len(down) /\ down \in Seq(Byte) /\ client_buffer \in Seq(Byte)
        /\ received \in Seq(Message)
    BY Zenon DEF TypeOK
  <2>2. seen <= Len(down)
    BY <2>1, SMT
  <2> QED BY <2>1, <2>2, LenProperties
<1>3. h \in 0..Len(out)
  <2>1. h <= Len(out)
    BY Zenon DEF ReceivedFirst
  <2> HIDE DEF h
  <2> QED BY <2>1, <1>2, SMT
<1>4. /\ e[h] + Len(client_buffer) <= Len(down)
      /\ \A k \in 1..Len(client_buffer) : client_buffer[k] = down[e[h] + k]
  BY <1>2, Zenon DEF ClientBuffered
<1>5. PacketsOf(out, down, e) /\ e[h] \in Nat
  BY <1>3, Zenon DEF PacketsOf
<1>6. TakesNext(out, e, h, client_buffer)
  <2>1. down \in Seq(Byte) /\ client_buffer \in Seq(Byte)
    BY <1>2
  <2> HIDE DEF h
  <2> QED BY <2>1, <1>3, <1>4, <1>5, NextPacket, Zenon
<1> QED BY <1>2, <1>5, <1>6, Zenon DEF TakesNext

LEMMA ClientParseKeepsAnswered ==
  ASSUME TypeOK, Answered, ClientParse
  PROVE  Answered'
<1>1. PICK written \in Seq(Message), waiting \in Seq(Message) : Streamed(written, waiting)
  BY DEF Answered
<1>2. PICK e : PacketsOf(Fitting(written), down, e) /\ ClientBuffered(e)
  BY <1>1 DEF Streamed
<1> DEFINE h == Len(received)
           c == Len(client_buffer)
           m == Fitting(written)[h + 1]
           p == Len(encode(m))
<1>3. /\ h + 1 \in 1..Len(Fitting(written)) /\ h \in Nat
      /\ Decoded(client_buffer) = m /\ PacketSize(client_buffer) = p
      /\ p <= c /\ c \in Nat
      /\ e[h] \in Nat /\ e[h + 1] = e[h] + p /\ p \in Nat
  <2>1. ReceivedFirst(Fitting(written)) /\ Complete(client_buffer)
    BY <1>1 DEF Streamed, ClientParse
  <2>2. PICK out \in Seq(Message) : out = Fitting(written) /\ \A i \in 1..Len(out) : Fits(out[i])
    BY FittingType
  <2> QED BY <2>1, <2>2, <1>2, NextAnswer, Zenon
<1>4. /\ received' = Append(received, m)
      /\ client_buffer' = SubSeq(client_buffer, p + 1, c)
      /\ UNCHANGED <<writing_vars, down, seen>>
  BY <1>3, Zenon DEF ClientParse, Remainder
<1>5. /\ e[h] + c = seen /\ \A k \in 1..c : client_buffer[k] = down[e[h] + k]
  BY <1>2, Zenon DEF ClientBuffered
<1>6. client_buffer \in Seq(Byte) /\ received \in Seq(Message) /\ m \in Message
  BY <1>3, FittingType, ElementOfSeq, Zenon DEF TypeOK
<1> HIDE DEF m, p
<1>7. /\ Len(received') = h + 1 /\ received'[h + 1] = m
      /\ \A i \in 1..h : received'[i] = received[i]
  BY <1>4, <1>6, AppendProperties
<1> HIDE DEF c
<1>8. Len(client_buffer') = c - p /\ \A k \in 1..(c - p) : client_buffer'[k] = client_buffer[p + k]
  <2>1. PICK d \in Nat : d = c - p /\ p + d = c
    <3>1. c - p \in Nat /\ p + (c - p) = c
      BY <1>3, SMT
    <3> QED BY <3>1, Zenon
  <2>2. p + d <= Len(client_buffer)
    BY <2>1, <1>3, SMT DEF c
  <2>3. /\ Len(SubSeq(client_buffer, p + 1, p + d)) = d
        /\ \A k \in 1..d : SubSeq(client_buffer, p + 1, p + d)[k] = client_buffer[p + k]
    BY <2>2, <1>3, <1>6, SubSeqFacts, SMT
  <2> QED BY <2>1, <2>3, <1>4, Zenon
<1> HIDE DEF h
<1>9. ClientBuffered(e)'
  <2>1. e[h + 1] + (c - p) = seen
    BY <1>3, <1>5, SMT
  <2>2. ASSUME NEW k \in 1..(c - p) PROVE client_buffer'[k] = down[e[h + 1] + k]
    <3>1. p + k \in 1..c /\ e[h] + (p + k) = e[h + 1] + k
      BY <1>3, SMT
    <3> QED BY <3>1, <1>5, <1>8, Zenon
  <2> QED BY <2>1, <2>2, <1>4, <1>7, <1>8, Zenon DEF ClientBuffered
<1>10. ReceivedFirst(Fitting(written))'
  <2>1. \A i \in 1..h : received[i] = Fitting(written)[i]
    BY <1>1, Zenon DEF Streamed, ReceivedFirst, h
  <2>2. \A i \in 1..(h + 1) : i \in 1..h \/ i = h + 1
    BY <1>3, SMT
  <2>3. h + 1 <= Len(Fitting(written))
    BY <1>3, SMT
  <2>4. ASSUME NEW i \in 1..(h + 1) PROVE received'[i] = Fitting(written)[i]
    BY <2>1, <2>2, <1>7, Zenon DEF m
  <2> QED BY <2>3, <2>4, <1>7, Zenon DEF ReceivedFirst
<1>11. Streamed(written, waiting)'
  BY <1>1, <1>2, <1>4, <1>9, <1>10, Zenon DEF Streamed, Waiting, writing_vars
<1> QED BY <1>11, Zenon DEF Answered

-------------------------------------------------------------------------------
LEMMA AnsweredInductive ==
  ASSUME ConnInv, Answered, ~ShortWrites, [Next]_vars
  PROVE  Answered'
<1>1. ASSUME NEW n \in ReadSizes, ServerRead(n) PROVE Answered'
  BY <1>1, AnsweredStays, Zenon DEF ServerRead, Waiting, writing_vars
<1>2. CASE OnRead
  BY <1>2, AnsweredStays, Zenon DEF OnRead, Waiting, writing_vars
<1>3. CASE HandlePacket
  <2>1. PICK ms \in Seq(Message) : SendAll(ms)
    <3>1. PICK e : Packets(e) /\ Buffered(e)
      BY DEF ConnInv, Framed
    <3>2. Decoded(recv_buffer) \in Requests
      BY <1>3, <3>1, NextRequest, Zenon DEF HandlePacket
    <3> QED BY <1>3, <3>2, RequestsAssumption, Zenon DEF HandlePacket
  <2> QED BY <2>1, <1>3, SendKeepsAnswered, Zenon DEF HandlePacket, ConnInv
<1>4. CASE write = "busy" /\ Writes
  BY <1>4, WriteTakenKeepsAnswered, Zenon DEF Writes, ConnInv
<1>5. CASE OnWrite
  <2>1. write' # "done" /\ write = "done" /\ write_queue' = Tail(write_queue)
    BY <1>5, Zenon DEF OnWrite, NextWrite
  <2>2. Waiting' = Waiting
    BY <2>1, Zenon DEF Waiting
  <2> QED BY <2>2, <1>5, AnsweredStays, Zenon DEF OnWrite
<1>6. CASE OnWriteAborted
  BY <1>6, AnsweredStays, Zenon DEF OnWriteAborted, Waiting
<1>7. CASE Close
  BY <1>7, AnsweredStays, Zenon DEF Close, Waiting, writing_vars
<1>8. ASSUME NEW m \in Notices, Notify(m) PROVE Answered'
  <2>1. <<m>> \in Seq(Message)
    BY NoticesAssumption, SMT
  <2> QED BY <2>1, <1>8, SendKeepsAnswered, Zenon DEF Notify, ConnInv
<1>9. ASSUME NEW m \in Requests, ClientSend(m) PROVE Answered'
  BY <1>9, AnsweredStays, Zenon DEF ClientSend, Waiting, writing_vars
<1>10. ASSUME NEW n \in ReadSizes, ClientRead(n) PROVE Answered'
  BY <1>10, ClientReadKeepsAnswered DEF ConnInv
<1>11. CASE ClientParse
  BY <1>11, ClientParseKeepsAnswered DEF ConnInv
<1>12. CASE UNCHANGED vars
  BY <1>12, AnsweredStays, Zenon DEF vars, Waiting, writing_vars
<1> QED
  BY <1>1, <1>2, <1>3, <1>4, <1>5, <1>6, <1>7, <1>8, <1>9, <1>10, <1>11, <1>12, Zenon
     DEF Next, ServerStep, ClientStep

\* What is sent is more to deliver, unless it does not fit.
LEMMA SendIsDown ==
  ASSUME TypeOK, NEW ms \in Seq(Message), SendAll(ms), UNCHANGED <<received, closed>>
  PROVE  [Down!Next]_(Down!vars)
<1>1. PICK old \in Seq(Message), more \in Seq(Message) : old = Fitting(replies) /\ more = Fitting(ms)
  BY FittingType, Zenon DEF TypeOK
<1>2. replies \in Seq(Message) /\ replies' = replies \o ms
  BY Zenon DEF TypeOK, SendAll
<1>3. Fitting(replies') = old \o more
  <2>1. FittingOfConcat(replies, ms)
    BY <1>2, FittingConcat, Zenon
  <2> QED BY <2>1, <1>1, <1>2, Zenon DEF FittingOfConcat
<1>4. CASE more = <<>>
  <2>1. old \o <<>> = old
    BY ConcatEmptySeq
  <2> QED BY <2>1, <1>1, <1>3, <1>4, Zenon DEF Down!vars
<1>5. CASE more # <<>>
  <2>1. Len(old \o more) > Len(old) /\ SubSeq(old \o more, 1, Len(old)) = old
    BY <1>5, SMT
  <2>2. Down!Extends(Fitting(replies'), Fitting(replies))
    BY <2>1, <1>1, <1>3, Zenon DEF Down!Extends
  <2>3. Down!Send
    BY <2>2, Zenon DEF Down!Send
  <2> QED BY <2>3, Zenon DEF Down!Next
<1> QED BY <1>4, <1>5

LEMMA DownStep ==
  ASSUME ConnInv, Answered, ~ShortWrites, [Next]_vars
  PROVE  [Down!Next]_(Down!vars)
<1>1. CASE HandlePacket
  <2>1. PICK ms \in Seq(Message) : SendAll(ms)
    <3>1. PICK e : Packets(e) /\ Buffered(e)
      BY DEF ConnInv, Framed
    <3>2. Decoded(recv_buffer) \in Requests
      BY <1>1, <3>1, NextRequest, Zenon DEF HandlePacket
    <3> QED BY <1>1, <3>2, RequestsAssumption, Zenon DEF HandlePacket
  <2> QED BY <2>1, <1>1, SendIsDown, Zenon DEF HandlePacket, ConnInv, client_vars
<1>2. ASSUME NEW m \in Notices, Notify(m) PROVE [Down!Next]_(Down!vars)
  <2>1. <<m>> \in Seq(Message)
    BY NoticesAssumption, SMT
  <2> QED BY <2>1, <1>2, SendIsDown, Zenon DEF Notify, ConnInv, client_vars
<1>3. CASE ClientParse
  <2>1. PICK written \in Seq(Message), waiting \in Seq(Message) : Streamed(written, waiting)
    BY DEF Answered
  <2>2. PICK e : PacketsOf(Fitting(written), down, e) /\ ClientBuffered(e)
    BY <2>1 DEF Streamed
  <2>3. PICK out \in Seq(Message), later \in Seq(Message) :
          out = Fitting(written) /\ later = Fitting(waiting) /\ \A i \in 1..Len(out) : Fits(out[i])
    BY FittingType
  <2>4. /\ Len(received) + 1 \in 1..Len(out) /\ Len(received) \in Nat
        /\ Decoded(client_buffer) = out[Len(received) + 1]
    <3>1. ReceivedFirst(Fitting(written)) /\ Complete(client_buffer)
      BY <1>3, <2>1 DEF Streamed, ClientParse
    <3> QED BY <3>1, <2>2, <2>3, NextAnswer, Zenon DEF ConnInv
  <2>5. Fitting(replies) = out \o later
    <3>1. FittingOfConcat(written, waiting)
      BY FittingConcat, Zenon
    <3> QED BY <3>1, <2>1, <2>3, Zenon DEF FittingOfConcat, Streamed
  <2>6. PICK h \in Nat : h = Len(received)
    BY <2>4
  <2>7. h < Len(out \o later) /\ (out \o later)[h + 1] = out[h + 1]
    <3>1. Len(out \o later) = Len(out) + Len(later) /\ Len(out) \in Nat /\ Len(later) \in Nat
          /\ \A k \in 1..Len(out) : (out \o later)[k] = out[k]
      BY SeqFacts, LenProperties
    <3> QED BY <3>1, <2>4, <2>6, SMT
  <2>8. received' = Append(received, Decoded(client_buffer)) /\ UNCHANGED <<replies, closed>>
    BY <1>3, Zenon DEF ClientParse, writing_vars
  <2>9. Down!Deliver
    BY <2>4, <2>5, <2>6, <2>7, <2>8, Zenon DEF Down!Deliver
  <2> QED BY <2>9, Zenon DEF Down!Next
<1>4. CASE Close
  BY <1>4, Zenon DEF Close, Down!Next, Down!Break, writing_vars, client_vars
<1>5. ASSUME \/ \E n \in ReadSizes : ServerRead(n) \/ ClientRead(n)
             \/ OnRead \/ (write = "busy" /\ Writes) \/ OnWrite \/ OnWriteAborted
             \/ (\E m \in Requests : ClientSend(m)) \/ UNCHANGED vars
      PROVE  UNCHANGED Down!vars
  BY <1>5, Zenon DEF ServerRead, ClientRead, OnRead, Writes, WriteTaken, OnWrite, OnWriteAborted,
     ClientSend, vars, writing_vars, client_vars, Down!vars
<1> QED
  BY <1>1, <1>2, <1>3, <1>4, <1>5, Zenon DEF Next, ServerStep, ClientStep

\* The connection delivers what Session::send was given as MessageChannel promises: the
\* client is given the messages that fit, once each and in order, however the answers of
\* the handlers, the broadcasts of other sessions and the completions of the writes
\* follow one another, and however TCP cuts the stream.
THEOREM RepliesAreFramed == ~ShortWrites => (Spec => RepliesInOrder)
<1> SUFFICES ASSUME ~ShortWrites PROVE Spec => RepliesInOrder
  OBVIOUS
<1>1. Init => ConnInv /\ Answered /\ Down!Init
  <2>1. Fitting(<<>>) = <<>>
    BY SelectedEmpty, Zenon DEF Fitting
  <2> QED BY <2>1, InitConn, InitAnswered, Zenon DEF Init, Down!Init
<1>2. ConnInv /\ Answered /\ [Next]_vars => (ConnInv /\ Answered)'
  BY ConnInductive, AnsweredInductive
<1>3. ConnInv /\ Answered /\ [Next]_vars => [Down!Next]_(Down!vars)
  BY DownStep
<1> QED BY <1>1, <1>2, <1>3, PTL DEF Spec, RepliesInOrder, Down!Spec
===============================================================================
