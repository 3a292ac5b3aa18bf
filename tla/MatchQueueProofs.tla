--------------------------- MODULE MatchQueueProofs ---------------------------
(***************************************************************************)
(* Mirror and NeverFull for every set of players and every room size.      *)
(* They are inductive only together: that the deque never holds a room's   *)
(* worth is what makes a pop empty it, and that it has no duplicates is    *)
(* what makes removing one occurrence enough.                              *)
(***************************************************************************)
EXTENDS MatchQueue, TLAPS

QueueInv == TypeOK /\ Mirror /\ NeverFull

\* What erasing the i-th element of a deque leaves.
LEMMA RemoveAtProperties ==
  ASSUME NEW S, NEW s \in Seq(S), NEW i \in 1..Len(s)
  PROVE  /\ RemoveAt(s, i) \in Seq(S)
         /\ Len(RemoveAt(s, i)) = Len(s) - 1
         /\ \A j \in 1..(Len(s) - 1) :
               RemoveAt(s, i)[j] = IF j < i THEN s[j] ELSE s[j + 1]
<1> DEFINE front == SubSeq(s, 1, i - 1)
           back == SubSeq(s, i + 1, Len(s))
<1>1. front \in Seq(S) /\ Len(front) = i - 1 /\ \A j \in 1..(i - 1) : front[j] = s[j]
  OBVIOUS
<1>2. back \in Seq(S) /\ Len(back) = Len(s) - i /\ \A j \in 1..(Len(s) - i) : back[j] = s[i + j]
  OBVIOUS
<1>3. RemoveAt(s, i) = front \o back
  BY DEF RemoveAt
<1> HIDE DEF front, back
<1>4. front \o back \in Seq(S) /\ Len(front \o back) = Len(s) - 1
  BY <1>1, <1>2
<1>5. ASSUME NEW j \in 1..(Len(s) - 1)
      PROVE  (front \o back)[j] = IF j < i THEN s[j] ELSE s[j + 1]
  <2>1. CASE j < i
    BY <1>1, <1>2, <2>1
  <2>2. CASE ~(j < i)
    <3>1. j - Len(front) \in 1..Len(back) /\ i + (j - Len(front)) = j + 1
      BY <1>1, <1>2, <2>2
    <3>2. (front \o back)[j] = back[j - Len(front)]
      BY <1>1, <1>2, <2>2
    <3> QED BY <1>2, <2>2, <3>1, <3>2
  <2> QED BY <2>1, <2>2
<1> QED BY <1>3, <1>4, <1>5

\* The index leave erases is one that holds the player; without duplicates the
\* first such index is the only one.
LEMMA FirstIndexProperties ==
  ASSUME TypeOK, Mirror, NEW p, p \in ToSet(queue)
  PROVE  FirstIndex(p) \in 1..Len(queue) /\ queue[FirstIndex(p)] = p
<1>1. PICK i \in 1..Len(queue) : queue[i] = p
  BY DEF ToSet, TypeOK
<1>2. \A j \in 1..Len(queue) : queue[j] = p => i <= j
  BY <1>1 DEF Mirror
<1> QED BY <1>1, <1>2 DEF FirstIndex

LEMMA InitQueue == Init => QueueInv
  BY RoomSizeAssumption DEF Init, QueueInv, TypeOK, Mirror, NeverFull, ToSet

LEMMA JoinKeeps ==
  ASSUME QueueInv, NEW p \in PlayerIds, join_and_pop(p)
  PROVE  QueueInv'
<1> DEFINE q == Append(queue, p)
<1>1. /\ queue \in Seq(PlayerIds) /\ Len(queue) \in Nat /\ Len(queue) < RoomSize
      /\ in_queue = {queue[i] : i \in 1..Len(queue)}
      /\ p \notin in_queue
  BY DEF QueueInv, TypeOK, Mirror, NeverFull, join_and_pop, contains, ToSet
<1>2. /\ q \in Seq(PlayerIds) /\ Len(q) = Len(queue) + 1
      /\ \A i \in 1..Len(queue) : q[i] = queue[i]
      /\ q[Len(q)] = p
  BY <1>1
<1>3. queue' = SubSeq(q, Len(Matched(p)) + 1, Len(q))
  BY DEF join_and_pop, Joined
<1>4. in_queue' = (in_queue \cup {p}) \ {Matched(p)[i] : i \in DOMAIN Matched(p)}
  BY DEF join_and_pop, ToSet
<1> HIDE DEF q
<1>5. in_queue \cup {p} = {q[i] : i \in 1..Len(q)}
  BY <1>1, <1>2
<1>6. CASE Len(q) < RoomSize
  <2>1. Matched(p) = <<>>
    BY <1>6 DEF Matched, Joined, q
  <2>2. queue' = q
    BY <1>2, <1>3, <2>1
  <2>3. in_queue' = {q[i] : i \in 1..Len(q)}
    BY <1>4, <1>5, <2>1
  <2>4. TypeOK' /\ NeverFull'
    BY <1>1, <1>2, <1>6, <2>2, <2>3 DEF TypeOK, NeverFull
  <2>5. \A i, j \in 1..Len(q) : q[i] = q[j] => i = j
    BY <1>1, <1>2 DEF QueueInv, Mirror
  <2>6. Mirror'
    BY <1>2, <2>2, <2>3, <2>5 DEF Mirror, ToSet
  <2> QED BY <2>4, <2>6 DEF QueueInv
<1>7. CASE ~(Len(q) < RoomSize)
  <2>1. Len(q) = RoomSize
    BY <1>1, <1>2, <1>7, RoomSizeAssumption
  <2>2. Matched(p) = q
    BY <1>2, <2>1 DEF Matched, Joined, q
  <2>3. queue' = <<>>
    BY <1>2, <1>3, <2>2
  <2>4. in_queue' = {}
    BY <1>2, <1>4, <1>5, <2>2
  <2> QED BY <2>3, <2>4, RoomSizeAssumption DEF QueueInv, TypeOK, Mirror, NeverFull, ToSet
<1> QED BY <1>6, <1>7

LEMMA LeaveKeeps ==
  ASSUME QueueInv, NEW p, leave(p)
  PROVE  QueueInv'
<1>1. /\ queue \in Seq(PlayerIds) /\ Len(queue) \in Nat
      /\ in_queue = ToSet(queue)
      /\ in_queue' = in_queue \ {p}
  BY DEF QueueInv, TypeOK, Mirror, leave
<1>2. CASE p \notin in_queue
  BY <1>1, <1>2 DEF QueueInv, TypeOK, Mirror, NeverFull, leave, contains
<1>3. CASE p \in in_queue
  <2> DEFINE k == FirstIndex(p)
             q == RemoveAt(queue, k)
  <2>1. k \in 1..Len(queue) /\ queue[k] = p
    BY <1>1, <1>3, FirstIndexProperties DEF QueueInv
  <2>2. queue' = q
    BY <1>1, <1>3 DEF leave, contains
  <2> HIDE DEF k
  <2>3. /\ q \in Seq(PlayerIds)
        /\ Len(q) = Len(queue) - 1
        /\ \A j \in 1..(Len(queue) - 1) : q[j] = IF j < k THEN queue[j] ELSE queue[j + 1]
    BY <1>1, <2>1, RemoveAtProperties
  <2> HIDE DEF q
  <2>4. \A i, j \in 1..Len(queue) : queue[i] = queue[j] => i = j
    BY DEF QueueInv, Mirror
  <2>5. \A i, j \in 1..Len(q) : q[i] = q[j] => i = j
    BY <1>1, <2>1, <2>3, <2>4
  <2>6. {q[j] : j \in 1..Len(q)} = {queue[i] : i \in 1..Len(queue)} \ {p}
    <3>1. ASSUME NEW j \in 1..Len(q)
          PROVE  q[j] \in {queue[i] : i \in 1..Len(queue)} \ {p}
      BY <1>1, <2>1, <2>3, <2>4
    <3>2. ASSUME NEW i \in 1..Len(queue), queue[i] # p
          PROVE  queue[i] \in {q[j] : j \in 1..Len(q)}
      <4>1. CASE i < k
        BY <1>1, <2>1, <2>3, <4>1
      <4>2. CASE i > k
        <5>1. i - 1 \in 1..Len(q) /\ q[i - 1] = queue[i]
          BY <1>1, <2>1, <2>3, <4>2
        <5> QED BY <5>1
      <4> QED BY <2>1, <3>2, <4>1, <4>2
    <3> QED BY <3>1, <3>2
  <2>7. in_queue' = ToSet(q)
    <3>1. ToSet(q) = {q[j] : j \in 1..Len(q)}
      BY <2>3 DEF ToSet
    <3>2. ToSet(queue) = {queue[i] : i \in 1..Len(queue)}
      BY <1>1 DEF ToSet
    <3> QED BY <1>1, <2>6, <3>1, <3>2
  <2>8. TypeOK'
    BY <1>1, <2>2, <2>3 DEF QueueInv, TypeOK
  <2>9. NeverFull'
    <3>1. Len(queue) < RoomSize /\ Len(q) < Len(queue) /\ Len(q) \in Nat
      BY <1>1, <2>3 DEF QueueInv, NeverFull
    <3> QED BY <2>2, <3>1, <1>1, RoomSizeAssumption DEF NeverFull
  <2> QED BY <2>2, <2>5, <2>7, <2>8, <2>9 DEF QueueInv, Mirror
<1> QED BY <1>2, <1>3

LEMMA QueueInvInductive == QueueInv /\ [Next]_vars => QueueInv'
<1> SUFFICES ASSUME QueueInv, [Next]_vars PROVE QueueInv'
  OBVIOUS
<1>1. ASSUME NEW p \in PlayerIds, join_and_pop(p) PROVE QueueInv'
  BY <1>1, JoinKeeps
<1>2. ASSUME NEW p \in PlayerIds, leave(p) PROVE QueueInv'
  BY <1>2, LeaveKeeps
<1>3. CASE UNCHANGED vars
  BY <1>3 DEF vars, QueueInv, TypeOK, Mirror, NeverFull
<1> QED BY <1>1, <1>2, <1>3 DEF Next

\* Only players wait, in either representation, however joins and leaves follow.
THEOREM QueueTypes == Spec => []TypeOK
<1>1. Init => QueueInv
  BY InitQueue
<1>2. QueueInv /\ [Next]_vars => QueueInv'
  BY QueueInvInductive
<1>3. QueueInv => TypeOK
  BY DEF QueueInv
<1> QED BY <1>1, <1>2, <1>3, PTL DEF Spec

\* The deque and the set agree and hold nobody twice, whatever is joined, left
\* and popped: MatchQueue::contains can be trusted.
THEOREM QueueMirrored == Spec => []Mirror
<1>1. Init => QueueInv
  BY InitQueue
<1>2. QueueInv /\ [Next]_vars => QueueInv'
  BY QueueInvInductive
<1>3. QueueInv => Mirror
  BY DEF QueueInv
<1> QED BY <1>1, <1>2, <1>3, PTL DEF Spec

\* No handler returns with a room's worth of players still waiting.
THEOREM QueueNeverFull == Spec => []NeverFull
<1>1. Init => QueueInv
  BY InitQueue
<1>2. QueueInv /\ [Next]_vars => QueueInv'
  BY QueueInvInductive
<1>3. QueueInv => NeverFull
  BY DEF QueueInv
<1> QED BY <1>1, <1>2, <1>3, PTL DEF Spec
===============================================================================
