---------------------------- MODULE MessageProofs -----------------------------
(***************************************************************************)
(* Messages as bytes: what is selected of a sequence; decoding, which      *)
(* undoes encoding for every message whose body may be sent; and the       *)
(* generated classes, which read back every message they write, and know   *)
(* its length, for every schema of the program and every value.            *)
(***************************************************************************)
EXTENDS GameMessages, MessageCodec, TLAPS, WellFoundedInduction, SequenceTheorems

-------------------------------------------------------------------------------
\* Induction on the numbers, for the set of those at which a fact holds.
LEMMA Least ==
  ASSUME NEW T, T \subseteq Nat, T # {}
  PROVE  \E n \in T : \A k \in T : n <= k
<1>1. PICK n \in T : \A k \in T : ~(<<k, n>> \in OpToRel(<, Nat))
  BY NatLessThanWellFounded, WFMin
<1>2. ASSUME NEW k \in T, ~(n <= k) PROVE FALSE
  <2>1. k \in Nat /\ n \in Nat /\ k < n
    BY <1>2, SMT
  <2>2. <<k, n>> \in {p \in Nat \X Nat : p[1] < p[2]}
    BY <2>1, SMT
  <2>3. <<k, n>> \in OpToRel(<, Nat)
    BY <2>2, Zenon DEF OpToRel
  <2> QED BY <2>3, <1>1
<1> QED BY <1>2

LEMMA Induction ==
  ASSUME NEW T, T \subseteq Nat, 0 \in T, \A n \in T : n + 1 \in T
  PROVE  T = Nat
<1> SUFFICES ASSUME Nat \ T # {} PROVE FALSE
  OBVIOUS
<1>1. PICK n \in Nat \ T : \A k \in Nat \ T : n <= k
  BY Least
<1>2. n # 0 /\ n - 1 \in Nat /\ ~(n <= n - 1) /\ (n - 1) + 1 = n
  BY <1>1, SMT
<1> QED BY <1>1, <1>2

\* The recursive function that defines Selected, up to n.
Picks(s, positions, n, kept) ==
  kept = [k \in 0..n |-> IF k = 0 THEN <<>>
                         ELSE IF k \in positions THEN Append(kept[k - 1], s[k]) ELSE kept[k - 1]]

LEMMA PicksExists ==
  ASSUME NEW s, NEW positions, NEW n \in Nat
  PROVE  \E kept : Picks(s, positions, n, kept)
<1> DEFINE T == {k \in Nat : \E kept : Picks(s, positions, k, kept)}
<1>1. 0 \in T
  <2>1. Picks(s, positions, 0, [k \in 0..0 |-> <<>>])
    BY SMT DEF Picks
  <2> QED BY <2>1
<1>2. ASSUME NEW k \in T PROVE k + 1 \in T
  <2>1. PICK f : Picks(s, positions, k, f)
    OBVIOUS
  <2>2. PICK g : g = [i \in 0..(k + 1) |->
                        IF i <= k THEN f[i]
                        ELSE IF k + 1 \in positions THEN Append(f[k], s[k + 1]) ELSE f[k]]
    OBVIOUS
  <2>3. \A i \in 0..k : g[i] = f[i]
    BY <2>2, SMT
  <2>4. g[k + 1] = IF k + 1 \in positions THEN Append(f[k], s[k + 1]) ELSE f[k]
    BY <2>2, SMT
  <2>5. ASSUME NEW i \in 0..(k + 1)
        PROVE  g[i] = IF i = 0 THEN <<>>
                      ELSE IF i \in positions THEN Append(g[i - 1], s[i]) ELSE g[i - 1]
    <3>1. CASE i = k + 1
      <4>1. i # 0 /\ i - 1 = k /\ k \in 0..k
        BY <3>1, SMT
      <4> QED BY <4>1, <3>1, <2>3, <2>4, Zenon
    <3>2. CASE i \in 0..k
      <4>1. f[i] = IF i = 0 THEN <<>>
                   ELSE IF i \in positions THEN Append(f[i - 1], s[i]) ELSE f[i - 1]
        BY <3>2, <2>1, Zenon DEF Picks
      <4>2. i # 0 => i - 1 \in 0..k
        BY <3>2, SMT
      <4> QED BY <4>1, <4>2, <3>2, <2>3, Zenon
    <3> QED BY <3>1, <3>2, SMT
  <2>6. DOMAIN g = 0..(k + 1)
    BY <2>2
  <2>7. Picks(s, positions, k + 1, g)
    BY <2>2, <2>5, <2>6, Zenon DEF Picks
  <2>8. k + 1 \in Nat
    OBVIOUS
  <2> QED BY <2>7, <2>8
<1> HIDE DEF T
<1>3. T = Nat
  <2>1. T \subseteq Nat
    BY DEF T
  <2> QED BY <1>1, <1>2, <2>1, Induction
<1> QED BY <1>3 DEF T

\* Selected, position by position: what is kept of the first k elements.
KeptBy(s, positions, kept) ==
  /\ kept[0] = <<>>
  /\ \A k \in 1..Len(s) :
        kept[k] = IF k \in positions THEN Append(kept[k - 1], s[k]) ELSE kept[k - 1]

LEMMA SelectedSteps ==
  ASSUME NEW S, NEW s \in Seq(S), NEW positions
  PROVE  \E kept : /\ KeptBy(s, positions, kept) /\ Selected(s, positions) = kept[Len(s)]
                   /\ \A k \in 0..Len(s) : kept[k] \in Seq(S)
<1>1. Len(s) \in Nat /\ \A k \in 1..Len(s) : s[k] \in S
  BY LenProperties, ElementOfSeq
<1>2. PICK kept : kept = CHOOSE f : Picks(s, positions, Len(s), f)
  OBVIOUS
<1>3. Picks(s, positions, Len(s), kept)
  BY <1>1, <1>2, PicksExists, Zenon
<1>4. Selected(s, positions) = kept[Len(s)]
  BY <1>2, Zenon DEF Selected, Picks
<1>5. KeptBy(s, positions, kept)
  <2>1. ASSUME NEW k \in 0..Len(s)
        PROVE kept[k] = IF k = 0 THEN <<>>
                        ELSE IF k \in positions THEN Append(kept[k - 1], s[k]) ELSE kept[k - 1]
    BY <1>3, Zenon DEF Picks
  <2>2. 0 \in 0..Len(s) /\ \A k \in 1..Len(s) : k \in 0..Len(s) /\ k # 0
    BY <1>1, SMT
  <2> QED BY <2>1, <2>2, Zenon DEF KeptBy
<1>6. \A k \in 0..Len(s) : kept[k] \in Seq(S)
  <2> DEFINE T == {k \in Nat : k <= Len(s) => kept[k] \in Seq(S)}
  <2>1. 0 \in T
    BY <1>5, EmptySeq DEF KeptBy
  <2>2. ASSUME NEW k \in T PROVE k + 1 \in T
    <3> SUFFICES ASSUME k + 1 <= Len(s) PROVE kept[k + 1] \in Seq(S)
      OBVIOUS
    <3>1. k + 1 \in 1..Len(s) /\ (k + 1) - 1 = k /\ kept[k] \in Seq(S)
      BY <1>1, SMT
    <3>2. s[k + 1] \in S
      BY <1>1, <3>1
    <3>3. Append(kept[k], s[k + 1]) \in Seq(S)
      BY <3>1, <3>2, AppendProperties
    <3> QED BY <3>1, <3>3, <1>5, Zenon DEF KeptBy
  <2> HIDE DEF T
  <2>3. T = Nat
    <3>1. T \subseteq Nat
      BY DEF T
    <3> QED BY <2>1, <2>2, <3>1, Induction
  <2> QED BY <2>3, <1>1, SMT DEF T
<1> QED BY <1>4, <1>5, <1>6

\* What is kept of the first elements depends on nothing else.
SameAt(f, g, n) == f[n] = g[n]
LEMMA KeptAgrees ==
  ASSUME NEW s, NEW t, NEW I, NEW J, NEW f, NEW g, NEW n \in Nat,
         Len(s) \in Nat, Len(t) \in Nat, n <= Len(s), n <= Len(t),
         KeptBy(s, I, f), KeptBy(t, J, g),
         \A k \in 1..n : s[k] = t[k] /\ (k \in I <=> k \in J)
  PROVE  SameAt(f, g, n)
<1> DEFINE T == {k \in Nat : k <= n => f[k] = g[k]}
<1>1. 0 \in T
  BY DEF KeptBy
<1>2. ASSUME NEW k \in T PROVE k + 1 \in T
  <2> SUFFICES ASSUME k + 1 <= n PROVE f[k + 1] = g[k + 1]
    OBVIOUS
  <2>1. /\ k + 1 \in 1..n /\ k + 1 \in 1..Len(s) /\ k + 1 \in 1..Len(t) /\ (k + 1) - 1 = k
        /\ f[k] = g[k]
    BY SMT
  <2> QED BY <2>1, Zenon DEF KeptBy
<1> HIDE DEF T
<1>3. T = Nat
  <2>1. T \subseteq Nat
    BY DEF T
  <2> QED BY <1>1, <1>2, <2>1, Induction
<1> QED BY <1>3, SMT DEF T, SameAt

LEMMA SelectedType ==
  ASSUME NEW S, NEW s \in Seq(S), NEW positions
  PROVE  Selected(s, positions) \in Seq(S)
<1>1. Len(s) \in 0..Len(s)
  BY LenProperties, SMT
<1>2. PICK kept : /\ Selected(s, positions) = kept[Len(s)]
                  /\ \A k \in 0..Len(s) : kept[k] \in Seq(S)
  BY SelectedSteps
<1> QED BY <1>1, <1>2

LEMMA SelectedEmpty ==
  ASSUME NEW positions
  PROVE  Selected(<<>>, positions) = <<>>
<1>1. <<>> \in Seq({}) /\ Len(<<>>) = 0
  BY EmptySeq
<1>2. PICK kept : KeptBy(<<>>, positions, kept) /\ Selected(<<>>, positions) = kept[Len(<<>>)]
  BY <1>1, SelectedSteps
<1> QED BY <1>1, <1>2, Zenon DEF KeptBy

\* One more element.
LEMMA SelectedAppend ==
  ASSUME NEW S, NEW s \in Seq(S), NEW e \in S, NEW I, NEW J,
         \A k \in 1..Len(s) : k \in I <=> k \in J
  PROVE  Selected(Append(s, e), J) =
            IF Len(s) + 1 \in J THEN Append(Selected(s, I), e) ELSE Selected(s, I)
<1> DEFINE n == Len(s)
<1>1. n \in Nat
  BY LenProperties
<1>2. PICK t : t = Append(s, e)
  OBVIOUS
<1>3. /\ t \in Seq(S) /\ Len(t) = n + 1 /\ t[n + 1] = e
      /\ \A k \in 1..n : t[k] = s[k]
  BY <1>2, AppendProperties
<1>4. PICK f : KeptBy(s, I, f) /\ Selected(s, I) = f[n]
  BY SelectedSteps
<1>5. PICK g : KeptBy(t, J, g) /\ Selected(t, J) = g[n + 1]
  BY <1>3, SelectedSteps
<1> HIDE DEF n
<1>6. f[n] = g[n]
  <2>1. Len(s) \in Nat /\ Len(t) \in Nat /\ n <= Len(s) /\ n <= Len(t)
    BY <1>1, <1>3, SMT DEF n
  <2>2. \A k \in 1..n : s[k] = t[k] /\ (k \in I <=> k \in J)
    BY <1>3, Zenon DEF n
  <2>3. SameAt(f, g, n)
    BY <2>1, <2>2, <1>1, <1>4, <1>5, KeptAgrees, Zenon
  <2> QED BY <2>3 DEF SameAt
<1>7. n + 1 \in 1..Len(t) /\ (n + 1) - 1 = n
  BY <1>1, <1>3, SMT
<1>8. g[n + 1] = IF n + 1 \in J THEN Append(g[n], t[n + 1]) ELSE g[n]
  BY <1>5, <1>7, Zenon DEF KeptBy
<1> QED BY <1>2, <1>3, <1>4, <1>5, <1>6, <1>8, Zenon DEF n

\* Two sequences after one another are the only one with their elements.
IsConcat(r, s, t) == r = s \o t
LEMMA ConcatUnique ==
  ASSUME NEW S, NEW s \in Seq(S), NEW t \in Seq(S), NEW r \in Seq(S),
         Len(r) = Len(s) + Len(t),
         \A k \in 1..Len(s) : r[k] = s[k],
         \A k \in 1..Len(t) : r[Len(s) + k] = t[k]
  PROVE  IsConcat(r, s, t)
<1>1. PICK u \in Seq(S) : u = s \o t
  BY ConcatProperties
<1>2. /\ Len(s) \in Nat /\ Len(t) \in Nat /\ Len(u) = Len(s) + Len(t)
      /\ \A k \in 1..Len(s) : u[k] = s[k]
      /\ \A k \in 1..Len(t) : u[Len(s) + k] = t[k]
  BY <1>1, SMT
<1>3. ASSUME NEW i \in 1..Len(r) PROVE r[i] = u[i]
  <2>1. i \in 1..Len(s) \/ \E k \in 1..Len(t) : i = Len(s) + k
    <3>1. i \in 1..Len(s) \/ (i - Len(s) \in 1..Len(t) /\ i = Len(s) + (i - Len(s)))
      BY <1>2, SMT
    <3> QED BY <3>1, Zenon
  <2> QED BY <2>1, <1>2, Zenon
<1>4. r = u
  BY <1>2, <1>3, SeqEqual
<1> QED BY <1>1, <1>4, Zenon DEF IsConcat

ConcatThenAppend(s, t, e) == Append(s \o t, e) = s \o Append(t, e)
LEMMA ConcatAppend ==
  ASSUME NEW S, NEW s \in Seq(S), NEW t \in Seq(S), NEW e \in S
  PROVE  ConcatThenAppend(s, t, e)
<1>1. s \o t \in Seq(S) /\ <<e>> \in Seq(S)
  BY ConcatProperties
<1>2. Append(s \o t, e) = (s \o t) \o <<e>> /\ Append(t, e) = t \o <<e>>
  BY <1>1, AppendIsConcat
<1>3. (s \o t) \o <<e>> = s \o (t \o <<e>>)
  BY <1>1, ConcatAssociative
<1> QED BY <1>2, <1>3 DEF ConcatThenAppend

\* Two sequences after one another.
SelectedTogether(s, t, I, J, K) == Selected(s \o t, K) = Selected(s, I) \o Selected(t, J)
LEMMA SelectedConcat ==
  ASSUME NEW S, NEW s \in Seq(S), NEW t \in Seq(S), NEW I, NEW J, NEW K,
         \A k \in 1..Len(s) : k \in I <=> k \in K,
         \A k \in 1..Len(t) : k \in J <=> Len(s) + k \in K
  PROVE  SelectedTogether(s, t, I, J, K)
<1> DEFINE n == Len(s)
           m == Len(t)
<1>1. n \in Nat /\ m \in Nat
  BY LenProperties
<1>2. PICK u : u = s \o t
  OBVIOUS
<1>3. /\ u \in Seq(S) /\ Len(u) = n + m
      /\ \A k \in 1..n : u[k] = s[k]
      /\ \A k \in 1..m : u[n + k] = t[k]
  BY <1>2, SMT
<1>4. PICK f : KeptBy(s, I, f) /\ Selected(s, I) = f[n] /\ f[n] \in Seq(S)
  <2>1. n \in 0..n
    BY <1>1
  <2> QED BY <2>1, SelectedSteps
<1>5. PICK g : KeptBy(t, J, g) /\ Selected(t, J) = g[m] /\ \A k \in 0..m : g[k] \in Seq(S)
  BY SelectedSteps
<1>6. PICK h : KeptBy(u, K, h) /\ Selected(u, K) = h[n + m]
  <2>1. PICK h : KeptBy(u, K, h) /\ Selected(u, K) = h[Len(u)]
    <3>1. u \in Seq(S)
      BY <1>3
    <3> QED BY <3>1, SelectedSteps
  <2> QED BY <2>1, <1>3, Zenon
<1>t. \A k \in 1..m : t[k] \in S
  BY ElementOfSeq
<1> HIDE DEF n, m
<1>7. h[n] = f[n]
  <2>1. Len(s) \in Nat /\ Len(u) \in Nat /\ n <= Len(s) /\ n <= Len(u)
    BY <1>1, <1>3, SMT DEF n
  <2>2. \A k \in 1..n : s[k] = u[k] /\ (k \in I <=> k \in K)
    BY <1>3, Zenon DEF n
  <2>3. KeptBy(s, I, f) /\ KeptBy(u, K, h)
    BY <1>4, <1>6
  <2>4. SameAt(f, h, n)
    BY <2>1, <2>2, <2>3, <1>1, KeptAgrees, Zenon
  <2> QED BY <2>4 DEF SameAt
<1> DEFINE T == {k \in Nat : k <= m => h[n + k] = f[n] \o g[k]}
<1>8. 0 \in T
  <2>1. f[n] \o <<>> = f[n] /\ n + 0 = n
    BY <1>1, <1>4, ConcatEmptySeq, SMT
  <2> QED BY <2>1, <1>5, <1>7 DEF KeptBy
<1>9. ASSUME NEW k \in T PROVE k + 1 \in T
  <2>0. k \in Nat /\ k + 1 \in Nat
    OBVIOUS
  <2> SUFFICES ASSUME k + 1 <= m PROVE h[n + (k + 1)] = f[n] \o g[k + 1]
    BY <2>0, Zenon
  <2>1. /\ k + 1 \in 1..m /\ (k + 1) - 1 = k /\ k \in 0..m /\ k <= m
        /\ n + (k + 1) \in 1..Len(u) /\ (n + (k + 1)) - 1 = n + k
    BY <2>0, <1>1, <1>3, SMT
  <2>e. h[n + k] = f[n] \o g[k]
    BY <2>1, Zenon
  <2>2. h[n + (k + 1)] = IF n + (k + 1) \in K THEN Append(h[n + k], u[n + (k + 1)]) ELSE h[n + k]
    BY <2>1, <1>6, Zenon DEF KeptBy
  <2>3. g[k + 1] = IF k + 1 \in J THEN Append(g[k], t[k + 1]) ELSE g[k]
    BY <2>1, <1>5, Zenon DEF KeptBy, m
  <2>4. u[n + (k + 1)] = t[k + 1] /\ t[k + 1] \in S /\ (k + 1 \in J <=> n + (k + 1) \in K)
    BY <2>1, <1>3, <1>t, Zenon DEF n, m
  <2>5. Append(f[n] \o g[k], t[k + 1]) = f[n] \o Append(g[k], t[k + 1])
    <3>1. f[n] \in Seq(S) /\ g[k] \in Seq(S) /\ t[k + 1] \in S
      BY <1>4, <1>5, <2>1, <2>4
    <3>2. ConcatThenAppend(f[n], g[k], t[k + 1])
      BY <3>1, ConcatAppend, Zenon
    <3> QED BY <3>2, Zenon DEF ConcatThenAppend
  <2> QED BY <2>1, <2>e, <2>2, <2>3, <2>4, <2>5, Zenon
<1> HIDE DEF T
<1>10. T = Nat
  <2>1. T \subseteq Nat
    BY DEF T
  <2> QED BY <1>8, <1>9, <2>1, Induction
<1>11. h[n + m] = f[n] \o g[m]
  <2>1. m \in T /\ m <= m
    BY <1>1, <1>10
  <2> QED BY <2>1, Zenon DEF T
<1> QED BY <1>2, <1>4, <1>5, <1>6, <1>11, Zenon DEF SelectedTogether

\* Only what is at the positions is selected.
LEMMA SelectedElements ==
  ASSUME NEW S, NEW s \in Seq(S), NEW positions, NEW k \in 1..Len(Selected(s, positions))
  PROVE  \E i \in positions \cap (1..Len(s)) : Selected(s, positions)[k] = s[i]
<1>1. Len(s) \in Nat /\ \A i \in 1..Len(s) : s[i] \in S
  BY LenProperties, ElementOfSeq
<1>2. PICK f : /\ KeptBy(s, positions, f) /\ Selected(s, positions) = f[Len(s)]
               /\ \A i \in 0..Len(s) : f[i] \in Seq(S)
  BY SelectedSteps
<1> DEFINE From(u) == \A j \in 1..Len(u) : \E i \in positions \cap (1..Len(s)) : u[j] = s[i]
           T == {n \in Nat : n <= Len(s) => From(f[n])}
<1>3. 0 \in T
  BY <1>2, SMT DEF KeptBy
<1>4. ASSUME NEW n \in T PROVE n + 1 \in T
  <2> SUFFICES ASSUME n + 1 <= Len(s) PROVE From(f[n + 1])
    OBVIOUS
  <2>1. n + 1 \in 1..Len(s) /\ (n + 1) - 1 = n /\ n \in 0..Len(s) /\ From(f[n])
    BY <1>1, SMT
  <2>2. f[n + 1] = IF n + 1 \in positions THEN Append(f[n], s[n + 1]) ELSE f[n]
    BY <2>1, <1>2, Zenon DEF KeptBy
  <2>3. CASE n + 1 \in positions
    <3>1. /\ Len(Append(f[n], s[n + 1])) = Len(f[n]) + 1 /\ Len(f[n]) \in Nat
          /\ \A j \in 1..Len(f[n]) : Append(f[n], s[n + 1])[j] = f[n][j]
          /\ Append(f[n], s[n + 1])[Len(f[n]) + 1] = s[n + 1]
      BY <1>1, <1>2, <2>1, AppendProperties, LenProperties
    <3>2. ASSUME NEW l \in Nat PROVE \A j \in 1..(l + 1) : j \in 1..l \/ j = l + 1
      BY SMT
    <3> QED BY <3>1, <3>2, <2>1, <2>2, <2>3, Zenon
  <2> QED BY <2>1, <2>2, <2>3, Zenon
<1> HIDE DEF T
<1>5. T = Nat
  <2>1. T \subseteq Nat
    BY DEF T
  <2> QED BY <1>3, <1>4, <2>1, Induction
<1>6. From(f[Len(s)])
  <2>1. Len(s) \in T /\ Len(s) <= Len(s)
    BY <1>1, <1>5
  <2> QED BY <2>1 DEF T
<1> QED BY <1>2, <1>6

-------------------------------------------------------------------------------
\* The parts of a message.
LEMMA MessageParts ==
  ASSUME NEW m \in Message
  PROVE  /\ m.msg_id \in Id /\ m.body \in Seq(Byte) /\ Len(m.body) \in Nat
         /\ m = [msg_id |-> m.msg_id, body |-> m.body]
<1>1. m.msg_id \in Id /\ m.body \in Seq(Byte) /\ m = [msg_id |-> m.msg_id, body |-> m.body]
  BY SMT DEF Message
<1>2. \A s \in Seq(Byte) : Len(s) \in Nat
  BY SMT
<1> QED BY <1>1, <1>2, SMT

\* Sequences put together, and cut out, byte by byte.
LEMMA SeqFacts ==
  ASSUME NEW S, NEW s \in Seq(S), NEW t \in Seq(S)
  PROVE  /\ s \o t \in Seq(S) /\ Len(s \o t) = Len(s) + Len(t)
         /\ \A k \in 1..Len(s) : (s \o t)[k] = s[k]
         /\ \A k \in 1..Len(t) : (s \o t)[Len(s) + k] = t[k]
  BY SMT

LEMMA SubSeqFacts ==
  ASSUME NEW S, NEW s \in Seq(S), NEW i \in Nat, NEW n \in Nat, i + n <= Len(s)
  PROVE  /\ SubSeq(s, i + 1, i + n) \in Seq(S) /\ Len(SubSeq(s, i + 1, i + n)) = n
         /\ \A k \in 1..n : SubSeq(s, i + 1, i + n)[k] = s[i + k]
  BY SMT

\* The four bytes of a size hold it.
LEMMA Uint32Bytes ==
  ASSUME NEW n \in Nat, n <= MAX_BODY_SIZE
  PROVE  /\ write_uint32(n) \in Seq(Byte) /\ Len(write_uint32(n)) = 4
         /\ read_uint32(write_uint32(n)) = n
<1>1. n \div 65536 < 65536
  BY MaxBodySizeAssumption, SMT
<1>2. /\ n % 256 \in Byte /\ (n \div 256) % 256 \in Byte
      /\ (n \div 65536) % 256 \in Byte /\ n \div 16777216 \in Byte
  BY <1>1, SMT DEF Byte
<1>3. (n % 256) + (256 * ((n \div 256) % 256)) + (65536 * ((n \div 65536) % 256))
                + (16777216 * (n \div 16777216)) = n
  BY <1>1, SMT
<1>4. write_uint32(n) \in Seq(Byte) /\ Len(write_uint32(n)) = 4
  BY <1>2, SMT DEF write_uint32
<1>5. read_uint32(write_uint32(n)) = n
  BY <1>3, SMT DEF write_uint32, read_uint32
<1> QED BY <1>4, <1>5

\* The two bytes of an id hold it.
LEMMA Uint16Bytes ==
  ASSUME NEW n \in Id
  PROVE  /\ write_uint16(n) \in Seq(Byte) /\ Len(write_uint16(n)) = 2
         /\ read_uint16(write_uint16(n)) = n
<1>0. n \in Nat /\ n < 65536
  BY SMT DEF Id
<1>1. n % 256 \in Byte /\ n \div 256 \in Byte
  BY <1>0, SMT DEF Byte
<1>2. write_uint16(n) \in Seq(Byte) /\ Len(write_uint16(n)) = 2
  BY <1>1, SMT DEF write_uint16
<1>3. (n % 256) + (256 * (n \div 256)) = n
  BY <1>0, SMT
<1>4. write_uint16(n)[1] = n % 256 /\ write_uint16(n)[2] = n \div 256
  BY SMT DEF write_uint16
<1>5. read_uint16(write_uint16(n)) = n
  BY <1>3, <1>4, SMT DEF read_uint16
<1> QED BY <1>2, <1>5

\* A header of six bytes and what follows it, byte by byte.  (The two lengths are
\* bounded on both sides: equations with a number mislead the SMT translation.)
LEMMA Header ==
  ASSUME NEW u \in Seq(Byte), NEW v \in Seq(Byte), NEW w \in Seq(Byte),
         4 <= Len(u), Len(u) <= 4, 2 <= Len(v), Len(v) <= 2
  PROVE  /\ u \o v \o w \in Seq(Byte) /\ Len(u \o v \o w) = 6 + Len(w)
         /\ \A k \in 1..4 : (u \o v \o w)[k] = u[k]
         /\ \A k \in 1..2 : (u \o v \o w)[4 + k] = v[k]
         /\ \A k \in 1..Len(w) : (u \o v \o w)[6 + k] = w[k]
  BY SMT

\* What encode writes: size, id, body.
LEMMA EncodeShape ==
  ASSUME NEW m \in Message, Fits(m)
  PROVE  /\ encode(m) \in Seq(Byte)
         /\ Len(encode(m)) = HEADER_SIZE + Len(m.body)
         /\ \A k \in 1..4 : encode(m)[k] = write_uint32(Len(m.body))[k]
         /\ \A k \in 1..2 : encode(m)[4 + k] = write_uint16(m.msg_id)[k]
         /\ \A k \in 1..Len(m.body) : encode(m)[HEADER_SIZE + k] = m.body[k]
<1>1. /\ Len(m.body) \in Nat /\ Len(m.body) <= MAX_BODY_SIZE
      /\ m.body \in Seq(Byte) /\ m.msg_id \in Id
  BY MessageParts, Zenon DEF Fits
<1>2. /\ write_uint32(Len(m.body)) \in Seq(Byte) /\ Len(write_uint32(Len(m.body))) = 4
      /\ write_uint16(m.msg_id) \in Seq(Byte) /\ Len(write_uint16(m.msg_id)) = 2
  BY <1>1, Uint32Bytes, Uint16Bytes, Zenon
<1>3. encode(m) = write_uint32(Len(m.body)) \o write_uint16(m.msg_id) \o m.body
  BY Zenon DEF encode
<1> DEFINE u == write_uint32(Len(m.body))
           v == write_uint16(m.msg_id)
<1>u. 4 <= Len(u) /\ Len(u) <= 4 /\ 2 <= Len(v) /\ Len(v) <= 2
  BY <1>2, SMT
<1>4. /\ u \o v \o m.body \in Seq(Byte) /\ Len(u \o v \o m.body) = 6 + Len(m.body)
      /\ \A k \in 1..4 : (u \o v \o m.body)[k] = u[k]
      /\ \A k \in 1..2 : (u \o v \o m.body)[4 + k] = v[k]
      /\ \A k \in 1..Len(m.body) : (u \o v \o m.body)[6 + k] = m.body[k]
  BY <1>1, <1>2, <1>u, Header, Zenon
<1> QED
  BY <1>3, <1>4, Zenon DEF HEADER_SIZE

\* A buffer that agrees with the encoded message as far as it goes.
Begins(b, m) == \A k \in 1..Len(b) : k <= Len(encode(m)) => b[k] = encode(m)[k]

\* Such a buffer is found complete only when the whole packet is there, and gives back
\* the message, whatever its id, its body and what comes after it (try_decode against
\* encode).
THEOREM DecodeEncoded ==
  ASSUME NEW m \in Message, Fits(m), NEW b \in Seq(Byte), Begins(b, m), Complete(b)
  PROVE  /\ PacketSize(b) = Len(encode(m)) /\ Len(encode(m)) <= Len(b)
         /\ Decoded(b) = m
<1> DEFINE e == encode(m)
           w == m.body
           n == Len(w)
           u == write_uint32(n)
           v == write_uint16(m.msg_id)
<1>1. /\ Len(e) = 6 + n /\ w \in Seq(Byte) /\ n \in Nat /\ n = Len(w)
      /\ \A k \in 1..4 : e[k] = u[k]
      /\ \A k \in 1..2 : e[4 + k] = v[k]
      /\ \A k \in 1..n : e[6 + k] = w[k]
      /\ read_uint32(u) = n /\ read_uint16(v) = m.msg_id
  BY EncodeShape, MessageParts, Uint32Bytes, Uint16Bytes DEF HEADER_SIZE, Fits
<1>2. Len(b) >= 6 /\ Len(b) >= PacketSize(b) /\ Len(b) \in Nat
  BY SMT DEF Complete, HEADER_SIZE
<1> HIDE DEF e, w, n, u, v
<1>3. \A k \in 1..Len(b) : k <= Len(e) => b[k] = e[k]
  BY DEF Begins, e
<1>4. b[1] = u[1] /\ b[2] = u[2] /\ b[3] = u[3] /\ b[4] = u[4] /\ b[5] = v[1] /\ b[6] = v[2]
  BY <1>1, <1>2, <1>3, SMT
<1>5. read_uint32(b) = n
  BY <1>1, <1>4, SMT DEF read_uint32
<1>6. PacketSize(b) = Len(e) /\ PacketSize(b) = 6 + n /\ Len(e) <= Len(b)
  BY <1>1, <1>2, <1>5, SMT DEF PacketSize, BodySize, HEADER_SIZE
<1>7. read_uint16(SubSeq(b, 5, 6)) = m.msg_id
  <2>1. SubSeq(b, 5, 6)[1] = b[5] /\ SubSeq(b, 5, 6)[2] = b[6]
    BY <1>2, SMT
  <2>2. read_uint16(SubSeq(b, 5, 6)) = read_uint16(v)
    BY <2>1, <1>4, SMT DEF read_uint16
  <2> QED BY <2>2, <1>1
<1>8. SubSeq(b, 7, 6 + n) = w
  <2> DEFINE s == SubSeq(b, 7, 6 + n)
  <2>1. s \in Seq(Byte) /\ Len(s) = n /\ \A k \in 1..n : s[k] = b[6 + k]
    <3>1. 6 + n <= Len(b) /\ n \in Nat /\ 6 \in Nat
      BY <1>1, <1>2, <1>6, SMT
    <3>2. SubSeq(b, 6 + 1, 6 + n) \in Seq(Byte) /\ Len(SubSeq(b, 6 + 1, 6 + n)) = n
          /\ \A k \in 1..n : SubSeq(b, 6 + 1, 6 + n)[k] = b[6 + k]
      BY <3>1, SubSeqFacts, Zenon
    <3>3. 6 + 1 = 7
      BY SMT
    <3> QED BY <3>2, <3>3, Zenon
  <2>2. ASSUME NEW k \in 1..n PROVE b[6 + k] = w[k]
    <3>1. 6 + k \in 1..Len(b) /\ 6 + k <= Len(e)
      BY <1>1, <1>2, <1>6, SMT
    <3> QED BY <3>1, <1>1, <1>3, Zenon
  <2> HIDE DEF s
  <2>3. \A k \in 1..n : s[k] = w[k]
    BY <2>1, <2>2
  <2>4. s = w
    BY <1>1, <2>1, <2>3, SMT
  <2> QED BY <2>4 DEF s
<1>9. Decoded(b) = [msg_id |-> m.msg_id, body |-> w]
  <2>1. HEADER_SIZE + 1 = 7
    BY SMT DEF HEADER_SIZE
  <2> QED BY <2>1, <1>6, <1>7, <1>8, Zenon DEF Decoded
<1> QED
  BY <1>6, <1>9, MessageParts DEF e, w

\* Whatever the bytes are, what is decoded is a message, and bytes remain.
LEMMA DecodedType ==
  ASSUME NEW b \in Seq(Byte), Complete(b)
  PROVE  /\ Decoded(b) \in Message /\ Remainder(b) \in Seq(Byte)
         /\ PacketSize(b) \in Nat /\ PacketSize(b) <= Len(b)
<1>1. Len(b) \in Nat /\ Len(b) >= 6 /\ Len(b) >= PacketSize(b)
  BY SMT DEF Complete, HEADER_SIZE
<1>2. \A k \in 1..6 : b[k] \in Nat /\ b[k] < 256
  <2>1. \A k \in 1..6 : b[k] \in Byte
    BY <1>1, SMT
  <2>2. \A x \in Byte : x \in Nat /\ x < 256
    BY SMT DEF Byte
  <2> QED BY <2>1, <2>2, Zenon
<1>3. PacketSize(b) \in Nat /\ PacketSize(b) >= 6
  <2>1. /\ b[1] \in Nat /\ b[2] \in Nat /\ b[3] \in Nat /\ b[4] \in Nat
    BY <1>2, SMT
  <2>2. PICK x \in Nat, y \in Nat, z \in Nat, t \in Nat :
            x = b[1] /\ y = b[2] /\ z = b[3] /\ t = b[4]
    BY <2>1, Zenon
  <2>3. x + (256 * y) + (65536 * z) + (16777216 * t) \in Nat
    BY SMT
  <2>4. read_uint32(b) = x + (256 * y) + (65536 * z) + (16777216 * t)
    BY <2>2, SMT DEF read_uint32
  <2> QED BY <2>3, <2>4, SMT DEF PacketSize, BodySize, HEADER_SIZE
<1>4. read_uint16(SubSeq(b, 5, 6)) \in Id
  <2>1. SubSeq(b, 5, 6)[1] = b[5] /\ SubSeq(b, 5, 6)[2] = b[6]
    BY <1>1, SMT
  <2>2. ASSUME NEW x \in Nat, NEW y \in Nat, x < 256, y < 256
        PROVE  x + (256 * y) \in Id
    BY <2>2, SMT DEF Id
  <2>3. b[5] \in Nat /\ b[5] < 256 /\ b[6] \in Nat /\ b[6] < 256
    BY <1>2, SMT
  <2>4. b[5] + (256 * b[6]) \in Id
    BY <2>2, <2>3, Zenon
  <2> QED BY <2>1, <2>4, Zenon DEF read_uint16
<1> DEFINE size == PacketSize(b)
<1> HIDE DEF size
<1>5. size \in Nat /\ size >= 6 /\ size <= Len(b)
  BY <1>1, <1>3 DEF size
<1>6. SubSeq(b, 7, size) \in Seq(Byte) /\ SubSeq(b, size + 1, Len(b)) \in Seq(Byte)
  BY <1>1, <1>5, SMT
<1>7. HEADER_SIZE + 1 = 7
  BY SMT DEF HEADER_SIZE
<1>8. Decoded(b) \in Message
  <2>1. Decoded(b) = [msg_id |-> read_uint16(SubSeq(b, 5, 6)), body |-> SubSeq(b, 7, size)]
    BY <1>7, Zenon DEF Decoded, size
  <2> DEFINE id == read_uint16(SubSeq(b, 5, 6))
             body == SubSeq(b, 7, size)
  <2>2. id \in Id /\ body \in Seq(Byte)
    BY <1>4, <1>6
  <2> HIDE DEF id, body
  <2>3. [msg_id |-> id, body |-> body] \in Message
    BY <2>2, SMT DEF Message
  <2> QED BY <2>1, <2>3, Zenon DEF id, body
<1> QED BY <1>1, <1>3, <1>6, <1>8, Zenon DEF Remainder, size

-------------------------------------------------------------------------------
(***************************************************************************)
(* Varints.  groups[n] is what n shifts of seven bits leave of a number.   *)
(***************************************************************************)
GroupsOf(v, n, groups) == groups = [k \in 0..n |-> IF k = 0 THEN v ELSE groups[k - 1] \div 128]

\* They exist, by induction on n.
LEMMA GroupsExist ==
  ASSUME NEW v, NEW n \in Nat
  PROVE  \E groups : GroupsOf(v, n, groups)
<1> DEFINE T == {k \in Nat : \E groups : GroupsOf(v, k, groups)}
<1>1. 0 \in T
  <2>1. GroupsOf(v, 0, [k \in 0..0 |-> v])
    BY SMT DEF GroupsOf
  <2> QED BY <2>1
<1>2. ASSUME NEW k \in T PROVE k + 1 \in T
  <2>1. PICK f : GroupsOf(v, k, f)
    OBVIOUS
  <2>2. PICK g : g = [i \in 0..(k + 1) |-> IF i <= k THEN f[i] ELSE f[k] \div 128]
    OBVIOUS
  <2>3. (\A i \in 0..k : g[i] = f[i]) /\ g[k + 1] = f[k] \div 128
    BY <2>2, SMT
  <2>5. ASSUME NEW i \in 0..(k + 1)
        PROVE  g[i] = IF i = 0 THEN v ELSE g[i - 1] \div 128
    <3>1. CASE i = k + 1
      <4>1. i # 0 /\ i - 1 = k /\ k \in 0..k
        BY <3>1, SMT
      <4> QED BY <4>1, <3>1, <2>3, Zenon
    <3>2. CASE i \in 0..k
      <4>1. f[i] = IF i = 0 THEN v ELSE f[i - 1] \div 128
        BY <3>2, <2>1, Zenon DEF GroupsOf
      <4>2. i # 0 => i - 1 \in 0..k
        BY <3>2, SMT
      <4> QED BY <4>1, <4>2, <3>2, <2>3, Zenon
    <3> QED BY <3>1, <3>2, SMT
  <2>6. DOMAIN g = 0..(k + 1)
    BY <2>2
  <2>7. GroupsOf(v, k + 1, g)
    BY <2>2, <2>5, <2>6, Zenon DEF GroupsOf
  <2>8. k + 1 \in Nat
    OBVIOUS
  <2> QED BY <2>7, <2>8
<1> HIDE DEF T
<1>3. T = Nat
  <2>1. T \subseteq Nat
    BY DEF T
  <2> QED BY <1>1, <1>2, <2>1, Induction
<1> QED BY <1>3 DEF T

Shifts(v, groups) == groups[0] = v /\ \A k \in 0..9 : groups[k + 1] = groups[k] \div 128

\* Shifted, one shift after another.
LEMMA ShiftedSteps ==
  ASSUME NEW v
  PROVE  Shifts(v, Shifted(v))
<1>1. PICK groups : groups = CHOOSE g : GroupsOf(v, 10, g)
  OBVIOUS
<1>2. GroupsOf(v, 10, groups)
  BY <1>1, GroupsExist, Zenon
<1>3. Shifted(v) = groups
  BY <1>1, Zenon DEF Shifted, GroupsOf
<1>4. \A k \in 0..10 : groups[k] = IF k = 0 THEN v ELSE groups[k - 1] \div 128
  BY <1>2, Zenon DEF GroupsOf
<1>5. 0 \in 0..10 /\ \A k \in 0..9 : k + 1 \in 0..10 /\ k + 1 # 0 /\ (k + 1) - 1 = k
  BY SMT
<1> QED BY <1>3, <1>4, <1>5, Zenon DEF Shifts


Grouped(v) ==
  \A k \in 0..9 : /\ Shifted(v)[k + 1] = Shifted(v)[k] \div 128
                  /\ Shifted(v)[k] = (128 * Shifted(v)[k + 1]) + (Shifted(v)[k] % 128)
                  /\ Shifted(v)[k] % 128 \in 0..127

LEMMA ShiftedFacts ==
  ASSUME NEW v \in Int
  PROVE  /\ \A k \in 0..10 : /\ Shifted(v)[k] \in Int
                             /\ (v >= 0 => Shifted(v)[k] >= 0)
                             /\ (v < 0 => Shifted(v)[k] < 0)
         /\ Shifted(v)[0] = v
         /\ Grouped(v)
<1>1. PICK g : g = Shifted(v)
  OBVIOUS
<1>2. g[0] = v /\ \A k \in 0..9 : g[k + 1] = g[k] \div 128
  BY <1>1, ShiftedSteps, Zenon DEF Shifts
<1> DEFINE Keeps(k) == g[k] \in Int /\ (v >= 0 => g[k] >= 0) /\ (v < 0 => g[k] < 0)
           T == {k \in Nat : k <= 10 => Keeps(k)}
<1>3. 0 \in T
  BY <1>2
<1>4. ASSUME NEW k \in T PROVE k + 1 \in T
  <2> SUFFICES ASSUME k + 1 <= 10 PROVE Keeps(k + 1)
    OBVIOUS
  <2>1. k \in 0..9 /\ Keeps(k)
    BY SMT
  <2>2. g[k + 1] = g[k] \div 128
    BY <2>1, <1>2
  <2>3. ASSUME NEW a \in Int, NEW b, b = a \div 128
        PROVE  b \in Int /\ (a >= 0 => b >= 0) /\ (a < 0 => b < 0)
    BY <2>3, SMT
  <2> QED BY <2>1, <2>2, <2>3
<1> HIDE DEF T
<1>5. T = Nat
  <2>1. T \subseteq Nat
    BY DEF T
  <2> QED BY <1>3, <1>4, <2>1, Induction
<1>6. \A k \in 0..10 : Keeps(k)
  BY <1>5, SMT DEF T
<1>7. ASSUME NEW k \in 0..9
      PROVE  /\ g[k + 1] = g[k] \div 128
             /\ g[k] = (128 * g[k + 1]) + (g[k] % 128)
             /\ g[k] % 128 \in 0..127
  <2>1. k \in 0..10
    BY SMT
  <2>2. PICK a \in Int : a = g[k]
    BY <2>1, <1>6
  <2>3. g[k + 1] = a \div 128
    BY <2>2, <1>2
  <2>4. a = (128 * (a \div 128)) + (a % 128) /\ a % 128 \in 0..127
    BY SMT
  <2> QED BY <2>2, <2>3, <2>4, Zenon
<1> QED BY <1>1, <1>2, <1>6, <1>7, Zenon DEF Grouped

\* What zero leaves.
LEMMA ShiftedZero ==
  ASSUME NEW v \in Int, NEW n \in 0..10, Shifted(v)[n] = 0, NEW m \in n..10
  PROVE  Shifted(v)[m] = 0
<1> DEFINE T == {k \in Nat : n + k <= 10 => Shifted(v)[n + k] = 0}
<1>1. 0 \in T
  <2>1. n + 0 = n
    BY SMT
  <2> QED BY <2>1
<1>2. ASSUME NEW k \in T PROVE k + 1 \in T
  <2> SUFFICES ASSUME n + (k + 1) <= 10 PROVE Shifted(v)[n + (k + 1)] = 0
    OBVIOUS
  <2>1. n + k \in 0..9 /\ n + (k + 1) = (n + k) + 1 /\ Shifted(v)[n + k] = 0
    BY SMT
  <2>2. Shifted(v)[(n + k) + 1] = Shifted(v)[n + k] \div 128
    <3>1. Grouped(v)
      BY ShiftedFacts, Zenon
    <3> QED BY <3>1, <2>1, Zenon DEF Grouped
  <2> QED BY <2>1, <2>2, SMT
<1> HIDE DEF T
<1>3. T = Nat
  <2>1. T \subseteq Nat
    BY DEF T
  <2> QED BY <1>1, <1>2, <2>1, Induction
<1>4. m - n \in Nat /\ n + (m - n) = m /\ m <= 10
  BY SMT
<1> QED BY <1>3, <1>4, Zenon DEF T

\* Lengths and tags among the numbers.
LEMMA SmallNumbers ==
  ASSUME NEW v \in Nat, v < MaxLength
  PROVE  v \in Int64s /\ (v < 128 => Shifted(v)[1] = 0)
<1>1. PICK g : g = Shifted(v)
  OBVIOUS
<1>2. g[0] = v /\ \A k \in 0..9 : g[k + 1] = g[k] \div 128
  BY <1>1, ShiftedSteps, Zenon DEF Shifts
<1>3. /\ g[1] = g[0] \div 128 /\ g[2] = g[1] \div 128 /\ g[3] = g[2] \div 128
      /\ g[4] = g[3] \div 128 /\ g[5] = g[4] \div 128
  <2>1. 0 \in 0..9 /\ 1 \in 0..9 /\ 2 \in 0..9 /\ 3 \in 0..9 /\ 4 \in 0..9
        /\ 0 + 1 = 1 /\ 1 + 1 = 2 /\ 2 + 1 = 3 /\ 3 + 1 = 4 /\ 4 + 1 = 5
    BY SMT
  <2> QED BY <1>2, <2>1, Zenon
<1>4. g[5] = 0 /\ (v < 128 => g[1] = 0)
  BY <1>2, <1>3, SMT DEF MaxLength
<1>5. 5 \in 0..10 /\ 9 \in 5..10
  BY SMT
<1>6. Shifted(v)[9] = 0
  BY <1>1, <1>4, <1>5, ShiftedZero
<1> QED BY <1>1, <1>4, <1>6 DEF Int64s

LEMMA Groups == MaxLength \in Int /\ MaxLength > 0 /\ MaxLength = 128 * (128 * (128 * 128))
  BY SMT DEF MaxLength

\* The two parts of a narrowed number: four bits with the sign, and four groups below.
LEMMA NarrowedParts ==
  ASSUME NEW v \in Int
  PROVE  \E high \in Int, low \in Int, w \in Int :
            /\ Narrowed(v) = w /\ Narrowed(w) = w
            /\ -8 <= high /\ high < 8 /\ 0 <= low /\ low < MaxLength
            /\ w = (MaxLength * high) + low
<1>1. PICK high \in Int : high = (((v \div MaxLength) + 8) % 16) - 8
  BY SMT DEF MaxLength
<1>2. PICK low \in Int : low = v % MaxLength
  BY SMT DEF MaxLength
<1>3. -8 <= high /\ high < 8
  <2>1. \A a \in Int : -8 <= ((a + 8) % 16) - 8 /\ ((a + 8) % 16) - 8 < 8
    BY SMT
  <2>2. v \div MaxLength \in Int
    BY SMT DEF MaxLength
  <2> QED BY <1>1, <2>1, <2>2
<1>4. 0 <= low /\ low < MaxLength
  BY <1>2, Groups, SMT
<1>5. PICK w \in Int : w = (MaxLength * high) + low
  BY Groups, SMT
<1>6. Narrowed(v) = w
  BY <1>1, <1>2, <1>5, Zenon DEF Narrowed
<1>7. w \div MaxLength = high /\ w % MaxLength = low
  <2>1. ASSUME NEW a \in Int, NEW b \in Int, 0 <= b, b < 268435456
        PROVE  /\ ((268435456 * a) + b) \div 268435456 = a
               /\ ((268435456 * a) + b) % 268435456 = b
    BY <2>1, SMT
  <2>2. MaxLength = 268435456
    BY SMT DEF MaxLength
  <2> QED BY <1>4, <1>5, <2>1, <2>2, SMT
<1>8. ((high + 8) % 16) - 8 = high
  BY <1>3, SMT
<1>9. Narrowed(w) = w
  BY <1>5, <1>7, <1>8, Zenon DEF Narrowed
<1> QED BY <1>3, <1>4, <1>5, <1>6, <1>9

\* A shift brings the bounds of a number 128 times closer.
Between(a, n) == -n <= a /\ a < n
LEMMA ShiftDown ==
  ASSUME NEW a \in Int, NEW n \in Int, Between(a, 128 * n)
  PROVE  Between(a \div 128, n)
BY SMT DEF Between

\* The numbers of 32 bits are numbers of 64, whatever is narrowed is one of them, and
\* they are narrowed to themselves.
LEMMA NarrowedFacts ==
  ASSUME NEW v \in Int
  PROVE  Narrowed(v) \in Int32s
<1>1. PICK high \in Int, low \in Int, w \in Int :
        /\ Narrowed(v) = w /\ Narrowed(w) = w
        /\ -8 <= high /\ high < 8 /\ 0 <= low /\ low < MaxLength
        /\ w = (MaxLength * high) + low
  BY NarrowedParts
<1>2. PICK g : g = Shifted(w)
  OBVIOUS
<1>3. g[0] = w /\ \A k \in 0..9 : g[k + 1] = g[k] \div 128
  BY <1>2, ShiftedSteps, Zenon DEF Shifts
<1>4. \A k \in 0..10 : g[k] \in Int
  BY <1>2, ShiftedFacts, Zenon
<1>5. /\ g[1] = g[0] \div 128 /\ g[2] = g[1] \div 128 /\ g[3] = g[2] \div 128
      /\ g[4] = g[3] \div 128 /\ g[5] = g[4] \div 128 /\ g[6] = g[5] \div 128
      /\ g[7] = g[6] \div 128 /\ g[8] = g[7] \div 128 /\ g[9] = g[8] \div 128
  <2>1. /\ 0 \in 0..9 /\ 1 \in 0..9 /\ 2 \in 0..9 /\ 3 \in 0..9 /\ 4 \in 0..9
        /\ 5 \in 0..9 /\ 6 \in 0..9 /\ 7 \in 0..9 /\ 8 \in 0..9
        /\ 0 + 1 = 1 /\ 1 + 1 = 2 /\ 2 + 1 = 3 /\ 3 + 1 = 4 /\ 4 + 1 = 5
        /\ 5 + 1 = 6 /\ 6 + 1 = 7 /\ 7 + 1 = 8 /\ 8 + 1 = 9
    BY SMT
  <2> QED BY <1>3, <2>1, Zenon
<1>6. /\ g[0] \in Int /\ g[1] \in Int /\ g[2] \in Int /\ g[3] \in Int /\ g[4] \in Int
      /\ g[5] \in Int /\ g[6] \in Int /\ g[7] \in Int /\ g[8] \in Int
  <2>1. /\ 0 \in 0..10 /\ 1 \in 0..10 /\ 2 \in 0..10 /\ 3 \in 0..10 /\ 4 \in 0..10
        /\ 5 \in 0..10 /\ 6 \in 0..10 /\ 7 \in 0..10 /\ 8 \in 0..10
    BY SMT
  <2> QED BY <1>4, <2>1, Zenon
<1>7. Between(w, 128 * (128 * (128 * (128 * 8))))
  <2>1. -(8 * MaxLength) <= w /\ w < 8 * MaxLength
    <3>1. ASSUME NEW a \in Int, NEW b \in Int, -8 <= a, a < 8, 0 <= b, b < 268435456
          PROVE  /\ -(8 * 268435456) <= (268435456 * a) + b
                 /\ (268435456 * a) + b < 8 * 268435456
      BY <3>1, SMT
    <3>2. MaxLength = 268435456
      BY SMT DEF MaxLength
    <3> QED BY <1>1, <3>1, <3>2, SMT
  <2>2. 8 * MaxLength = 128 * (128 * (128 * (128 * 8)))
    BY SMT DEF MaxLength
  <2> QED BY <2>1, <2>2, Zenon DEF Between
<1>8. 128 * 8 \in Int /\ 128 * (128 * 8) \in Int /\ 128 * (128 * (128 * 8)) \in Int /\ 8 \in Int
  BY SMT
<1>9. Between(g[1], 128 * (128 * (128 * 8)))
  BY <1>3, <1>5, <1>6, <1>7, <1>8, ShiftDown, Zenon
<1>10. Between(g[2], 128 * (128 * 8))
  <2>1. PICK a \in Int, n \in Int : a = g[1] /\ n = 128 * (128 * 8)
    BY <1>6, <1>8, Zenon
  <2>2. Between(a \div 128, n)
    BY <2>1, <1>9, ShiftDown, Zenon
  <2> QED BY <2>1, <2>2, <1>5, Zenon
<1>11. Between(g[3], 128 * 8)
  <2>1. PICK a \in Int, n \in Int : a = g[2] /\ n = 128 * 8
    BY <1>6, <1>8, Zenon
  <2>2. Between(a \div 128, n)
    BY <2>1, <1>10, ShiftDown, Zenon
  <2> QED BY <2>1, <2>2, <1>5, Zenon
<1>12. Between(g[4], 8)
  <2>1. PICK a \in Int, n \in Int : a = g[3] /\ n = 8
    BY <1>6, <1>8, Zenon
  <2>2. Between(a \div 128, n)
    BY <2>1, <1>11, ShiftDown, Zenon
  <2> QED BY <2>1, <2>2, <1>5, Zenon
<1>13. ASSUME NEW a \in Int, Between(a, 8) PROVE Between(a \div 128, 1)
  BY <1>13, SMT DEF Between
<1>14. ASSUME NEW a \in Int, Between(a, 1) PROVE Between(a \div 128, 1)
  BY <1>14, SMT DEF Between
<1>15. Between(g[5], 1) /\ Between(g[6], 1) /\ Between(g[7], 1) /\ Between(g[8], 1)
  BY <1>5, <1>6, <1>12, <1>13, <1>14, Zenon
<1>16. g[9] = 0 \/ g[9] = -1
  <2>1. ASSUME NEW a \in Int, Between(a, 1) PROVE a \div 128 = 0 \/ a \div 128 = -1
    BY <2>1, SMT DEF Between
  <2> QED BY <2>1, <1>5, <1>6, <1>15, Zenon
<1>17. w \in Int64s
  BY <1>2, <1>16 DEF Int64s
<1> QED BY <1>1, <1>17, Zenon DEF Int32s

-------------------------------------------------------------------------------
(***************************************************************************)
(* Reading varints.                                                        *)
(***************************************************************************)

LEMMA ByteNumbers ==
  \A x \in Byte : x \in Int /\ x >= 0 /\ x < 256
BY SMT DEF Byte

\* The recursive function that reads a varint of so many bytes, from the last one.
Reads(b, size, value) ==
  value = [n \in 1..(size + 1) |->
             IF n = size + 1 THEN 0
             ELSE IF n = 10 THEN -(b[n] % 2)
             ELSE (128 * value[n + 1]) + (b[n] % 128)]

\* It exists, by induction on the size.
LEMMA ReadsExist ==
  ASSUME NEW b, NEW size \in Nat
  PROVE  \E value : Reads(b, size, value)
<1> DEFINE rhs(f, n) == IF n = size + 1 THEN 0
                        ELSE IF n = 10 THEN -(b[n] % 2)
                        ELSE (128 * f[n + 1]) + (b[n] % 128)
           From(k) == ((size + 1) - k)..(size + 1)
           Fills(f, k) == \A n \in From(k) : f[n] = rhs(f, n)
           T == {k \in Nat : \E f : Fills(f, k)}
<1>1. 0 \in T
  <2>1. \A n \in From(0) : n = size + 1
    BY SMT
  <2>2. PICK f : f = [n \in {size + 1} |-> 0]
    OBVIOUS
  <2>3. f[size + 1] = 0
    BY <2>2
  <2>4. Fills(f, 0)
    BY <2>1, <2>3, Zenon
  <2> QED BY <2>4
<1>2. ASSUME NEW k \in T PROVE k + 1 \in T
  <2>1. PICK f : Fills(f, k)
    OBVIOUS
  <2>2. PICK m \in Int : m = (size + 1) - (k + 1)
    BY SMT
  <2>3. PICK g : g = [n \in From(k) \cup {m} |-> IF n \in From(k) THEN f[n] ELSE rhs(f, n)]
    OBVIOUS
  <2>4. /\ \A n \in From(k) : n # m /\ n # size + 1 => n + 1 \in From(k)
        /\ m # size + 1 /\ m + 1 \in From(k) /\ ~(m \in From(k))
        /\ \A n \in From(k + 1) : n \in From(k) \/ n = m
    BY <2>2, SMT
  <2>5. /\ \A n \in From(k) : g[n] = f[n]
        /\ g[m] = rhs(f, m)
    <3> HIDE DEF rhs, From
    <3> QED BY <2>3, <2>4
  <2>6. ASSUME NEW n \in From(k + 1) PROVE g[n] = rhs(g, n)
    <3>1. CASE n \in From(k)
      <4>1. g[n] = f[n] /\ f[n] = rhs(f, n)
        BY <3>1, <2>1, <2>5, Zenon
      <4>2. n # size + 1 => g[n + 1] = f[n + 1]
        <5>1. n # m
          BY <3>1, <2>4, Zenon
        <5> QED BY <5>1, <3>1, <2>4, <2>5, Zenon
      <4> QED BY <4>1, <4>2, Zenon
    <3>2. CASE n = m
      <4>1. g[n + 1] = f[n + 1] /\ g[n] = rhs(f, n)
        BY <3>2, <2>4, <2>5, Zenon
      <4> QED BY <4>1, Zenon
    <3> QED BY <3>1, <3>2, <2>4, Zenon
  <2>7. k + 1 \in Nat
    OBVIOUS
  <2>8. Fills(g, k + 1)
    BY <2>6, Zenon
  <2> QED BY <2>7, <2>8, Zenon
<1> HIDE DEF T
<1>3. T = Nat
  <2>1. T \subseteq Nat
    BY DEF T
  <2> QED BY <1>1, <1>2, <2>1, Induction
<1>4. PICK f : Fills(f, size)
  BY <1>3, Zenon DEF T
<1>5. From(size) = 1..(size + 1)
  BY SMT
<1>6. PICK g : g = [n \in 1..(size + 1) |-> f[n]]
  OBVIOUS
<1>7. ASSUME NEW n \in 1..(size + 1) PROVE f[n] = rhs(g, n)
  <2>1. f[n] = rhs(f, n)
    BY <1>4, <1>5, Zenon
  <2>2. n # size + 1 => n + 1 \in 1..(size + 1)
    BY SMT
  <2>3. n # size + 1 => g[n + 1] = f[n + 1]
    BY <2>2, <1>6
  <2> QED BY <2>1, <2>3, Zenon
<1>8. g = [n \in 1..(size + 1) |-> rhs(g, n)]
  <2> HIDE DEF rhs
  <2> QED BY <1>6, <1>7
<1>9. Reads(b, size, g)
  BY <1>8, Zenon DEF Reads
<1> QED BY <1>9, Zenon

\* A varint ends at its first byte below 128.
EndsAt(b, n) == n \in 1..10 /\ n <= Len(b) /\ b[n] < 128 /\ \A k \in 1..(n - 1) : b[k] >= 128

\* Bytes with a varint have exactly one end of it.
LEMMA VarintEnds ==
  ASSUME NEW b \in Seq(Byte), HasVarint(b)
  PROVE  EndsAt(b, VarintEnd(b))
<1> DEFINE T == {n \in 1..10 : n <= Len(b) /\ b[n] < 128}
<1>1. T \subseteq Nat /\ T # {}
  BY SMT DEF HasVarint
<1> HIDE DEF T
<1>2. PICK n \in T : \A k \in T : n <= k
  BY <1>1, Least
<1>3. n \in 1..10 /\ n <= Len(b) /\ b[n] < 128
  BY <1>2 DEF T
<1>4. ASSUME NEW k \in 1..(n - 1) PROVE b[k] >= 128
  <2>1. k \in 1..10 /\ k <= Len(b) /\ ~(n <= k) /\ k \in 1..Len(b) /\ Len(b) \in Nat
    BY <1>3, LenProperties, SMT
  <2>2. ~(b[k] < 128)
    BY <2>1, <1>2, Zenon DEF T
  <2>3. b[k] \in Int
    BY <2>1, ElementOfSeq, ByteNumbers
  <2> QED BY <2>2, <2>3, SMT
<1>5. EndsAt(b, n)
  BY <1>3, <1>4 DEF EndsAt
<1> QED BY <1>5, Zenon DEF EndsAt, VarintEnd

\* VarintEnd is that place.
LEMMA VarintEndIs ==
  ASSUME NEW b \in Seq(Byte), NEW n, EndsAt(b, n)
  PROVE  HasVarint(b) /\ VarintEnd(b) = n
<1>1. HasVarint(b)
  BY Zenon DEF EndsAt, HasVarint
<1>2. EndsAt(b, VarintEnd(b))
  BY <1>1, VarintEnds
<1>3. PICK e : e = VarintEnd(b)
  OBVIOUS
<1>4. n \in 1..10 /\ e \in 1..10 /\ Len(b) \in Nat /\ n <= Len(b) /\ e <= Len(b)
  BY <1>2, <1>3, LenProperties, Zenon DEF EndsAt
<1>5. b[n] \in Int /\ b[e] \in Int
  <2>1. n \in 1..Len(b) /\ e \in 1..Len(b)
    BY <1>4, SMT
  <2>2. b[n] \in Byte /\ b[e] \in Byte
    BY <2>1, ElementOfSeq
  <2> QED BY <2>2, ByteNumbers, Zenon
<1>6. ~(n < e) /\ ~(e < n)
  <2>1. ASSUME n < e PROVE FALSE
    <3>1. n \in 1..(e - 1)
      BY <2>1, <1>4, SMT
    <3>2. b[n] >= 128 /\ b[n] < 128
      BY <3>1, <1>2, <1>3, Zenon DEF EndsAt
    <3> QED BY <3>2, <1>5, SMT
  <2>2. ASSUME e < n PROVE FALSE
    <3>1. e \in 1..(n - 1)
      BY <2>2, <1>4, SMT
    <3>2. b[e] >= 128 /\ b[e] < 128
      BY <3>1, <1>2, <1>3, Zenon DEF EndsAt
    <3> QED BY <3>2, <1>5, SMT
  <2> QED BY <2>1, <2>2
<1>7. n = e
  BY <1>4, <1>6, SMT
<1> QED BY <1>1, <1>3, <1>7, Zenon

\* The number, byte by byte.
ReadBy(b, size, value) ==
  /\ value[size + 1] = 0
  /\ \A n \in 1..size : /\ value[n] \in Int
                        /\ n = 10 => value[n] = -(b[n] % 2)
                        /\ n # 10 => value[n] = (128 * value[n + 1]) + (b[n] % 128)

\* ReadVarint, one byte after another.
LEMMA ReadSteps ==
  ASSUME NEW b \in Seq(Byte), NEW size, EndsAt(b, size)
  PROVE  \E value : ReadBy(b, size, value) /\ ReadVarint(b) = value[1]
<1>1. size = VarintEnd(b) /\ size \in 1..10 /\ size \in Nat /\ size <= Len(b) /\ Len(b) \in Nat
  BY VarintEndIs, LenProperties, SMT DEF EndsAt
<1>2. PICK value : value = CHOOSE f : Reads(b, size, f)
  OBVIOUS
<1>3. Reads(b, size, value)
  BY <1>1, <1>2, ReadsExist, Zenon
<1>4. ReadVarint(b) = value[1]
  <2>1. ReadVarint(b) = (CHOOSE f : Reads(b, VarintEnd(b), f))[1]
    BY Zenon DEF ReadVarint, Reads
  <2> QED BY <2>1, <1>1, <1>2, Zenon
<1>5. \A n \in 1..(size + 1) : value[n] =
             IF n = size + 1 THEN 0
             ELSE IF n = 10 THEN -(b[n] % 2)
             ELSE (128 * value[n + 1]) + (b[n] % 128)
  BY <1>3, Zenon DEF Reads
<1>6. /\ size + 1 \in 1..(size + 1)
      /\ \A n \in 1..size : n \in 1..(size + 1) /\ n # size + 1 /\ n \in 1..Len(b)
  BY <1>1, SMT
<1>7. /\ value[size + 1] = 0
      /\ \A n \in 1..size : /\ n = 10 => value[n] = -(b[n] % 2)
                            /\ n # 10 => value[n] = (128 * value[n + 1]) + (b[n] % 128)
  BY <1>5, <1>6, Zenon
<1>b. \A n \in 1..size : b[n] \in Int
  <2>1. \A n \in 1..size : b[n] \in Byte
    BY <1>6, ElementOfSeq
  <2> QED BY <2>1, ByteNumbers, Zenon
<1> DEFINE T == {k \in Nat : k <= size => value[(size + 1) - k] \in Int}
<1>8. 0 \in T
  <2>1. (size + 1) - 0 = size + 1
    BY <1>1, SMT
  <2> QED BY <2>1, <1>7
<1>9. ASSUME NEW k \in T PROVE k + 1 \in T
  <2> SUFFICES ASSUME k + 1 <= size PROVE value[(size + 1) - (k + 1)] \in Int
    OBVIOUS
  <2>1. PICK n \in 1..size : n = (size + 1) - (k + 1) /\ n + 1 = (size + 1) - k /\ k <= size
    BY <1>1, SMT
  <2>2. PICK next \in Int : next = value[n + 1]
    BY <2>1
  <2>3. PICK byte \in Int : byte = b[n]
    BY <1>b
  <2>4. (n = 10 => value[n] = -(byte % 2)) /\ (n # 10 => value[n] = (128 * next) + (byte % 128))
    BY <1>7, <2>2, <2>3
  <2>5. -(byte % 2) \in Int /\ (128 * next) + (byte % 128) \in Int
    BY SMT
  <2> QED BY <2>1, <2>4, <2>5, Zenon
<1> HIDE DEF T
<1>10. T = Nat
  <2>1. T \subseteq Nat
    BY DEF T
  <2> QED BY <1>8, <1>9, <2>1, Induction
<1>11. ASSUME NEW n \in 1..size PROVE value[n] \in Int
  <2>1. (size + 1) - n \in Nat /\ (size + 1) - n <= size /\ (size + 1) - ((size + 1) - n) = n
    BY <1>1, SMT
  <2>2. value[(size + 1) - ((size + 1) - n)] \in Int
    BY <2>1, <1>10 DEF T
  <2> QED BY <2>1, <2>2
<1>12. ReadBy(b, size, value)
  BY <1>7, <1>11, Zenon DEF ReadBy
<1> QED BY <1>4, <1>12

-------------------------------------------------------------------------------
(***************************************************************************)
(* A varint, written and read.                                             *)
(***************************************************************************)

\* How many bytes a number takes, and what is left after them.
LEMMA SizeFacts ==
  ASSUME NEW v \in Int64s
  PROVE  /\ VarintSize(v) \in 1..10 /\ (VarintSize(v) = 10 <=> v < 0)
         /\ v >= 0 => Shifted(v)[VarintSize(v)] = 0
         /\ v < 0 => Shifted(v)[9] = -1
<1>1. v \in Int /\ Shifted(v)[9] \in {0, -1}
  BY DEF Int64s
<1>2. /\ \A k \in 0..10 : /\ Shifted(v)[k] \in Int
                          /\ (v >= 0 => Shifted(v)[k] >= 0)
                          /\ (v < 0 => Shifted(v)[k] < 0)
      /\ Shifted(v)[0] = v
  BY <1>1, ShiftedFacts, Zenon
<1>3. CASE v < 0
  <2>1. VarintSize(v) = 10
    BY <1>3, Zenon DEF VarintSize
  <2>2. 9 \in 0..10 /\ 10 \in 1..10 /\ ~(v >= 0)
    BY <1>1, <1>3, SMT
  <2>3. Shifted(v)[9] < 0
    BY <1>2, <1>3, <2>2, Zenon
  <2>4. Shifted(v)[9] = -1
    BY <1>1, <2>3, SMT
  <2> QED BY <1>3, <2>1, <2>2, <2>4, Zenon
<1>4. CASE ~(v < 0)
  <2> DEFINE Sized(n) == Shifted(v)[n] = 0 /\ (n > 1 => Shifted(v)[n - 1] # 0)
             T == {n \in 1..10 : Shifted(v)[n] = 0}
  <2>1. v >= 0
    BY <1>1, <1>4, SMT
  <2>2. Shifted(v)[9] = 0
    <3>1. 9 \in 0..10
      BY SMT
    <3>2. Shifted(v)[9] >= 0
      BY <1>2, <2>1, <3>1, Zenon
    <3> QED BY <1>1, <3>2, SMT
  <2>3. T \subseteq Nat /\ 9 \in T
    BY <2>2, SMT
  <2> HIDE DEF T
  <2>4. PICK n \in T : \A k \in T : n <= k
    BY <2>3, Least
  <2>5. n \in 1..10 /\ Shifted(v)[n] = 0
    BY <2>4 DEF T
  <2>6. ASSUME n > 1 PROVE Shifted(v)[n - 1] # 0
    <3>1. n - 1 \in 1..10 /\ ~(n <= n - 1)
      BY <2>5, <2>6, SMT
    <3> QED BY <3>1, <2>4, Zenon DEF T
  <2>7. VarintSize(v) = CHOOSE m \in 1..10 : Sized(m)
    BY <1>4, Zenon DEF VarintSize
  <2>8. PICK size : size = VarintSize(v)
    OBVIOUS
  <2>9. size \in 1..10 /\ Sized(size)
    BY <2>5, <2>6, <2>7, <2>8, Zenon
  <2>10. size # 10
    <3>1. size = 10 => size > 1 /\ size - 1 = 9
      BY <2>9, SMT
    <3> QED BY <3>1, <2>2, <2>9, Zenon
  <2> QED BY <1>4, <2>8, <2>9, <2>10, Zenon
<1> QED BY <1>3, <1>4

\* The bytes of a varint.
GroupOf(v, k) == IF k = 10 THEN 1 ELSE Shifted(v)[k - 1] % 128

\* The bytes of a varint are the groups of its number.
LEMMA VarintBytes ==
  ASSUME NEW v \in Int64s
  PROVE  /\ Varint(v) \in Seq(Byte) /\ Len(Varint(v)) = VarintSize(v)
         /\ \A k \in 1..VarintSize(v) :
               /\ GroupOf(v, k) \in 0..127
               /\ Varint(v)[k] = IF k = VarintSize(v) THEN GroupOf(v, k) ELSE GroupOf(v, k) + 128
<1>1. PICK size \in 1..10 : size = VarintSize(v)
  BY SizeFacts
<1>2. Varint(v) = [n \in 1..size |-> IF n = size THEN GroupOf(v, n) ELSE GroupOf(v, n) + 128]
  BY <1>1, Zenon DEF Varint, GroupOf
<1>3. ASSUME NEW k \in 1..10 PROVE GroupOf(v, k) \in 0..127
  <2>1. v \in Int /\ k - 1 \in 0..9 /\ 1 \in 0..127
    BY SMT DEF Int64s
  <2>2. Shifted(v)[k - 1] % 128 \in 0..127
    BY <2>1, ShiftedFacts, Zenon DEF Grouped
  <2> QED BY <2>1, <2>2, Zenon DEF GroupOf
<1> DEFINE f(n) == IF n = size THEN GroupOf(v, n) ELSE GroupOf(v, n) + 128
<1>4. \A n \in 1..size : n \in 1..10
  BY SMT
<1>5. ASSUME NEW n \in 1..size PROVE f(n) \in Byte
  <2>1. PICK group \in 0..127 : group = GroupOf(v, n)
    BY <1>3, <1>4
  <2>2. group \in Byte /\ group + 128 \in Byte
    BY SMT DEF Byte
  <2> QED BY <2>1, <2>2, Zenon
<1> HIDE DEF f
<1>6. /\ [n \in 1..size |-> f(n)] \in Seq(Byte)
      /\ Len([n \in 1..size |-> f(n)]) = size
      /\ \A k \in 1..size : [n \in 1..size |-> f(n)][k] = f(k)
  <2>1. size \in Nat
    BY SMT
  <2> QED BY <1>5, <2>1
<1>7. Varint(v) = [n \in 1..size |-> f(n)]
  BY <1>2, Zenon DEF f
<1> QED BY <1>1, <1>3, <1>4, <1>6, <1>7, Zenon DEF f

\* A varint before other bytes is read back, and the other bytes are left.
LEMMA VarintRead ==
  ASSUME NEW v \in Int64s, NEW t \in Seq(Byte)
  PROVE  /\ Varint(v) \o t \in Seq(Byte)
         /\ HasVarint(Varint(v) \o t)
         /\ ReadVarint(Varint(v) \o t) = v
         /\ AfterVarint(Varint(v) \o t) = t
<1>1. PICK x \in Seq(Byte) : x = Varint(v)
  BY VarintBytes
<1>2. PICK b : b = x \o t
  OBVIOUS
<1>3. PICK size \in 1..10 : size = VarintSize(v) /\ size = Len(x)
  BY <1>1, SizeFacts, VarintBytes
<1>4. /\ b \in Seq(Byte) /\ Len(b) = size + Len(t) /\ Len(t) \in Nat
      /\ \A k \in 1..size : b[k] = x[k]
      /\ \A k \in 1..Len(t) : b[size + k] = t[k]
  BY <1>2, <1>3, SeqFacts, LenProperties
<1>5. \A k \in 1..size : /\ GroupOf(v, k) \in 0..127
                         /\ b[k] = IF k = size THEN GroupOf(v, k) ELSE GroupOf(v, k) + 128
  <2>1. \A k \in 1..size : /\ GroupOf(v, k) \in 0..127
                           /\ x[k] = IF k = size THEN GroupOf(v, k) ELSE GroupOf(v, k) + 128
    <3>1. /\ \A k \in 1..VarintSize(v) :
               /\ GroupOf(v, k) \in 0..127
               /\ Varint(v)[k] = IF k = VarintSize(v) THEN GroupOf(v, k) ELSE GroupOf(v, k) + 128
      BY VarintBytes, Zenon
    <3> QED BY <3>1, <1>1, <1>3, Zenon
  <2> QED BY <2>1, <1>4, Zenon
<1>6. EndsAt(b, size)
  <2>1. size <= Len(b) /\ size \in 1..size
    BY <1>4, SMT
  <2>2. b[size] < 128
    <3>1. PICK group \in 0..127 : b[size] = group
      BY <2>1, <1>5, Zenon
    <3>2. group < 128
      BY SMT
    <3> QED BY <3>1, <3>2, Zenon
  <2>3. ASSUME NEW k \in 1..(size - 1) PROVE b[k] >= 128
    <3>1. k \in 1..size /\ k # size
      BY SMT
    <3>2. PICK group \in 0..127 : b[k] = group + 128
      BY <3>1, <1>5, Zenon
    <3> QED BY <3>2, SMT
  <2> QED BY <2>1, <2>2, <2>3, Zenon DEF EndsAt
<1>7. HasVarint(b) /\ VarintEnd(b) = size
  BY <1>4, <1>6, VarintEndIs, Zenon
<1>8. PICK value : ReadBy(b, size, value) /\ ReadVarint(b) = value[1]
  BY <1>4, <1>6, ReadSteps
<1> DEFINE s(k) == Shifted(v)[k]
<1>9. /\ v \in Int /\ s(0) = v /\ (v >= 0 => s(size) = 0 /\ size # 10)
      /\ (v < 0 => s(9) = -1 /\ size = 10) /\ (v < 0 \/ v >= 0)
      /\ \A k \in 0..9 : s(k) = (128 * s(k + 1)) + (s(k) % 128) /\ s(k + 1) \in Int
  <2>1. v \in Int
    BY DEF Int64s
  <2>2. (v >= 0 => ~(v < 0)) /\ (v < 0 \/ v >= 0) /\ \A k \in 0..9 : k + 1 \in 0..10
    BY <2>1, SMT
  <2>3. s(0) = v /\ \A k \in 0..9 : s(k) = (128 * s(k + 1)) + (s(k) % 128)
    <3>1. Shifted(v)[0] = v
      BY <2>1, ShiftedFacts, Zenon
    <3>2. \A k \in 0..9 : /\ Shifted(v)[k + 1] = Shifted(v)[k] \div 128
                           /\ Shifted(v)[k] = (128 * Shifted(v)[k + 1]) + (Shifted(v)[k] % 128)
                           /\ Shifted(v)[k] % 128 \in 0..127
      <4>1. Grouped(v)
        BY <2>1, ShiftedFacts, Zenon
      <4> QED BY <4>1, Zenon DEF Grouped
    <3> QED BY <3>1, <3>2, Zenon
  <2>4. \A k \in 0..9 : s(k + 1) \in Int
    BY <2>1, <2>2, ShiftedFacts, Zenon
  <2>5. (v >= 0 => s(size) = 0 /\ size # 10) /\ (v < 0 => s(9) = -1 /\ size = 10)
    BY <2>2, <1>3, SizeFacts, Zenon
  <2> QED BY <2>1, <2>2, <2>3, <2>4, <2>5, Zenon
<1>b. \A n \in 1..size : /\ n = 10 => value[n] = -(b[n] % 2)
                         /\ n # 10 => value[n] = (128 * value[n + 1]) + (b[n] % 128)
  BY <1>8, Zenon DEF ReadBy
<1>z. value[size + 1] = 0
  BY <1>8, Zenon DEF ReadBy
<1> HIDE DEF s
<1> DEFINE n(k) == size - k
           T == {k \in Nat : k < size => value[size - k] = s((size - k) - 1)}
<1>10. 0 \in T
  <2>1. size - 0 = size /\ size \in 1..size /\ size - 1 \in 0..9 /\ (size - 1) + 1 = size
    BY SMT
  <2>2. value[size] = s(size - 1)
    <3>1. CASE v < 0
      <4>1. size = 10 /\ b[10] = 1 /\ 10 - 1 = 9 /\ -(1 % 2) = -1
        <5>1. size = 10
          BY <3>1, <1>9
        <5>2. b[10] = GroupOf(v, 10)
          BY <2>1, <5>1, <1>5, Zenon
        <5>3. 10 - 1 = 9 /\ -(1 % 2) = -1
          BY SMT
        <5> QED BY <5>1, <5>2, <5>3, Zenon DEF GroupOf
      <4>2. value[10] = -(b[10] % 2)
        BY <4>1, <2>1, <1>b, Zenon
      <4>3. value[10] = s(9)
        BY <3>1, <4>1, <4>2, <1>9, Zenon
      <4> QED BY <4>1, <4>3, Zenon
    <3>2. CASE v >= 0
      <4>1. size # 10 /\ s(size) = 0
        BY <3>2, <1>9
      <4>2. PICK group \in 0..127 : group = b[size] /\ group = s(size - 1) % 128
        BY <4>1, <2>1, <1>5, Zenon DEF GroupOf, s
      <4>3. value[size] = (128 * 0) + (group % 128)
        <5>1. value[size] = (128 * value[size + 1]) + (b[size] % 128)
          BY <4>1, <2>1, <1>b, Zenon
        <5> QED BY <5>1, <4>2, <1>z, Zenon
      <4>4. s(size - 1) = (128 * 0) + group
        <5>1. s(size - 1) = (128 * s((size - 1) + 1)) + (s(size - 1) % 128)
          BY <2>1, <1>9, Zenon
        <5> QED BY <5>1, <4>1, <4>2, <2>1, Zenon
      <4> QED BY <4>3, <4>4, SMT
    <3> QED BY <3>1, <3>2, <1>9
  <2> QED BY <2>1, <2>2
<1>11. ASSUME NEW k \in T PROVE k + 1 \in T
  <2> SUFFICES ASSUME k + 1 < size PROVE value[size - (k + 1)] = s((size - (k + 1)) - 1)
    OBVIOUS
  <2>1. PICK m \in 1..9 : /\ m = size - (k + 1) /\ m + 1 = size - k /\ (size - k) - 1 = m
                          /\ m \in 1..size /\ m # 10 /\ m # size /\ m - 1 \in 0..9 /\ (m - 1) + 1 = m
                          /\ k < size
    BY SMT
  <2>2. PICK next \in Int : value[m + 1] = next /\ s(m) = next
    BY <2>1, <1>9, Zenon
  <2>3. PICK group \in 0..127 : b[m] = group + 128 /\ group = s(m - 1) % 128
    BY <2>1, <1>5, Zenon DEF GroupOf, s
  <2>4. value[m] = (128 * next) + ((group + 128) % 128)
    BY <2>1, <2>2, <2>3, <1>b, Zenon
  <2>5. s(m - 1) = (128 * next) + group
    BY <2>1, <2>2, <2>3, <1>9, Zenon
  <2>6. (group + 128) % 128 = group
    BY SMT
  <2> QED BY <2>1, <2>4, <2>5, <2>6, Zenon
<1> HIDE DEF T
<1>12. T = Nat
  <2>1. T \subseteq Nat
    BY DEF T
  <2> QED BY <1>10, <1>11, <2>1, Induction
<1>13. value[1] = v
  <2>1. size - 1 \in Nat /\ size - 1 < size /\ size - (size - 1) = 1 /\ 1 - 1 = 0
    BY SMT
  <2> QED BY <2>1, <1>9, <1>12, Zenon DEF T
<1>14. AfterVarint(b) = t
  <2>1. AfterVarint(b) = SubSeq(b, size + 1, Len(b))
    BY <1>7, Zenon DEF AfterVarint
  <2>2. size \in Nat /\ size + Len(t) <= Len(b)
    BY <1>4, SMT
  <2>3. /\ SubSeq(b, size + 1, size + Len(t)) \in Seq(Byte)
        /\ Len(SubSeq(b, size + 1, size + Len(t))) = Len(t)
        /\ \A k \in 1..Len(t) : SubSeq(b, size + 1, size + Len(t))[k] = b[size + k]
    BY <2>2, <1>4, SubSeqFacts
  <2>4. SubSeq(b, size + 1, size + Len(t)) = t
    BY <2>3, <1>4, SeqEqual, Zenon
  <2> QED BY <2>1, <2>4, <1>4, Zenon
<1> QED BY <1>1, <1>2, <1>4, <1>7, <1>8, <1>13, <1>14, Zenon

-------------------------------------------------------------------------------
(***************************************************************************)
(* What is read, whatever the bytes are.                                   *)
(***************************************************************************)

\* Whatever bytes are read give a number of 64 bits.
LEMMA ReadType ==
  ASSUME NEW b \in Seq(Byte), HasVarint(b)
  PROVE  ReadVarint(b) \in Int64s
<1>1. PICK size : size = VarintEnd(b) /\ EndsAt(b, size)
  BY VarintEnds
<1>2. size \in 1..10 /\ size <= Len(b) /\ Len(b) \in Nat
  BY <1>1, LenProperties, Zenon DEF EndsAt
<1>3. PICK value : ReadBy(b, size, value) /\ ReadVarint(b) = value[1]
  BY <1>1, ReadSteps
<1>4. PICK v \in Int : v = value[1]
  <2>1. 1 \in 1..size
    BY <1>2, SMT
  <2> QED BY <2>1, <1>3, Zenon DEF ReadBy
<1>b. \A n \in 1..size : b[n] \in Int
  <2>1. \A n \in 1..size : n \in 1..Len(b)
    BY <1>2, SMT
  <2>2. \A n \in 1..size : b[n] \in Byte
    BY <2>1, ElementOfSeq
  <2> QED BY <2>2, ByteNumbers, Zenon
<1>t. \A n \in 1..(size + 1) : value[n] \in Int
  <2>1. \A n \in 1..(size + 1) : n \in 1..size \/ n = size + 1
    BY <1>2, SMT
  <2>2. \A n \in 1..size : value[n] \in Int
    BY <1>3, Zenon DEF ReadBy
  <2>3. value[size + 1] = 0
    BY <1>3, Zenon DEF ReadBy
  <2>4. 0 \in Int
    OBVIOUS
  <2> QED BY <2>1, <2>2, <2>3, <2>4, Zenon
<1> DEFINE T == {k \in Nat : k <= size /\ k < 10 => Shifted(v)[k] = value[k + 1]}
<1>5. 0 \in T
  <2>1. 0 + 1 = 1
    BY SMT
  <2>2. Shifted(v)[0] = v
    BY ShiftedFacts, Zenon
  <2> QED BY <2>1, <2>2, <1>4
<1>6. ASSUME NEW k \in T PROVE k + 1 \in T
  <2> SUFFICES ASSUME k + 1 <= size, k + 1 < 10 PROVE Shifted(v)[k + 1] = value[(k + 1) + 1]
    OBVIOUS
  <2>1. k \in 0..9 /\ k + 1 \in 1..size /\ k + 1 # 10 /\ k <= size /\ k < 10 /\ (k + 1) + 1 \in 1..(size + 1)
    BY <1>2, SMT
  <2>2. Shifted(v)[k] = value[k + 1]
    BY <2>1, Zenon
  <2>3. PICK byte \in Int : byte = b[k + 1]
    BY <2>1, <1>b
  <2>4. PICK next \in Int : next = value[(k + 1) + 1]
    BY <2>1, <1>t
  <2>5. value[k + 1] = (128 * next) + (byte % 128)
    BY <2>1, <2>3, <2>4, <1>3, Zenon DEF ReadBy
  <2>6. Shifted(v)[k + 1] = Shifted(v)[k] \div 128
    <3>1. Grouped(v)
      BY ShiftedFacts, Zenon
    <3> QED BY <3>1, <2>1, Zenon DEF Grouped
  <2>7. ((128 * next) + (byte % 128)) \div 128 = next
    BY SMT
  <2> QED BY <2>2, <2>4, <2>5, <2>6, <2>7, Zenon
<1> HIDE DEF T
<1>7. T = Nat
  <2>1. T \subseteq Nat
    BY DEF T
  <2> QED BY <1>5, <1>6, <2>1, Induction
<1>8. CASE size = 10
  <2>1. 9 \in Nat /\ 9 <= size /\ 9 < 10 /\ 9 + 1 = 10 /\ 10 \in 1..size
    BY <1>8, SMT
  <2>2. Shifted(v)[9] = value[10]
    BY <2>1, <1>7, Zenon DEF T
  <2>3. value[10] = -(b[10] % 2)
    BY <2>1, <1>3, Zenon DEF ReadBy
  <2>4. PICK byte \in Int : byte = b[10]
    BY <2>1, <1>b
  <2>5. -(byte % 2) \in {0, -1}
    BY SMT
  <2> QED BY <2>2, <2>3, <2>4, <2>5, <1>3, <1>4 DEF Int64s
<1>9. CASE size # 10
  <2>1. size \in Nat /\ size <= size /\ size < 10 /\ size \in 0..10 /\ 9 \in size..10
    BY <1>2, <1>9, SMT
  <2>2. Shifted(v)[size] = 0
    <3>1. Shifted(v)[size] = value[size + 1]
      BY <2>1, <1>7, Zenon DEF T
    <3> QED BY <3>1, <1>3, Zenon DEF ReadBy
  <2>3. Shifted(v)[9] = 0
    BY <2>1, <2>2, ShiftedZero, Zenon
  <2> QED BY <2>3, <1>3, <1>4 DEF Int64s
<1> QED BY <1>8, <1>9

\* What follows a varint is a shorter sequence of bytes.
LEMMA AfterType ==
  ASSUME NEW b \in Seq(Byte), HasVarint(b)
  PROVE  AfterVarint(b) \in Seq(Byte) /\ Len(AfterVarint(b)) < Len(b)
<1>1. PICK size : size = VarintEnd(b) /\ EndsAt(b, size)
  BY VarintEnds
<1>2. size \in 1..10 /\ size <= Len(b) /\ Len(b) \in Nat
  BY <1>1, LenProperties, Zenon DEF EndsAt
<1>3. PICK n \in Nat : size \in Nat /\ size + n = Len(b) /\ n < Len(b)
  <2>1. /\ Len(b) - size \in Nat /\ size \in Nat /\ size + (Len(b) - size) = Len(b)
        /\ Len(b) - size < Len(b)
    BY <1>2, SMT
  <2> QED BY <2>1, Zenon
<1>4. SubSeq(b, size + 1, size + n) \in Seq(Byte) /\ Len(SubSeq(b, size + 1, size + n)) = n
  <2>1. size + n <= Len(b)
    BY <1>2, <1>3, SMT
  <2> QED BY <2>1, <1>3, SubSeqFacts
<1> QED BY <1>1, <1>3, <1>4, Zenon DEF AfterVarint

-------------------------------------------------------------------------------
(***************************************************************************)
(* Taking a sequence apart: what is found first, and then what is found in *)
(* the rest, which is shorter.                                             *)
(***************************************************************************)
Chain(first, ends, rest, f, n) ==
  f[n] = IF ends[n] THEN first[n] ELSE first[n] \o f[rest[n]]

\* It exists, by induction on the number of bytes.
LEMMA ChainExists ==
  ASSUME NEW first, NEW ends, NEW rest, NEW n \in Nat,
         \A k \in 0..n : ~ends[k] => rest[k] \in 0..(k - 1)
  PROVE  \E f : /\ f = [k \in 0..n |-> f[k]]
                /\ \A k \in 0..n : Chain(first, ends, rest, f, k)
<1> DEFINE rhs(f, k) == IF ends[k] THEN first[k] ELSE first[k] \o f[rest[k]]
           Filled(f, k) == \A i \in 0..k : f[i] = rhs(f, i)
           T == {k \in Nat : k <= n => \E f : f = [i \in 0..k |-> f[i]] /\ Filled(f, k)}
<1>0. n \in Nat
  OBVIOUS
<1>1. 0 \in T
  <2>1. 0 \in 0..n /\ \A i \in 0..0 : i = 0
    BY SMT
  <2>2. ends[0]
    <3>1. ~(rest[0] \in 0..(0 - 1))
      BY SMT
    <3> QED BY <2>1, <3>1
  <2>3. PICK f : f = [i \in 0..0 |-> first[0]]
    OBVIOUS
  <2>4. f[0] = first[0] /\ f = [i \in 0..0 |-> f[i]]
    BY <2>3
  <2>5. Filled(f, 0)
    BY <2>1, <2>2, <2>4, Zenon
  <2> QED BY <2>4, <2>5
<1>2. ASSUME NEW k \in T PROVE k + 1 \in T
  <2> SUFFICES ASSUME k + 1 <= n
               PROVE  \E f : f = [i \in 0..(k + 1) |-> f[i]] /\ Filled(f, k + 1)
    OBVIOUS
  <2>k. k \in Nat /\ k <= n /\ k + 1 \in 0..n /\ (k + 1) - 1 = k
    BY <1>0, SMT
  <2>1. PICK f : Filled(f, k)
    BY <2>k
  <2>2. PICK g : g = [i \in 0..(k + 1) |-> IF i \in 0..k THEN f[i] ELSE rhs(f, i)]
    OBVIOUS
  <2>3. /\ \A i \in 0..k : i \in 0..(k + 1) /\ i \in 0..n
        /\ \A i \in 0..k : \A j \in 0..(i - 1) : j \in 0..k
        /\ ~(k + 1 \in 0..k) /\ k + 1 \in 0..(k + 1)
        /\ \A i \in 0..(k + 1) : i \in 0..k \/ i = k + 1
    BY <2>k, <1>0, SMT
  <2>4. (\A i \in 0..k : g[i] = f[i]) /\ g[k + 1] = rhs(f, k + 1)
    <3> HIDE DEF rhs
    <3> QED BY <2>2, <2>3
  <2>5. ASSUME NEW i \in 0..(k + 1) PROVE g[i] = rhs(g, i)
    <3>1. ~ends[i] => rest[i] \in 0..k
      <4>1. i \in 0..n
        BY <2>3, <2>k, Zenon
      <4>2. ~ends[i] => rest[i] \in 0..(i - 1)
        BY <4>1
      <4>3. i = k + 1 \/ i \in 0..k
        BY <2>3
      <4> QED BY <4>2, <4>3, <2>3, <2>k, Zenon
    <3>2. ~ends[i] => g[rest[i]] = f[rest[i]]
      BY <3>1, <2>4, Zenon
    <3>3. g[i] = rhs(f, i)
      BY <2>1, <2>3, <2>4, Zenon
    <3> QED BY <3>2, <3>3, Zenon
  <2>6. g = [i \in 0..(k + 1) |-> g[i]]
    BY <2>2
  <2> QED BY <2>5, <2>6, Zenon
<1>3. \A k \in T : k \in Nat
  BY Zenon
<1>4. \A k \in T : k + 1 \in T
  BY <1>2
<1> HIDE DEF T
<1>5. T = Nat
  BY <1>1, <1>3, <1>4, Induction
<1>6. \E f : f = [i \in 0..n |-> f[i]] /\ Filled(f, n)
  <2>1. n <= n
    BY SMT
  <2> QED BY <2>1, <1>5, Zenon DEF T
<1> QED BY <1>6, Zenon DEF Chain

\* It depends on nothing but the bytes at the end.
LEMMA ChainsAgree ==
  ASSUME NEW first1, NEW ends1, NEW rest1, NEW f, NEW first2, NEW ends2, NEW rest2, NEW g,
         NEW n \in Nat,
         \A k \in 0..n : /\ first1[k] = first2[k] /\ (ends1[k] <=> ends2[k])
                         /\ ~ends1[k] => rest1[k] = rest2[k] /\ rest1[k] \in 0..(k - 1)
                         /\ Chain(first1, ends1, rest1, f, k) /\ Chain(first2, ends2, rest2, g, k)
  PROVE  SameAt(f, g, n)
<1> DEFINE T == {k \in Nat : k <= n => \A i \in 0..k : f[i] = g[i]}
<1>0. n \in Nat
  OBVIOUS
<1>s. ASSUME NEW k \in 0..n, \A i \in 0..(k - 1) : f[i] = g[i]
      PROVE  f[k] = g[k]
  <2>1. ~ends1[k] => f[rest1[k]] = g[rest1[k]]
    BY <1>s
  <2>2. /\ f[k] = IF ends1[k] THEN first1[k] ELSE first1[k] \o f[rest1[k]]
        /\ g[k] = IF ends2[k] THEN first2[k] ELSE first2[k] \o g[rest2[k]]
    BY Zenon DEF Chain
  <2>3. first1[k] = first2[k] /\ (ends1[k] <=> ends2[k]) /\ (~ends1[k] => rest1[k] = rest2[k])
    OBVIOUS
  <2>4. CASE ends1[k]
    BY <2>2, <2>3, <2>4, Zenon
  <2>5. CASE ~ends1[k]
    BY <2>1, <2>2, <2>3, <2>5, Zenon
  <2> QED BY <2>4, <2>5
<1>1. 0 \in T
  <2>1. 0 \in 0..n /\ \A i \in 0..0 : i = 0
    BY SMT
  <2>2. \A i \in 0..(0 - 1) : FALSE
    BY SMT
  <2>3. f[0] = g[0]
    BY <2>1, <2>2, <1>s, Zenon
  <2> QED BY <2>1, <2>3
<1>2. ASSUME NEW k \in T PROVE k + 1 \in T
  <2> SUFFICES ASSUME k + 1 <= n PROVE \A i \in 0..(k + 1) : f[i] = g[i]
    OBVIOUS
  <2>1. /\ k <= n /\ k + 1 \in 0..n /\ (k + 1) - 1 = k
        /\ \A i \in 0..(k + 1) : i \in 0..k \/ i = k + 1
    BY <1>0, SMT
  <2>2. \A i \in 0..k : f[i] = g[i]
    BY <2>1, Zenon
  <2>3. f[k + 1] = g[k + 1]
    BY <2>1, <2>2, <1>s, Zenon
  <2> QED BY <2>1, <2>2, <2>3, Zenon
<1>3. \A k \in T : k \in Nat
  BY Zenon
<1> HIDE DEF T
<1>4. T = Nat
  <2>1. \A k \in T : k + 1 \in T
    BY <1>2
  <2> QED BY <1>1, <1>3, <2>1, Induction
<1>5. n \in 0..n /\ n <= n
  BY SMT
<1> QED BY <1>4, <1>5, Zenon DEF T, SameAt

LEMMA ChainType ==
  ASSUME NEW S, NEW first, NEW ends, NEW rest, NEW f, NEW n \in Nat,
         \A k \in 0..n : /\ first[k] \in Seq(S)
                         /\ ~ends[k] => rest[k] \in 0..(k - 1)
                         /\ Chain(first, ends, rest, f, k)
  PROVE  f[n] \in Seq(S)
<1> DEFINE T == {k \in Nat : k <= n => \A i \in 0..k : f[i] \in Seq(S)}
<1>0. n \in Nat
  OBVIOUS
<1>s. ASSUME NEW k \in 0..n, \A i \in 0..(k - 1) : f[i] \in Seq(S)
      PROVE  f[k] \in Seq(S)
  <2>1. first[k] \in Seq(S)
    OBVIOUS
  <2>2. ~ends[k] => f[rest[k]] \in Seq(S)
    BY <1>s
  <2>3. ~ends[k] => first[k] \o f[rest[k]] \in Seq(S)
    BY <2>1, <2>2, ConcatProperties
  <2> QED BY <2>1, <2>3, Zenon DEF Chain
<1>1. 0 \in T
  <2>1. 0 \in 0..n /\ \A i \in 0..0 : i = 0
    BY SMT
  <2>2. \A i \in 0..(0 - 1) : FALSE
    BY SMT
  <2>3. f[0] \in Seq(S)
    BY <2>1, <2>2, <1>s, Zenon
  <2> QED BY <2>1, <2>3
<1>2. ASSUME NEW k \in T PROVE k + 1 \in T
  <2> SUFFICES ASSUME k + 1 <= n PROVE \A i \in 0..(k + 1) : f[i] \in Seq(S)
    OBVIOUS
  <2>1. /\ k <= n /\ k + 1 \in 0..n /\ (k + 1) - 1 = k
        /\ \A i \in 0..(k + 1) : i \in 0..k \/ i = k + 1
    BY <1>0, SMT
  <2>2. \A i \in 0..k : f[i] \in Seq(S)
    BY <2>1, Zenon
  <2>3. f[k + 1] \in Seq(S)
    BY <2>1, <2>2, <1>s, Zenon
  <2> QED BY <2>1, <2>2, <2>3, Zenon
<1>3. \A k \in T : k \in Nat
  BY Zenon
<1> HIDE DEF T
<1>4. T = Nat
  <2>1. \A k \in T : k + 1 \in T
    BY <1>2
  <2> QED BY <1>1, <1>3, <2>1, Induction
<1>5. n \in 0..n /\ n <= n
  BY SMT
<1> QED BY <1>4, <1>5, Zenon DEF T

-------------------------------------------------------------------------------
(***************************************************************************)
(* Suffixes, and the first field of some bytes.                            *)
(***************************************************************************)

\* The last n bytes.
LEMMA SuffixFacts ==
  ASSUME NEW b \in Seq(Byte), NEW n \in 0..Len(b)
  PROVE  /\ Suffix(b, n) \in Seq(Byte) /\ Len(Suffix(b, n)) = n
         /\ \A k \in 1..n : Suffix(b, n)[k] = b[(Len(b) - n) + k]
<1>1. /\ Len(b) \in Nat /\ n \in Nat /\ Len(b) - n \in Nat
      /\ (Len(b) - n) + n = Len(b) /\ (Len(b) - n) + n <= Len(b)
  BY LenProperties, SMT
<1>2. PICK i \in Nat : i = Len(b) - n
  BY <1>1
<1>3. Suffix(b, n) = SubSeq(b, i + 1, i + n)
  BY <1>1, <1>2, Zenon DEF Suffix
<1>4. /\ SubSeq(b, i + 1, i + n) \in Seq(Byte) /\ Len(SubSeq(b, i + 1, i + n)) = n
      /\ \A k \in 1..n : SubSeq(b, i + 1, i + n)[k] = b[i + k]
  BY <1>1, <1>2, SubSeqFacts
<1> QED BY <1>2, <1>3, <1>4, Zenon

SameSuffix(b, r, n) == Suffix(Suffix(b, r), n) = Suffix(b, n)

\* The last bytes of the last bytes.
LEMMA SuffixOfSuffix ==
  ASSUME NEW b \in Seq(Byte), NEW r \in 0..Len(b), NEW n \in 0..r
  PROVE  SameSuffix(b, r, n)
<1>1. Len(b) \in Nat /\ r \in Nat /\ n \in Nat /\ n \in 0..Len(b)
  BY LenProperties, SMT
<1>2. PICK u : u = Suffix(b, r)
  OBVIOUS
<1>3. u \in Seq(Byte) /\ Len(u) = r /\ \A k \in 1..r : u[k] = b[(Len(b) - r) + k]
  BY <1>2, SuffixFacts
<1>4. /\ Suffix(u, n) \in Seq(Byte) /\ Len(Suffix(u, n)) = n
      /\ \A k \in 1..n : Suffix(u, n)[k] = u[(r - n) + k]
  BY <1>3, SuffixFacts
<1>5. /\ Suffix(b, n) \in Seq(Byte) /\ Len(Suffix(b, n)) = n
      /\ \A k \in 1..n : Suffix(b, n)[k] = b[(Len(b) - n) + k]
  BY <1>1, SuffixFacts
<1>6. ASSUME NEW k \in 1..n PROVE Suffix(u, n)[k] = Suffix(b, n)[k]
  <2>1. (r - n) + k \in 1..r /\ (Len(b) - r) + ((r - n) + k) = (Len(b) - n) + k
    BY <1>1, SMT
  <2> QED BY <2>1, <1>3, <1>4, <1>5, Zenon
<1>7. Suffix(u, n) = Suffix(b, n)
  BY <1>4, <1>5, <1>6, SeqEqual, Zenon
<1> QED BY <1>2, <1>7, Zenon DEF SameSuffix

SuffixIs(b, n, t) == Suffix(b, n) = t

\* The last bytes of two sequences are those of the second.
LEMMA SuffixOfConcat ==
  ASSUME NEW x \in Seq(Byte), NEW t \in Seq(Byte)
  PROVE  /\ SuffixIs(x \o t, Len(t), t) /\ SuffixIs(t, Len(t), t)
         /\ x \o t \in Seq(Byte) /\ Len(t) \in 0..Len(x \o t) /\ Len(t) \in 0..Len(t)
         /\ (x # <<>> => Len(t) < Len(x \o t))
<1>1. PICK b : b = x \o t
  OBVIOUS
<1>2. /\ b \in Seq(Byte) /\ Len(b) = Len(x) + Len(t)
      /\ \A k \in 1..Len(t) : b[Len(x) + k] = t[k]
      /\ Len(x) \in Nat /\ Len(t) \in Nat /\ (x # <<>> => Len(x) # 0)
  BY <1>1, SeqFacts, LenProperties, EmptySeq
<1>3. /\ Len(t) \in 0..Len(b) /\ Len(t) \in 0..Len(t) /\ (x # <<>> => Len(t) < Len(b))
      /\ (Len(b) - Len(t)) = Len(x) /\ \A k \in 1..Len(t) : (Len(t) - Len(t)) + k = k
  BY <1>2, SMT
<1>4. /\ Suffix(b, Len(t)) \in Seq(Byte) /\ Len(Suffix(b, Len(t))) = Len(t)
      /\ \A k \in 1..Len(t) : Suffix(b, Len(t))[k] = b[(Len(b) - Len(t)) + k]
  BY <1>2, <1>3, SuffixFacts
<1>5. Suffix(b, Len(t)) = t
  <2>1. \A k \in 1..Len(t) : Suffix(b, Len(t))[k] = t[k]
    BY <1>2, <1>3, <1>4, Zenon
  <2> QED BY <2>1, <1>4, SeqEqual, Zenon
<1>6. /\ Suffix(t, Len(t)) \in Seq(Byte) /\ Len(Suffix(t, Len(t))) = Len(t)
      /\ \A k \in 1..Len(t) : Suffix(t, Len(t))[k] = t[(Len(t) - Len(t)) + k]
  BY <1>3, SuffixFacts
<1>7. Suffix(t, Len(t)) = t
  BY <1>3, <1>6, SeqEqual, Zenon
<1> QED BY <1>1, <1>2, <1>3, <1>5, <1>7, Zenon DEF SuffixIs

-------------------------------------------------------------------------------
\* What a field that is read consists of.
Part(no, wire, value) == [no |-> no, wire |-> wire, value |-> value]
Parts == {Part(no, Varints, v) : no \in Int, v \in Int64s}
            \cup {Part(no, Delimited, s) : no \in Int, s \in Seq(Byte)}
PartOf(field) == Part(field.no, field.wire, field.value)

LEMMA PartTypes ==
  /\ \A no \in Int : \A v \in Int64s : Part(no, Varints, v) \in Parts
  /\ \A no \in Int : \A s \in Seq(Byte) : Part(no, Delimited, s) \in Parts
<1>1. ASSUME NEW no \in Int, NEW v \in Int64s PROVE Part(no, Varints, v) \in Parts
  <2>1. Part(no, Varints, v) \in {Part(n, Varints, w) : n \in Int, w \in Int64s}
    OBVIOUS
  <2> QED BY <2>1 DEF Parts
<1>2. ASSUME NEW no \in Int, NEW s \in Seq(Byte) PROVE Part(no, Delimited, s) \in Parts
  <2>1. Part(no, Delimited, s) \in {Part(n, Delimited, w) : n \in Int, w \in Seq(Byte)}
    OBVIOUS
  <2> QED BY <2>1 DEF Parts
<1> QED BY <1>1, <1>2

LEMMA PartNotBroken ==
  ASSUME NEW no, NEW wire \in {Varints, Delimited}, NEW value, NEW rest
  PROVE  /\ [no |-> no, wire |-> wire, value |-> value, rest |-> rest] # Broken
         /\ Part(no, wire, value) # Broken
<1>1. wire # -1
  BY SMT DEF Varints, Delimited
<1>2. Broken.wire = -1
  BY DEF Broken
<1>3. Part(no, wire, value).wire = wire
  BY DEF Part
<1>4. [no |-> no, wire |-> wire, value |-> value, rest |-> rest].wire = wire
  OBVIOUS
<1> QED BY <1>1, <1>2, <1>3, <1>4, Zenon

\* The first field of bytes that is not broken is a field, and leaves fewer of them.
LEMMA FirstFieldType ==
  ASSUME NEW b \in Seq(Byte), FirstField(b) # Broken
  PROVE  /\ PartOf(FirstField(b)) \in Parts
         /\ FirstField(b).rest \in 0..(Len(b) - 1)
<1> DEFINE tag == ReadVarint(b)
           number == ReadVarint(AfterVarint(b))
           after == AfterVarint(AfterVarint(b))
<1>1. HasVarint(b) /\ HasVarint(AfterVarint(b))
  BY Zenon DEF FirstField
<1>2. /\ tag \in Int /\ number \in Int64s /\ number \in Int
      /\ after \in Seq(Byte) /\ Len(after) \in Nat /\ Len(after) < Len(b) /\ Len(b) \in Nat
  <2>1. tag \in Int64s /\ AfterVarint(b) \in Seq(Byte) /\ Len(AfterVarint(b)) < Len(b)
    BY <1>1, ReadType, AfterType
  <2>2. /\ number \in Int64s /\ after \in Seq(Byte) /\ Len(after) < Len(AfterVarint(b))
    BY <1>1, <2>1, ReadType, AfterType
  <2>3. Len(b) \in Nat /\ Len(AfterVarint(b)) \in Nat /\ Len(after) \in Nat
    BY <2>1, <2>2, LenProperties
  <2>4. Len(after) < Len(b)
    BY <2>1, <2>2, <2>3, SMT
  <2>5. \A v \in Int64s : v \in Int
    BY DEF Int64s
  <2> QED BY <2>1, <2>2, <2>3, <2>4, <2>5, Zenon
<1>3. PICK no \in Int : no = tag \div 8
  BY <1>2, SMT
<1>4. tag \div 8 # 0
  BY Zenon DEF FirstField
<1>5. CASE tag % 8 = Varints
  <2>1. FirstField(b) = [no |-> no, wire |-> Varints, value |-> number, rest |-> Len(after)]
    BY <1>1, <1>3, <1>4, <1>5, Zenon DEF FirstField
  <2>2. FirstField(b).rest = Len(after) /\ PartOf(FirstField(b)) = Part(no, Varints, number)
    BY <2>1 DEF PartOf
  <2>3. Part(no, Varints, number) \in Parts
    BY <1>2, PartTypes, Zenon
  <2>4. Len(after) \in 0..(Len(b) - 1)
    BY <1>2, SMT
  <2> QED BY <2>2, <2>3, <2>4, Zenon
<1>6. CASE tag % 8 # Varints /\ tag % 8 = Delimited /\ number \in 0..Len(after)
  <2>1. FirstField(b) = [no |-> no, wire |-> Delimited, value |-> SubSeq(after, 1, number),
                         rest |-> Len(after) - number]
    BY <1>1, <1>3, <1>4, <1>6, Zenon DEF FirstField
  <2>2. PICK s : s = SubSeq(after, 1, number)
    OBVIOUS
  <2>3. FirstField(b).rest = Len(after) - number /\ PartOf(FirstField(b)) = Part(no, Delimited, s)
    BY <2>1, <2>2 DEF PartOf
  <2>4. s \in Seq(Byte)
    <3>1. 1 \in Int /\ number \in Int /\ \A i \in 1..number : i \in 1..Len(after)
      BY <1>2, <1>6, SMT
    <3>2. \A i \in 1..number : after[i] \in Byte
      BY <3>1, <1>2, ElementOfSeq
    <3> QED BY <2>2, <3>1, <3>2, SubSeqProperties
  <2>5. Part(no, Delimited, s) \in Parts
    BY <2>4, PartTypes, Zenon
  <2>6. Len(after) - number \in 0..(Len(b) - 1)
    BY <1>2, <1>6, SMT
  <2> QED BY <2>3, <2>5, <2>6, Zenon
<1>7. CASE tag % 8 # Varints /\ ~(tag % 8 = Delimited /\ number \in 0..Len(after))
  <2>1. FirstField(b) = Broken
    BY <1>1, <1>4, <1>7, Zenon DEF FirstField
  <2> QED BY <2>1
<1> QED BY <1>5, <1>6, <1>7, Zenon

-------------------------------------------------------------------------------
\* The fields in the last n bytes of b.
FieldEnds(b, n) == n = 0 \/ FirstField(Suffix(b, n)) = Broken
FieldFirst(b, n) == IF n = 0 THEN <<>>
                    ELSE IF FirstField(Suffix(b, n)) = Broken THEN <<Broken>>
                    ELSE <<PartOf(FirstField(Suffix(b, n)))>>
FieldRest(b, n) == FirstField(Suffix(b, n)).rest
FieldsTaken(b, f) ==
  \A n \in 0..Len(b) :
     f[n] = IF FieldEnds(b, n) THEN FieldFirst(b, n) ELSE FieldFirst(b, n) \o f[FieldRest(b, n)]

LEMMA FieldParts ==
  ASSUME NEW b \in Seq(Byte), NEW n \in 0..Len(b)
  PROVE  /\ FieldFirst(b, n) \in Seq(Parts \cup {Broken})
         /\ ~FieldEnds(b, n) => FieldRest(b, n) \in 0..(n - 1)
<1>1. Suffix(b, n) \in Seq(Byte) /\ Len(Suffix(b, n)) = n
  BY SuffixFacts
<1>2. \A p \in Parts \cup {Broken} : <<p>> \in Seq(Parts \cup {Broken})
  BY SMT
<1>3. <<>> \in Seq(Parts \cup {Broken})
  BY EmptySeq
<1>4. CASE FirstField(Suffix(b, n)) # Broken
  <2>1. /\ PartOf(FirstField(Suffix(b, n))) \in Parts
        /\ FirstField(Suffix(b, n)).rest \in 0..(n - 1)
    BY <1>1, <1>4, FirstFieldType
  <2> QED BY <1>2, <1>3, <1>4, <2>1, Zenon DEF FieldFirst, FieldEnds, FieldRest
<1>5. CASE FirstField(Suffix(b, n)) = Broken
  BY <1>2, <1>3, <1>5, Zenon DEF FieldFirst, FieldEnds, FieldRest
<1> QED BY <1>4, <1>5

\* FieldsIn, one field after another.
LEMMA FieldsSteps ==
  ASSUME NEW b \in Seq(Byte)
  PROVE  \E f : FieldsTaken(b, f) /\ FieldsIn(b) = f[Len(b)]
<1>1. PICK n \in Nat : n = Len(b)
  BY LenProperties
<1> DEFINE rhs(f, k) == IF FieldEnds(b, k) THEN FieldFirst(b, k)
                        ELSE FieldFirst(b, k) \o f[FieldRest(b, k)]
           own(f, k) == LET field == FirstField(Suffix(b, k))
                        IN  IF k = 0 THEN <<>>
                            ELSE IF field = Broken THEN <<Broken>>
                            ELSE <<[no |-> field.no, wire |-> field.wire, value |-> field.value]>>
                                   \o f[field.rest]
<1>2. PICK first, ends, rest :
        /\ first = [k \in 0..n |-> FieldFirst(b, k)]
        /\ ends = [k \in 0..n |-> FieldEnds(b, k)]
        /\ rest = [k \in 0..n |-> FieldRest(b, k)]
  OBVIOUS
<1>3. \A k \in 0..n : /\ first[k] = FieldFirst(b, k) /\ (ends[k] <=> FieldEnds(b, k))
                      /\ rest[k] = FieldRest(b, k)
  BY <1>2
<1>4. PICK f : f = [k \in 0..n |-> f[k]] /\ \A k \in 0..n : Chain(first, ends, rest, f, k)
  <2>1. \A k \in 0..n : ~ends[k] => rest[k] \in 0..(k - 1)
    BY <1>1, <1>3, FieldParts, Zenon
  <2> QED BY <2>1, ChainExists
<1>5. ASSUME NEW g, NEW k \in 0..n PROVE own(g, k) = rhs(g, k)
  BY Zenon DEF FieldEnds, FieldFirst, FieldRest, PartOf, Part
<1>6. \A k \in 0..n : f[k] = rhs(f, k)
  BY <1>3, <1>4, Zenon DEF Chain
<1> DEFINE Own(g) == g = [k \in 0..Len(b) |-> own(g, k)]
<1>7. Own(f)
  <2>1. \A k \in 0..n : f[k] = own(f, k)
    BY <1>5, <1>6, Zenon
  <2> HIDE DEF own
  <2>2. f = [k \in 0..n |-> own(f, k)]
    BY <1>4, <2>1
  <2> QED BY <2>2, <1>1, Zenon
<1>8. PICK g : g = CHOOSE h : Own(h)
  OBVIOUS
<1>9. FieldsIn(b) = g[Len(b)]
  BY <1>8, Zenon DEF FieldsIn
<1>10. Own(g)
  BY <1>7, <1>8, Zenon
<1>11. \A k \in 0..n : g[k] = own(g, k)
  <2> HIDE DEF own
  <2> QED BY <1>1, <1>10, Zenon
<1>12. FieldsTaken(b, g)
  BY <1>1, <1>5, <1>11, Zenon DEF FieldsTaken
<1> QED BY <1>9, <1>12

-------------------------------------------------------------------------------
(***************************************************************************)
(* All fields of some bytes, and all numbers of packed ones.               *)
(***************************************************************************)

\* What is found in the last n bytes depends on them alone.
LEMMA FieldsOfSuffix ==
  ASSUME NEW b \in Seq(Byte), NEW f, FieldsTaken(b, f), NEW r \in 0..Len(b)
  PROVE  f[r] = FieldsIn(Suffix(b, r)) /\ f[r] \in Seq(Parts \cup {Broken})
<1>0. r \in Nat /\ Len(b) \in Nat /\ \A k \in 0..r : k \in 0..Len(b)
  BY LenProperties, SMT
<1>1. PICK u : u = Suffix(b, r)
  OBVIOUS
<1>2. u \in Seq(Byte) /\ Len(u) = r
  BY <1>1, SuffixFacts
<1>3. PICK g : FieldsTaken(u, g) /\ FieldsIn(u) = g[r]
  BY <1>2, FieldsSteps
<1>4. PICK first, ends, rest :
        /\ first = [k \in 0..r |-> FieldFirst(b, k)]
        /\ ends = [k \in 0..r |-> FieldEnds(b, k)]
        /\ rest = [k \in 0..r |-> FieldRest(b, k)]
  OBVIOUS
<1>5. \A k \in 0..r : /\ first[k] = FieldFirst(b, k) /\ (ends[k] <=> FieldEnds(b, k))
                      /\ rest[k] = FieldRest(b, k)
  BY <1>4
<1>6. ASSUME NEW k \in 0..r
      PROVE  /\ first[k] \in Seq(Parts \cup {Broken})
             /\ ~ends[k] => rest[k] \in 0..(k - 1)
             /\ Chain(first, ends, rest, f, k)
             /\ Chain(first, ends, rest, g, k)
  <2>1. k \in 0..Len(b) /\ k \in 0..Len(u)
    BY <1>0, <1>2
  <2>2. /\ FieldFirst(b, k) \in Seq(Parts \cup {Broken})
        /\ ~FieldEnds(b, k) => FieldRest(b, k) \in 0..(k - 1)
    BY <2>1, FieldParts
  <2>3. Suffix(u, k) = Suffix(b, k)
    <3>1. SameSuffix(b, r, k)
      BY SuffixOfSuffix
    <3> QED BY <3>1, <1>1, Zenon DEF SameSuffix
  <2>4. /\ FieldFirst(u, k) = FieldFirst(b, k) /\ (FieldEnds(u, k) <=> FieldEnds(b, k))
        /\ FieldRest(u, k) = FieldRest(b, k)
    BY <2>3, Zenon DEF FieldFirst, FieldEnds, FieldRest
  <2>5. f[k] = IF FieldEnds(b, k) THEN FieldFirst(b, k) ELSE FieldFirst(b, k) \o f[FieldRest(b, k)]
    BY <2>1, Zenon DEF FieldsTaken
  <2>6. g[k] = IF FieldEnds(b, k) THEN FieldFirst(b, k) ELSE FieldFirst(b, k) \o g[FieldRest(b, k)]
    <3>1. g[k] = IF FieldEnds(u, k) THEN FieldFirst(u, k) ELSE FieldFirst(u, k) \o g[FieldRest(u, k)]
      BY <2>1, <1>3, Zenon DEF FieldsTaken
    <3> QED BY <3>1, <2>4, Zenon
  <2>7. Chain(first, ends, rest, f, k)
    BY <2>5, <1>5, Zenon DEF Chain
  <2>8. Chain(first, ends, rest, g, k)
    BY <2>6, <1>5, Zenon DEF Chain
  <2> QED BY <2>2, <2>7, <2>8, <1>5, Zenon
<1>7. SameAt(f, g, r)
  BY <1>0, <1>6, ChainsAgree
<1>8. f[r] \in Seq(Parts \cup {Broken})
  BY <1>0, <1>6, ChainType
<1> QED BY <1>1, <1>3, <1>7, <1>8, Zenon DEF SameAt

\* Whatever the bytes are, fields are found in them, or a broken one.
LEMMA FieldsType ==
  ASSUME NEW b \in Seq(Byte)
  PROVE  FieldsIn(b) \in Seq(Parts \cup {Broken})
<1>1. PICK f : FieldsTaken(b, f) /\ FieldsIn(b) = f[Len(b)]
  BY FieldsSteps
<1>2. Len(b) \in 0..Len(b)
  BY LenProperties, SMT
<1>3. f[Len(b)] \in Seq(Parts \cup {Broken})
  BY <1>1, <1>2, FieldsOfSuffix, Zenon
<1> QED BY <1>1, <1>3

FieldsAre(b, fields) == FieldsIn(b) = fields

LEMMA FieldsEmpty == FieldsAre(<<>>, <<>>)
<1>1. <<>> \in Seq(Byte) /\ Len(<<>>) = 0
  BY EmptySeq
<1>2. PICK f : FieldsTaken(<<>>, f) /\ FieldsIn(<<>>) = f[Len(<<>>)]
  BY <1>1, FieldsSteps
<1>3. 0 \in 0..0
  BY SMT
<1>4. f[0] = <<>>
  BY <1>1, <1>2, <1>3, Zenon DEF FieldsTaken, FieldEnds, FieldFirst
<1> QED BY <1>1, <1>2, <1>4, Zenon DEF FieldsAre

\* One field before others.
LEMMA FieldsNext ==
  ASSUME NEW b \in Seq(Byte), b # <<>>, FirstField(b) # Broken
  PROVE  FieldsAre(b, <<PartOf(FirstField(b))>> \o FieldsIn(Suffix(b, FirstField(b).rest)))
<1>1. PICK f : FieldsTaken(b, f) /\ FieldsIn(b) = f[Len(b)]
  BY FieldsSteps
<1>2. Len(b) \in Nat \ {0} /\ Len(b) \in 0..Len(b)
  BY EmptySeq, SMT
<1>3. Suffix(b, Len(b)) = b
  <2>1. SuffixIs(b, Len(b), b)
    BY SuffixOfConcat
  <2> QED BY <2>1 DEF SuffixIs
<1>4. ~FieldEnds(b, Len(b))
  BY <1>2, <1>3, Zenon DEF FieldEnds
<1>5. FieldFirst(b, Len(b)) = <<PartOf(FirstField(b))>> /\ FieldRest(b, Len(b)) = FirstField(b).rest
  BY <1>2, <1>3, Zenon DEF FieldFirst, FieldRest
<1>6. f[Len(b)] = <<PartOf(FirstField(b))>> \o f[FirstField(b).rest]
  BY <1>1, <1>2, <1>4, <1>5, Zenon DEF FieldsTaken
<1>7. FirstField(b).rest \in 0..Len(b)
  <2>1. FirstField(b).rest \in 0..(Len(b) - 1)
    BY FirstFieldType
  <2> QED BY <2>1, <1>2, SMT
<1>8. f[FirstField(b).rest] = FieldsIn(Suffix(b, FirstField(b).rest))
  BY <1>1, <1>7, FieldsOfSuffix, Zenon
<1> QED BY <1>1, <1>6, <1>8, Zenon DEF FieldsAre

-------------------------------------------------------------------------------
\* The numbers in the last n bytes of b.
IntEnds(b, n) == ~HasVarint(Suffix(b, n))
IntFirst(b, n) == IF HasVarint(Suffix(b, n)) THEN <<ReadVarint(Suffix(b, n))>> ELSE <<>>
IntRest(b, n) == Len(AfterVarint(Suffix(b, n)))
IntsTaken(b, f) ==
  \A n \in 0..Len(b) :
     f[n] = IF IntEnds(b, n) THEN IntFirst(b, n) ELSE IntFirst(b, n) \o f[IntRest(b, n)]

LEMMA IntParts ==
  ASSUME NEW b \in Seq(Byte), NEW n \in 0..Len(b)
  PROVE  /\ IntFirst(b, n) \in Seq(Int64s)
         /\ ~IntEnds(b, n) => IntRest(b, n) \in 0..(n - 1)
<1>1. Suffix(b, n) \in Seq(Byte) /\ Len(Suffix(b, n)) = n /\ n \in Nat
  BY SuffixFacts, LenProperties, SMT
<1>2. \A v \in Int64s : <<v>> \in Seq(Int64s)
  BY SMT
<1>3. <<>> \in Seq(Int64s)
  BY EmptySeq
<1>4. CASE HasVarint(Suffix(b, n))
  <2>1. ReadVarint(Suffix(b, n)) \in Int64s
    BY <1>1, <1>4, ReadType
  <2>2. IntRest(b, n) \in Nat /\ IntRest(b, n) < n
    <3>1. AfterVarint(Suffix(b, n)) \in Seq(Byte) /\ Len(AfterVarint(Suffix(b, n))) < n
      BY <1>1, <1>4, AfterType
    <3>2. Len(AfterVarint(Suffix(b, n))) \in Nat
      BY <3>1, LenProperties
    <3> QED BY <3>1, <3>2, Zenon DEF IntRest
  <2>3. IntRest(b, n) \in 0..(n - 1)
    BY <2>2, <1>1, SMT
  <2> QED BY <1>2, <1>4, <2>1, <2>3, Zenon DEF IntFirst
<1>5. CASE ~HasVarint(Suffix(b, n))
  BY <1>3, <1>5, Zenon DEF IntFirst, IntEnds
<1> QED BY <1>4, <1>5

\* Unpacked, one number after another.
LEMMA IntsSteps ==
  ASSUME NEW b \in Seq(Byte)
  PROVE  \E f : IntsTaken(b, f) /\ Unpacked(b) = f[Len(b)]
<1>1. PICK n \in Nat : n = Len(b)
  BY LenProperties
<1> DEFINE rhs(f, k) == IF IntEnds(b, k) THEN IntFirst(b, k)
                        ELSE IntFirst(b, k) \o f[IntRest(b, k)]
           own(f, k) == IF ~HasVarint(Suffix(b, k)) THEN <<>>
                        ELSE <<ReadVarint(Suffix(b, k))>> \o f[Len(AfterVarint(Suffix(b, k)))]
<1>2. PICK first, ends, rest :
        /\ first = [k \in 0..n |-> IntFirst(b, k)]
        /\ ends = [k \in 0..n |-> IntEnds(b, k)]
        /\ rest = [k \in 0..n |-> IntRest(b, k)]
  OBVIOUS
<1>3. \A k \in 0..n : /\ first[k] = IntFirst(b, k) /\ (ends[k] <=> IntEnds(b, k))
                      /\ rest[k] = IntRest(b, k)
  BY <1>2
<1>4. PICK f : f = [k \in 0..n |-> f[k]] /\ \A k \in 0..n : Chain(first, ends, rest, f, k)
  <2>1. \A k \in 0..n : ~ends[k] => rest[k] \in 0..(k - 1)
    BY <1>1, <1>3, IntParts, Zenon
  <2> QED BY <2>1, ChainExists
<1>5. ASSUME NEW g, NEW k \in 0..n PROVE own(g, k) = rhs(g, k)
  BY Zenon DEF IntEnds, IntFirst, IntRest
<1>6. \A k \in 0..n : f[k] = rhs(f, k)
  BY <1>3, <1>4, Zenon DEF Chain
<1> DEFINE Own(g) == g = [k \in 0..Len(b) |-> own(g, k)]
<1>7. Own(f)
  <2>1. \A k \in 0..n : f[k] = own(f, k)
    BY <1>5, <1>6, Zenon
  <2> HIDE DEF own
  <2>2. f = [k \in 0..n |-> own(f, k)]
    BY <1>4, <2>1
  <2> QED BY <2>2, <1>1, Zenon
<1>8. PICK g : g = CHOOSE h : Own(h)
  OBVIOUS
<1>9. Unpacked(b) = g[Len(b)]
  BY <1>8, Zenon DEF Unpacked
<1>10. Own(g)
  BY <1>7, <1>8, Zenon
<1>11. \A k \in 0..n : g[k] = own(g, k)
  <2> HIDE DEF own
  <2> QED BY <1>1, <1>10, Zenon
<1>12. IntsTaken(b, g)
  BY <1>1, <1>5, <1>11, Zenon DEF IntsTaken
<1> QED BY <1>9, <1>12

\* What is found in the last n bytes depends on them alone.
LEMMA IntsOfSuffix ==
  ASSUME NEW b \in Seq(Byte), NEW f, IntsTaken(b, f), NEW r \in 0..Len(b)
  PROVE  f[r] = Unpacked(Suffix(b, r)) /\ f[r] \in Seq(Int64s)
<1>0. r \in Nat /\ Len(b) \in Nat /\ \A k \in 0..r : k \in 0..Len(b)
  BY LenProperties, SMT
<1>1. PICK u : u = Suffix(b, r)
  OBVIOUS
<1>2. u \in Seq(Byte) /\ Len(u) = r
  BY <1>1, SuffixFacts
<1>3. PICK g : IntsTaken(u, g) /\ Unpacked(u) = g[r]
  BY <1>2, IntsSteps
<1>4. PICK first, ends, rest :
        /\ first = [k \in 0..r |-> IntFirst(b, k)]
        /\ ends = [k \in 0..r |-> IntEnds(b, k)]
        /\ rest = [k \in 0..r |-> IntRest(b, k)]
  OBVIOUS
<1>5. \A k \in 0..r : /\ first[k] = IntFirst(b, k) /\ (ends[k] <=> IntEnds(b, k))
                      /\ rest[k] = IntRest(b, k)
  BY <1>4
<1>6. ASSUME NEW k \in 0..r
      PROVE  /\ first[k] \in Seq(Int64s)
             /\ ~ends[k] => rest[k] \in 0..(k - 1)
             /\ Chain(first, ends, rest, f, k)
             /\ Chain(first, ends, rest, g, k)
  <2>1. k \in 0..Len(b) /\ k \in 0..Len(u)
    BY <1>0, <1>2
  <2>2. /\ IntFirst(b, k) \in Seq(Int64s)
        /\ ~IntEnds(b, k) => IntRest(b, k) \in 0..(k - 1)
    BY <2>1, IntParts
  <2>3. Suffix(u, k) = Suffix(b, k)
    <3>1. SameSuffix(b, r, k)
      BY SuffixOfSuffix
    <3> QED BY <3>1, <1>1, Zenon DEF SameSuffix
  <2>4. /\ IntFirst(u, k) = IntFirst(b, k) /\ (IntEnds(u, k) <=> IntEnds(b, k))
        /\ IntRest(u, k) = IntRest(b, k)
    BY <2>3, Zenon DEF IntFirst, IntEnds, IntRest
  <2>5. f[k] = IF IntEnds(b, k) THEN IntFirst(b, k) ELSE IntFirst(b, k) \o f[IntRest(b, k)]
    BY <2>1, Zenon DEF IntsTaken
  <2>6. g[k] = IF IntEnds(b, k) THEN IntFirst(b, k) ELSE IntFirst(b, k) \o g[IntRest(b, k)]
    <3>1. g[k] = IF IntEnds(u, k) THEN IntFirst(u, k) ELSE IntFirst(u, k) \o g[IntRest(u, k)]
      BY <2>1, <1>3, Zenon DEF IntsTaken
    <3> QED BY <3>1, <2>4, Zenon
  <2>7. Chain(first, ends, rest, f, k)
    BY <2>5, <1>5, Zenon DEF Chain
  <2>8. Chain(first, ends, rest, g, k)
    BY <2>6, <1>5, Zenon DEF Chain
  <2> QED BY <2>2, <2>7, <2>8, <1>5, Zenon
<1>7. SameAt(f, g, r)
  BY <1>0, <1>6, ChainsAgree
<1>8. f[r] \in Seq(Int64s)
  BY <1>0, <1>6, ChainType
<1> QED BY <1>1, <1>3, <1>7, <1>8, Zenon DEF SameAt

IntsAre(b, ints) == Unpacked(b) = ints

LEMMA IntsEmpty == IntsAre(<<>>, <<>>)
<1>1. <<>> \in Seq(Byte) /\ Len(<<>>) = 0 /\ 0 \in 0..0
  BY EmptySeq, SMT
<1>2. PICK f : IntsTaken(<<>>, f) /\ Unpacked(<<>>) = f[Len(<<>>)]
  BY <1>1, IntsSteps
<1>3. Suffix(<<>>, 0) \in Seq(Byte) /\ Len(Suffix(<<>>, 0)) = 0
  BY <1>1, SuffixFacts
<1>4. ~HasVarint(Suffix(<<>>, 0))
  BY <1>3, SMT DEF HasVarint
<1>5. f[0] = <<>>
  BY <1>1, <1>2, <1>4, Zenon DEF IntsTaken, IntEnds, IntFirst
<1> QED BY <1>1, <1>2, <1>5, Zenon DEF IntsAre

\* One packed number before others.
LEMMA IntsNext ==
  ASSUME NEW v \in Int64s, NEW t \in Seq(Byte)
  PROVE  IntsAre(Varint(v) \o t, <<v>> \o Unpacked(t))
<1>1. PICK b : b = Varint(v) \o t
  OBVIOUS
<1>2. /\ b \in Seq(Byte) /\ HasVarint(b) /\ ReadVarint(b) = v /\ AfterVarint(b) = t
      /\ Varint(v) \in Seq(Byte)
  BY <1>1, VarintRead, VarintBytes
<1>3. /\ SuffixIs(b, Len(t), t) /\ Len(t) \in 0..Len(b) /\ SuffixIs(b, Len(b), b) /\ Len(b) \in 0..Len(b)
  BY <1>1, <1>2, SuffixOfConcat
<1>4. PICK f : IntsTaken(b, f) /\ Unpacked(b) = f[Len(b)]
  BY <1>2, IntsSteps
<1>5. f[Len(b)] = <<v>> \o f[Len(t)]
  <2>1. Suffix(b, Len(b)) = b
    BY <1>3 DEF SuffixIs
  <2>2. ~IntEnds(b, Len(b)) /\ IntFirst(b, Len(b)) = <<v>> /\ IntRest(b, Len(b)) = Len(t)
    BY <2>1, <1>2, Zenon DEF IntEnds, IntFirst, IntRest
  <2> QED BY <2>2, <1>3, <1>4, Zenon DEF IntsTaken
<1>6. f[Len(t)] = Unpacked(t)
  <2>1. f[Len(t)] = Unpacked(Suffix(b, Len(t)))
    BY <1>2, <1>3, <1>4, IntsOfSuffix, Zenon
  <2> QED BY <2>1, <1>3, Zenon DEF SuffixIs
<1> QED BY <1>1, <1>4, <1>5, <1>6, Zenon DEF IntsAre

\* Whatever the bytes are, numbers are found in them.
LEMMA IntsType ==
  ASSUME NEW b \in Seq(Byte)
  PROVE  Unpacked(b) \in Seq(Int64s)
<1>1. PICK f : IntsTaken(b, f) /\ Unpacked(b) = f[Len(b)]
  BY IntsSteps
<1>2. Len(b) \in 0..Len(b)
  BY LenProperties, SMT
<1>3. f[Len(b)] \in Seq(Int64s)
  BY <1>1, <1>2, IntsOfSuffix, Zenon
<1> QED BY <1>1, <1>3

-------------------------------------------------------------------------------
(***************************************************************************)
(* Sums, and sequences put together.                                       *)
(***************************************************************************)
TotalBy(sizes, n, sum) == sum = [k \in 0..n |-> IF k = 0 THEN 0 ELSE sum[k - 1] + sizes[k]]

\* It exists, by induction on n.
LEMMA TotalExists ==
  ASSUME NEW sizes, NEW n \in Nat
  PROVE  \E sum : TotalBy(sizes, n, sum)
<1> DEFINE T == {k \in Nat : \E sum : TotalBy(sizes, k, sum)}
<1>1. 0 \in T
  <2>1. TotalBy(sizes, 0, [k \in 0..0 |-> 0])
    BY SMT DEF TotalBy
  <2> QED BY <2>1
<1>2. ASSUME NEW k \in T PROVE k + 1 \in T
  <2>1. PICK f : TotalBy(sizes, k, f)
    OBVIOUS
  <2>2. PICK g : g = [i \in 0..(k + 1) |-> IF i <= k THEN f[i] ELSE f[k] + sizes[k + 1]]
    OBVIOUS
  <2>3. (\A i \in 0..k : g[i] = f[i]) /\ g[k + 1] = f[k] + sizes[k + 1]
    BY <2>2, SMT
  <2>5. ASSUME NEW i \in 0..(k + 1)
        PROVE  g[i] = IF i = 0 THEN 0 ELSE g[i - 1] + sizes[i]
    <3>1. CASE i = k + 1
      <4>1. i # 0 /\ i - 1 = k /\ k \in 0..k
        BY <3>1, SMT
      <4> QED BY <4>1, <3>1, <2>3, Zenon
    <3>2. CASE i \in 0..k
      <4>1. f[i] = IF i = 0 THEN 0 ELSE f[i - 1] + sizes[i]
        BY <3>2, <2>1, Zenon DEF TotalBy
      <4>2. i # 0 => i - 1 \in 0..k
        BY <3>2, SMT
      <4> QED BY <4>1, <4>2, <3>2, <2>3, Zenon
    <3> QED BY <3>1, <3>2, SMT
  <2>6. DOMAIN g = 0..(k + 1)
    BY <2>2
  <2>7. TotalBy(sizes, k + 1, g)
    BY <2>2, <2>5, <2>6, Zenon DEF TotalBy
  <2>8. k + 1 \in Nat
    OBVIOUS
  <2> QED BY <2>7, <2>8
<1> HIDE DEF T
<1>3. T = Nat
  <2>1. T \subseteq Nat
    BY DEF T
  <2> QED BY <1>1, <1>2, <2>1, Induction
<1> QED BY <1>3 DEF T

\* A sum, one after another.
RunningSums(sizes, n, sum) == sum[0] = 0 /\ \A k \in 1..n : sum[k] = sum[k - 1] + sizes[k]
TotalOf(sizes, n) == Total(sizes) = n

\* Total, one number after another.
LEMMA TotalSteps ==
  ASSUME NEW sizes, Len(sizes) \in Nat
  PROVE  \E sum : RunningSums(sizes, Len(sizes), sum) /\ Total(sizes) = sum[Len(sizes)]
<1>1. PICK n \in Nat : n = Len(sizes)
  OBVIOUS
<1>2. PICK sum : sum = CHOOSE f : TotalBy(sizes, Len(sizes), f)
  OBVIOUS
<1>3. TotalBy(sizes, Len(sizes), sum)
  BY <1>2, TotalExists, Zenon
<1>4. Total(sizes) = sum[Len(sizes)]
  BY <1>2, Zenon DEF Total, TotalBy
<1>5. \A k \in 0..n : sum[k] = IF k = 0 THEN 0 ELSE sum[k - 1] + sizes[k]
  BY <1>1, <1>3, Zenon DEF TotalBy
<1>6. 0 \in 0..n /\ \A k \in 1..n : k \in 0..n /\ k # 0
  BY SMT
<1> QED BY <1>1, <1>4, <1>5, <1>6, Zenon DEF RunningSums

\* A sum depends on nothing but the numbers.
LEMMA SumsAgree ==
  ASSUME NEW f, NEW g, NEW x, NEW y, NEW n \in Nat, RunningSums(x, n, f), RunningSums(y, n, g),
         \A k \in 1..n : x[k] = y[k]
  PROVE  SameAt(f, g, n)
<1> DEFINE T == {k \in Nat : k <= n => f[k] = g[k]}
<1>1. 0 \in T
  BY DEF RunningSums
<1>2. ASSUME NEW k \in T PROVE k + 1 \in T
  <2> SUFFICES ASSUME k + 1 <= n PROVE f[k + 1] = g[k + 1]
    OBVIOUS
  <2>1. k + 1 \in 1..n /\ (k + 1) - 1 = k /\ f[k] = g[k]
    BY SMT
  <2> QED BY <2>1, Zenon DEF RunningSums
<1> HIDE DEF T
<1>3. T = Nat
  <2>1. T \subseteq Nat
    BY DEF T
  <2> QED BY <1>1, <1>2, <2>1, Induction
<1> QED BY <1>3, SMT DEF T, SameAt

LEMMA TotalEmpty == TotalOf(<<>>, 0)
<1>1. Len(<<>>) = 0 /\ 0 \in Nat
  BY EmptySeq
<1>2. PICK sum : RunningSums(<<>>, Len(<<>>), sum) /\ Total(<<>>) = sum[Len(<<>>)]
  BY <1>1, TotalSteps, Zenon
<1> QED BY <1>1, <1>2, Zenon DEF RunningSums, TotalOf

\* One more number.
LEMMA TotalAppend ==
  ASSUME NEW s \in Seq(Int), NEW e \in Int
  PROVE  TotalOf(Append(s, e), Total(s) + e)
<1>1. PICK t : t = Append(s, e)
  OBVIOUS
<1>2. PICK n \in Nat : n = Len(s)
  BY LenProperties
<1>3. t \in Seq(Int) /\ Len(t) = n + 1 /\ t[n + 1] = e /\ \A k \in 1..n : t[k] = s[k]
  BY <1>1, <1>2, AppendProperties
<1>4. PICK f : RunningSums(s, n, f) /\ Total(s) = f[n]
  BY <1>2, TotalSteps
<1>5. PICK g : RunningSums(t, n + 1, g) /\ Total(t) = g[n + 1]
  <2>1. Len(t) \in Nat
    BY <1>3
  <2> QED BY <2>1, <1>3, TotalSteps
<1>6. (\A k \in 1..n : k \in 1..(n + 1)) /\ n + 1 \in 1..(n + 1) /\ (n + 1) - 1 = n
  BY SMT
<1>7. RunningSums(t, n, g) /\ g[n + 1] = g[n] + e
  BY <1>3, <1>5, <1>6, Zenon DEF RunningSums
<1>8. SameAt(g, f, n)
  BY <1>3, <1>4, <1>7, SumsAgree
<1> QED BY <1>1, <1>4, <1>5, <1>7, <1>8, Zenon DEF TotalOf, SameAt

\* A sum of numbers is a number.
LEMMA TotalType ==
  ASSUME NEW s \in Seq(Int)
  PROVE  Total(s) \in Int
<1>1. PICK n \in Nat : n = Len(s)
  BY LenProperties
<1>2. PICK f : RunningSums(s, n, f) /\ Total(s) = f[n]
  BY <1>1, TotalSteps
<1>s. \A k \in 1..n : s[k] \in Int
  BY <1>1, ElementOfSeq
<1> DEFINE T == {k \in Nat : k <= n => f[k] \in Int}
<1>3. 0 \in T
  BY <1>2 DEF RunningSums
<1>4. ASSUME NEW k \in T PROVE k + 1 \in T
  <2> SUFFICES ASSUME k + 1 <= n PROVE f[k + 1] \in Int
    OBVIOUS
  <2>1. k + 1 \in 1..n /\ (k + 1) - 1 = k /\ f[k] \in Int
    BY SMT
  <2>2. f[k + 1] = f[k] + s[k + 1] /\ s[k + 1] \in Int
    BY <2>1, <1>s, <1>2, Zenon DEF RunningSums
  <2>3. \A x, y \in Int : x + y \in Int
    BY SMT
  <2> QED BY <2>1, <2>2, <2>3, Zenon
<1> HIDE DEF T
<1>5. T = Nat
  <2>1. T \subseteq Nat
    BY DEF T
  <2> QED BY <1>3, <1>4, <2>1, Induction
<1>6. n <= n
  BY SMT
<1> QED BY <1>2, <1>5, <1>6, Zenon DEF T

-------------------------------------------------------------------------------
\* The recursive function of FlattenSeq.
FlatBy(ss, n, flat) == flat = [i \in 1..n |-> IF i = 1 THEN ss[i] ELSE flat[i - 1] \o ss[i]]

\* It exists, by induction on n.
LEMMA FlatExists ==
  ASSUME NEW ss, NEW n \in Nat
  PROVE  \E flat : FlatBy(ss, n, flat)
<1> DEFINE T == {k \in Nat : \E flat : FlatBy(ss, k, flat)}
<1>1. 0 \in T
  <2>1. FlatBy(ss, 0, [i \in 1..0 |-> <<>>])
    <3>1. \A i \in 1..0 : FALSE
      BY SMT
    <3> QED BY <3>1, Zenon DEF FlatBy
  <2> QED BY <2>1
<1>2. ASSUME NEW k \in T PROVE k + 1 \in T
  <2>1. PICK f : FlatBy(ss, k, f)
    OBVIOUS
  <2>2. PICK g : g = [i \in 1..(k + 1) |-> IF i <= k THEN f[i]
                                           ELSE IF i = 1 THEN ss[i] ELSE f[k] \o ss[i]]
    OBVIOUS
  <2>3. (\A i \in 1..k : g[i] = f[i]) /\ g[k + 1] = IF k + 1 = 1 THEN ss[k + 1] ELSE f[k] \o ss[k + 1]
    <3>1. (\A i \in 1..k : i \in 1..(k + 1) /\ i <= k) /\ k + 1 \in 1..(k + 1) /\ ~(k + 1 <= k)
      BY SMT
    <3> QED BY <3>1, <2>2, Zenon
  <2>5. ASSUME NEW i \in 1..(k + 1)
        PROVE  g[i] = IF i = 1 THEN ss[i] ELSE g[i - 1] \o ss[i]
    <3>1. CASE i = k + 1
      <4>1. i # 1 => i - 1 = k /\ k \in 1..k
        BY <3>1, SMT
      <4> QED BY <4>1, <3>1, <2>3, Zenon
    <3>2. CASE i \in 1..k
      <4>1. f[i] = IF i = 1 THEN ss[i] ELSE f[i - 1] \o ss[i]
        BY <3>2, <2>1, Zenon DEF FlatBy
      <4>2. i # 1 => i - 1 \in 1..k
        BY <3>2, SMT
      <4> QED BY <4>1, <4>2, <3>2, <2>3, Zenon
    <3> QED BY <3>1, <3>2, SMT
  <2>6. DOMAIN g = 1..(k + 1)
    BY <2>2
  <2>7. FlatBy(ss, k + 1, g)
    BY <2>2, <2>5, <2>6, Zenon DEF FlatBy
  <2>8. k + 1 \in Nat
    OBVIOUS
  <2> QED BY <2>7, <2>8
<1> HIDE DEF T
<1>3. T = Nat
  <2>1. T \subseteq Nat
    BY DEF T
  <2> QED BY <1>1, <1>2, <2>1, Induction
<1> QED BY <1>3 DEF T

\* What the first k of the sequences make together.
Joins(ss, n, flat) == flat[0] = <<>> /\ \A k \in 1..n : flat[k] = flat[k - 1] \o ss[k]

\* FlattenSeq, one sequence after another.
LEMMA FlatSteps ==
  ASSUME NEW S, NEW ss \in Seq(Seq(S))
  PROVE  \E flat : /\ Joins(ss, Len(ss), flat) /\ FlattenSeq(ss) = flat[Len(ss)]
                   /\ \A k \in 0..Len(ss) : flat[k] \in Seq(S)
<1>1. PICK n \in Nat : n = Len(ss)
  BY LenProperties
<1>s. \A k \in 1..n : ss[k] \in Seq(S)
  BY <1>1, ElementOfSeq
<1>2. PICK f : f = CHOOSE g : FlatBy(ss, n, g)
  OBVIOUS
<1>3. FlatBy(ss, n, f)
  BY <1>2, FlatExists, Zenon
<1>4. n # 0 => FlattenSeq(ss) = f[n]
  BY <1>1, <1>2, Zenon DEF FlattenSeq, FlatBy
<1>5. n = 0 => FlattenSeq(ss) = <<>>
  <2>1. n = 0 => ss = <<>>
    BY <1>1, EmptySeq
  <2> QED BY <2>1, <1>1, Zenon DEF FlattenSeq
<1>6. PICK g : g = [k \in 0..n |-> IF k = 0 THEN <<>> ELSE f[k]]
  OBVIOUS
<1>7. /\ 0 \in 0..n /\ n \in 0..n
      /\ \A k \in 1..n : k \in 0..n /\ k # 0 /\ (k # 1 => k - 1 # 0) /\ k - 1 \in 0..n /\ (k = 1 => k - 1 = 0)
  BY SMT
<1>8. g[0] = <<>> /\ \A k \in 0..n : k # 0 => g[k] = f[k]
  BY <1>6, <1>7, Zenon
<1>9. \A k \in 1..n : f[k] = IF k = 1 THEN ss[k] ELSE f[k - 1] \o ss[k]
  BY <1>3, Zenon DEF FlatBy
<1>10. ASSUME NEW k \in 1..n PROVE g[k] = g[k - 1] \o ss[k]
  <2>1. CASE k = 1
    <3>1. <<>> \o ss[k] = ss[k]
      BY <1>s, ConcatEmptySeq
    <3> QED BY <3>1, <2>1, <1>7, <1>8, <1>9, Zenon
  <2>2. CASE k # 1
    <3>1. f[k] = f[k - 1] \o ss[k] /\ g[k] = f[k] /\ g[k - 1] = f[k - 1]
      BY <2>2, <1>7, <1>8, <1>9, Zenon
    <3> QED BY <3>1, Zenon
  <2> QED BY <2>1, <2>2
<1>11. Joins(ss, n, g) /\ FlattenSeq(ss) = g[n]
  BY <1>4, <1>5, <1>7, <1>8, <1>10, Zenon DEF Joins
<1> DEFINE T == {k \in Nat : k <= n => g[k] \in Seq(S)}
<1>12. 0 \in T
  BY <1>8, EmptySeq
<1>13. ASSUME NEW k \in T PROVE k + 1 \in T
  <2> SUFFICES ASSUME k + 1 <= n PROVE g[k + 1] \in Seq(S)
    OBVIOUS
  <2>1. k + 1 \in 1..n /\ (k + 1) - 1 = k /\ g[k] \in Seq(S)
    BY SMT
  <2>2. g[k] \o ss[k + 1] \in Seq(S)
    BY <2>1, <1>s, ConcatProperties
  <2> QED BY <2>1, <2>2, <1>10, Zenon
<1> HIDE DEF T
<1>14. T = Nat
  <2>1. T \subseteq Nat
    BY DEF T
  <2> QED BY <1>12, <1>13, <2>1, Induction
<1>15. \A k \in 0..n : g[k] \in Seq(S)
  BY <1>14, SMT DEF T
<1> QED BY <1>1, <1>11, <1>15, Zenon

\* Sequences put together have their elements.
LEMMA FlatType ==
  ASSUME NEW S, NEW ss \in Seq(Seq(S))
  PROVE  FlattenSeq(ss) \in Seq(S)
<1>1. PICK flat : /\ FlattenSeq(ss) = flat[Len(ss)]
                  /\ \A k \in 0..Len(ss) : flat[k] \in Seq(S)
  BY FlatSteps
<1>2. Len(ss) \in 0..Len(ss)
  BY LenProperties, SMT
<1> QED BY <1>1, <1>2

-------------------------------------------------------------------------------
(***************************************************************************)
(* What is read of a field.                                                *)
(***************************************************************************)

LEMMA PartCases ==
  ASSUME NEW p \in Parts
  PROVE  \/ \E no \in Int, v \in Int64s : p = Part(no, Varints, v)
         \/ \E no \in Int, s \in Seq(Byte) : p = Part(no, Delimited, s)
<1> HIDE DEF Part
<1> QED BY DEF Parts

\* What is found of a field.
LEMMA FoundType ==
  ASSUME NEW schema, NEW name, NEW b \in Seq(Byte)
  PROVE  Found(schema, name, b) \in Seq(Parts \cup {Broken})
<1>1. FieldsIn(b) \in Seq(Parts \cup {Broken})
  BY FieldsType
<1> QED BY <1>1, SelectedType, Zenon DEF Found, OfNumber

\* A number that is read, whatever the bytes.
LEMMA NumberType ==
  ASSUME NEW schema, NEW name \in Names(schema), Field(schema, name).kind = "int", NEW b \in Seq(Byte)
  PROVE  Parse(schema, b)[name] \in Int64s
<1>1. PICK found \in Seq(Parts \cup {Broken}) : found = Found(schema, name, b)
  BY FoundType
<1>2. PICK kept : kept = OfWire(found, Varints)
  OBVIOUS
<1>3. Parse(schema, b)[name] = LastOr(0, kept)
  <2>1. Parse(schema, b)[name] = Value(Field(schema, name), found)
    BY <1>1, Zenon DEF Parse
  <2>2. Field(schema, name).kind # "messages"
    OBVIOUS
  <2> QED BY <2>1, <2>2, <1>2, Zenon DEF Value, PlainValue
<1>4. kept \in Seq(Parts \cup {Broken})
  BY <1>2, SelectedType, Zenon DEF OfWire
<1>5. CASE kept = <<>>
  <2>1. 0 \in Int64s
    <3>1. 0 \in Nat /\ 0 < MaxLength
      BY SMT DEF MaxLength
    <3> QED BY <3>1, SmallNumbers
  <2> QED BY <2>1, <1>3, <1>5, Zenon DEF LastOr
<1>6. CASE kept # <<>>
  <2>1. PICK k \in 1..Len(kept) : k = Len(kept)
    <3>1. Len(kept) \in Nat \ {0}
      BY <1>4, <1>6, EmptySeq
    <3>2. Len(kept) \in 1..Len(kept)
      BY <3>1, SMT
    <3> QED BY <3>2
  <2>2. PICK i \in {j \in DOMAIN found : found[j].wire = Varints} \cap (1..Len(found)) : kept[k] = found[i]
    <3> DEFINE positions == {j \in DOMAIN found : found[j].wire = Varints}
    <3>1. kept = Selected(found, positions)
      BY <1>2, Zenon DEF OfWire
    <3> HIDE DEF positions
    <3>2. k \in 1..Len(Selected(found, positions))
      BY <3>1
    <3>3. \E i \in positions \cap (1..Len(found)) : Selected(found, positions)[k] = found[i]
      BY <3>2, SelectedElements
    <3> QED BY <3>1, <3>3, Zenon DEF positions
  <2>3. found[i] \in Parts \cup {Broken} /\ found[i].wire = Varints
    BY <2>2, ElementOfSeq
  <2>4. found[i].value \in Int64s
    <3>1. Broken.wire # Varints
      BY SMT DEF Broken, Varints
    <3>2. ASSUME NEW no \in Int, NEW s \in Seq(Byte) PROVE Part(no, Delimited, s).wire # Varints
      BY SMT DEF Part, Delimited, Varints
    <3>3. ASSUME NEW no \in Int, NEW v \in Int64s PROVE Part(no, Varints, v).value = v
      BY DEF Part
    <3>4. PICK no \in Int, v \in Int64s : found[i] = Part(no, Varints, v)
      <4>1. found[i] # Broken
        BY <2>3, <3>1, Zenon
      <4>2. PICK p \in Parts : p = found[i]
        BY <2>3, <4>1
      <4>3. (\E no \in Int, v \in Int64s : p = Part(no, Varints, v))
              \/ (\E no \in Int, s \in Seq(Byte) : p = Part(no, Delimited, s))
        BY PartCases
      <4> QED BY <4>2, <4>3, <2>3, <3>2, Zenon
    <3> QED BY <3>3, <3>4, Zenon
  <2> QED BY <2>1, <2>2, <2>4, <1>3, <1>6, Zenon DEF LastOr, Last
<1> QED BY <1>5, <1>6

-------------------------------------------------------------------------------
(***************************************************************************)
(* Bytes that are the fields ps and nothing else, whatever follows them.   *)
(***************************************************************************)
Gives(b, ps) ==
  /\ b \in Seq(Byte) /\ ps \in Seq(Parts)
  /\ \A rest \in Seq(Byte) : FieldsAre(b \o rest, ps \o FieldsIn(rest))

LEMMA PartsAmong ==
  ASSUME NEW ps \in Seq(Parts)
  PROVE  ps \in Seq(Parts \cup {Broken})
BY SeqMonotonic

LEMMA GivesNothing == Gives(<<>>, <<>>)
<1>1. <<>> \in Seq(Byte) /\ <<>> \in Seq(Parts)
  BY EmptySeq
<1>2. ASSUME NEW rest \in Seq(Byte) PROVE FieldsAre(<<>> \o rest, <<>> \o FieldsIn(rest))
  <2>1. FieldsIn(rest) \in Seq(Parts \cup {Broken})
    BY FieldsType
  <2>2. <<>> \o rest = rest /\ <<>> \o FieldsIn(rest) = FieldsIn(rest)
    BY <2>1, ConcatEmptySeq
  <2> QED BY <2>2, Zenon DEF FieldsAre
<1> QED BY <1>1, <1>2, Zenon DEF Gives

\* Bytes that give some fields, before bytes that give others.
LEMMA GivesConcat ==
  ASSUME NEW a, NEW b, NEW ps, NEW qs, Gives(a, ps), Gives(b, qs)
  PROVE  Gives(a \o b, ps \o qs)
<1>1. /\ a \in Seq(Byte) /\ b \in Seq(Byte) /\ ps \in Seq(Parts) /\ qs \in Seq(Parts)
  BY Zenon DEF Gives
<1>2. a \o b \in Seq(Byte) /\ ps \o qs \in Seq(Parts)
  BY <1>1, ConcatProperties
<1>3. ASSUME NEW rest \in Seq(Byte)
      PROVE  FieldsAre((a \o b) \o rest, (ps \o qs) \o FieldsIn(rest))
  <2>1. b \o rest \in Seq(Byte) /\ (a \o b) \o rest = a \o (b \o rest)
    BY <1>1, ConcatProperties, ConcatAssociative
  <2>2. FieldsIn(rest) \in Seq(Parts \cup {Broken})
    BY FieldsType
  <2>3. ps \in Seq(Parts \cup {Broken}) /\ qs \in Seq(Parts \cup {Broken})
    BY <1>1, PartsAmong
  <2>4. (ps \o qs) \o FieldsIn(rest) = ps \o (qs \o FieldsIn(rest))
    BY <2>2, <2>3, ConcatAssociative
  <2>5. FieldsIn(a \o (b \o rest)) = ps \o FieldsIn(b \o rest)
    BY <2>1, Zenon DEF Gives, FieldsAre
  <2>6. FieldsIn(b \o rest) = qs \o FieldsIn(rest)
    BY Zenon DEF Gives, FieldsAre
  <2> QED BY <2>1, <2>4, <2>5, <2>6, Zenon DEF FieldsAre
<1> QED BY <1>2, <1>3, Zenon DEF Gives

\* The bytes alone.
LEMMA GivesFields ==
  ASSUME NEW b, NEW ps, Gives(b, ps)
  PROVE  FieldsIn(b) = ps /\ Parses(b)
<1>1. b \in Seq(Byte) /\ ps \in Seq(Parts) /\ <<>> \in Seq(Byte)
  BY EmptySeq, Zenon DEF Gives
<1>2. b \o <<>> = b /\ ps \o <<>> = ps
  BY <1>1, ConcatEmptySeq
<1>3. FieldsIn(<<>>) = <<>>
  BY FieldsEmpty DEF FieldsAre
<1>4. FieldsIn(b \o <<>>) = ps \o FieldsIn(<<>>)
  BY <1>1, Zenon DEF Gives, FieldsAre
<1>5. FieldsIn(b) = ps
  BY <1>2, <1>3, <1>4
<1>6. ASSUME NEW i \in DOMAIN ps PROVE ps[i] # Broken
  <2>1. ps[i] \in Parts
    BY <1>1, ElementOfSeq, LenProperties
  <2>2. PICK p \in Parts : p = ps[i]
    BY <2>1
  <2>3. \/ \E no \in Int, v \in Int64s : p = Part(no, Varints, v)
        \/ \E no \in Int, s \in Seq(Byte) : p = Part(no, Delimited, s)
    BY PartCases
  <2>4. \A no, v : Part(no, Varints, v) # Broken /\ Part(no, Delimited, v) # Broken
    BY PartNotBroken, Zenon
  <2> QED BY <2>2, <2>3, <2>4, Zenon
<1>7. Parses(b)
  BY <1>5, <1>6, Zenon DEF Parses
<1> QED BY <1>5, <1>7

-------------------------------------------------------------------------------
\* A tag is a byte.
TagByte(no, wire) == (8 * no) + wire

\* The tag of a field is one byte.
LEMMA Tags ==
  ASSUME NEW no \in 1..15, NEW wire \in {Varints, Delimited}
  PROVE  /\ (8 * no) + wire \in Int64s /\ VarintSize((8 * no) + wire) = 1
         /\ ((8 * no) + wire) \div 8 = no /\ ((8 * no) + wire) % 8 = wire
<1>1. PICK t \in Nat : t = (8 * no) + wire /\ t < 128 /\ t \div 8 = no /\ t % 8 = wire
  <2>1. wire = 0 \/ wire = 2
    BY DEF Varints, Delimited
  <2>2. \A w \in {0, 2} : /\ (8 * no) + w \in Nat /\ (8 * no) + w < 128
                          /\ ((8 * no) + w) \div 8 = no /\ ((8 * no) + w) % 8 = w
    BY SMT
  <2> QED BY <2>1, <2>2, Zenon
<1>2. t < MaxLength
  BY <1>1, SMT DEF MaxLength
<1>3. t \in Int64s /\ Shifted(t)[1] = 0
  BY <1>1, <1>2, SmallNumbers
<1>4. VarintSize(t) = 1
  <2>1. ~(t < 0) /\ 1 \in 1..10 /\ ~(1 > 1)
    BY <1>1, SMT
  <2>2. PICK n : n = VarintSize(t)
    OBVIOUS
  <2>3. n = CHOOSE k \in 1..10 : Shifted(t)[k] = 0 /\ (k > 1 => Shifted(t)[k - 1] # 0)
    BY <2>1, <2>2, Zenon DEF VarintSize
  <2>4. n \in 1..10 /\ Shifted(t)[n] = 0 /\ (n > 1 => Shifted(t)[n - 1] # 0)
    BY <2>1, <2>3, <1>3, Zenon
  <2>5. ASSUME n > 1 PROVE FALSE
    <3>1. 1 \in 0..10 /\ n - 1 \in 1..10
      BY <2>4, <2>5, SMT
    <3>2. Shifted(t)[n - 1] = 0
      BY <3>1, <1>1, <1>3, ShiftedZero
    <3> QED BY <3>2, <2>4, <2>5
  <2>6. n = 1
    BY <2>4, <2>5, SMT
  <2> QED BY <2>2, <2>6
<1> QED BY <1>1, <1>3, <1>4, Zenon

\* A field that is a number.
LEMMA NumberGives ==
  ASSUME NEW no \in 1..15, NEW v \in Int64s
  PROVE  Gives(Tag(no, Varints) \o Varint(v), <<Part(no, Varints, v)>>)
<1> DEFINE tag == (8 * no) + Varints
           w == Varint(v)
<1>1. tag \in Int64s /\ tag \div 8 = no /\ tag % 8 = Varints
  BY Tags
<1>2. Tag(no, Varints) = Varint(tag)
  BY DEF Tag
<1> HIDE DEF tag, w
<1>3. Varint(tag) \in Seq(Byte) /\ w \in Seq(Byte)
  BY <1>1, VarintBytes DEF w
<1>4. no \in Int /\ no # 0
  BY SMT
<1>5. <<Part(no, Varints, v)>> \in Seq(Parts)
  <2>1. Part(no, Varints, v) \in Parts
    BY <1>4, PartTypes
  <2> QED BY <2>1, SMT
<1>6. ASSUME NEW rest \in Seq(Byte)
      PROVE  FieldsAre((Varint(tag) \o w) \o rest, <<Part(no, Varints, v)>> \o FieldsIn(rest))
  <2>1. (Varint(tag) \o w) \o rest = Varint(tag) \o (w \o rest)
    BY <1>3, ConcatAssociative
  <2>2. PICK after : after = w \o rest
    OBVIOUS
  <2>3. after \in Seq(Byte) /\ HasVarint(after) /\ ReadVarint(after) = v /\ AfterVarint(after) = rest
    BY <2>2, VarintRead DEF w
  <2>4. PICK b : b = Varint(tag) \o after
    OBVIOUS
  <2>5. b \in Seq(Byte) /\ HasVarint(b) /\ ReadVarint(b) = tag /\ AfterVarint(b) = after
    BY <2>3, <2>4, <1>1, VarintRead
  <2>6. FirstField(b) = [no |-> no, wire |-> Varints, value |-> v, rest |-> Len(rest)]
    BY <2>3, <2>5, <1>1, <1>4, Zenon DEF FirstField
  <2>7. FirstField(b) # Broken
    BY <2>6, PartNotBroken
  <2>8. PartOf(FirstField(b)) = Part(no, Varints, v) /\ FirstField(b).rest = Len(rest)
    BY <2>6 DEF PartOf
  <2>9. b # <<>>
    <3>1. Len(AfterVarint(b)) < Len(b) /\ Len(AfterVarint(b)) \in Nat
      BY <2>3, <2>5, AfterType, LenProperties
    <3>2. Len(<<>>) = 0
      BY EmptySeq
    <3> QED BY <3>1, <3>2, SMT
  <2>10. FieldsAre(b, <<PartOf(FirstField(b))>> \o FieldsIn(Suffix(b, FirstField(b).rest)))
    BY <2>5, <2>7, <2>9, FieldsNext, Zenon
  <2>11. Suffix(b, Len(rest)) = rest
    <3>1. b = (Varint(tag) \o w) \o rest /\ Varint(tag) \o w \in Seq(Byte)
      BY <2>1, <2>2, <2>4, <1>3, ConcatProperties
    <3>2. SuffixIs((Varint(tag) \o w) \o rest, Len(rest), rest)
      BY <3>1, SuffixOfConcat
    <3> QED BY <3>1, <3>2 DEF SuffixIs
  <2> QED BY <2>1, <2>2, <2>4, <2>8, <2>10, <2>11, Zenon
<1>7. Varint(tag) \o w \in Seq(Byte)
  BY <1>3, ConcatProperties
<1>8. Gives(Varint(tag) \o w, <<Part(no, Varints, v)>>)
  BY <1>5, <1>6, <1>7, Zenon DEF Gives
<1> QED BY <1>2, <1>8, Zenon DEF w

\* A field that is bytes.
LEMMA BytesGive ==
  ASSUME NEW no \in 1..15, NEW s \in Seq(Byte), Len(s) < MaxLength
  PROVE  Gives(Tag(no, Delimited) \o Prefixed(s), <<Part(no, Delimited, s)>>)
<1> DEFINE tag == (8 * no) + Delimited
           n == Len(s)
           w == Varint(n)
<1>1. tag \in Int64s /\ tag \div 8 = no /\ tag % 8 = Delimited
  BY Tags
<1>2. Tag(no, Delimited) = Varint(tag) /\ Prefixed(s) = w \o s
  BY Zenon DEF Tag, Prefixed
<1>n. n \in Nat /\ n \in Int64s
  <2>1. n \in Nat
    BY LenProperties
  <2> QED BY <2>1, SmallNumbers
<1> HIDE DEF tag, w
<1>3. Varint(tag) \in Seq(Byte) /\ w \in Seq(Byte)
  BY <1>1, <1>n, VarintBytes DEF w
<1>4. no \in Int /\ no # 0 /\ Delimited # Varints
  BY SMT DEF Delimited, Varints
<1>5. <<Part(no, Delimited, s)>> \in Seq(Parts)
  <2>1. Part(no, Delimited, s) \in Parts
    BY <1>4, PartTypes
  <2> QED BY <2>1, SMT
<1>c. w \o s \in Seq(Byte) /\ Varint(tag) \o (w \o s) \in Seq(Byte)
  BY <1>3, ConcatProperties
<1>6. ASSUME NEW rest \in Seq(Byte)
      PROVE  FieldsAre((Varint(tag) \o (w \o s)) \o rest, <<Part(no, Delimited, s)>> \o FieldsIn(rest))
  <2>t. PICK t : t = s \o rest
    OBVIOUS
  <2>u. /\ t \in Seq(Byte) /\ Len(t) = n + Len(rest) /\ Len(rest) \in Nat
        /\ \A k \in 1..n : t[k] = s[k]
    BY <2>t, SeqFacts, LenProperties
  <2>1. (Varint(tag) \o (w \o s)) \o rest = Varint(tag) \o (w \o t)
    <3>1. (Varint(tag) \o (w \o s)) \o rest = Varint(tag) \o ((w \o s) \o rest)
      BY <1>3, <1>c, ConcatAssociative
    <3>2. (w \o s) \o rest = w \o (s \o rest)
      BY <1>3, ConcatAssociative
    <3> QED BY <3>1, <3>2, <2>t
  <2>2. PICK after : after = w \o t
    OBVIOUS
  <2>3. after \in Seq(Byte) /\ HasVarint(after) /\ ReadVarint(after) = n /\ AfterVarint(after) = t
    BY <2>2, <2>u, <1>n, VarintRead DEF w
  <2>4. PICK b : b = Varint(tag) \o after
    OBVIOUS
  <2>5. b \in Seq(Byte) /\ HasVarint(b) /\ ReadVarint(b) = tag /\ AfterVarint(b) = after
    BY <2>3, <2>4, <1>1, VarintRead
  <2>n. n \in 0..Len(t) /\ Len(t) - n = Len(rest)
    BY <2>u, <1>n, SMT
  <2>s. SubSeq(t, 1, n) = s
    <3>1. SubSeq(t, 0 + 1, 0 + n) \in Seq(Byte) /\ Len(SubSeq(t, 0 + 1, 0 + n)) = n
          /\ \A k \in 1..n : SubSeq(t, 0 + 1, 0 + n)[k] = t[0 + k]
      <4>1. 0 \in Nat /\ 0 + n <= Len(t)
        BY <2>n, <1>n, SMT
      <4> QED BY <4>1, <2>u, <1>n, SubSeqFacts
    <3>2. 0 + 1 = 1 /\ 0 + n = n /\ \A k \in 1..n : 0 + k = k
      BY <1>n, SMT
    <3>3. SubSeq(t, 1, n) \in Seq(Byte) /\ Len(SubSeq(t, 1, n)) = n
          /\ \A k \in 1..n : SubSeq(t, 1, n)[k] = s[k]
      BY <3>1, <3>2, <2>u, Zenon
    <3> QED BY <3>3, SeqEqual, Zenon
  <2>6. FirstField(b) = [no |-> no, wire |-> Delimited, value |-> s, rest |-> Len(rest)]
    BY <2>3, <2>5, <2>n, <2>s, <1>1, <1>4, Zenon DEF FirstField
  <2>7. FirstField(b) # Broken
    BY <2>6, PartNotBroken
  <2>8. PartOf(FirstField(b)) = Part(no, Delimited, s) /\ FirstField(b).rest = Len(rest)
    BY <2>6 DEF PartOf
  <2>9. b # <<>>
    <3>1. Len(AfterVarint(b)) < Len(b) /\ Len(AfterVarint(b)) \in Nat
      BY <2>3, <2>5, AfterType, LenProperties
    <3>2. Len(<<>>) = 0
      BY EmptySeq
    <3> QED BY <3>1, <3>2, SMT
  <2>10. FieldsAre(b, <<PartOf(FirstField(b))>> \o FieldsIn(Suffix(b, FirstField(b).rest)))
    BY <2>5, <2>7, <2>9, FieldsNext, Zenon
  <2>11. Suffix(b, Len(rest)) = rest
    <3>1. b = (Varint(tag) \o (w \o s)) \o rest
      BY <2>1, <2>2, <2>4
    <3>2. SuffixIs((Varint(tag) \o (w \o s)) \o rest, Len(rest), rest)
      BY <1>c, SuffixOfConcat
    <3> QED BY <3>1, <3>2 DEF SuffixIs
  <2> QED BY <2>1, <2>2, <2>4, <2>8, <2>10, <2>11, Zenon
<1>8. Gives(Varint(tag) \o (w \o s), <<Part(no, Delimited, s)>>)
  BY <1>5, <1>6, <1>c, Zenon DEF Gives
<1> QED BY <1>2, <1>8, Zenon

-------------------------------------------------------------------------------
\* Many fields, one after another.
LEMMA GivesFlat ==
  ASSUME NEW bs \in Seq(Seq(Byte)), NEW pss \in Seq(Seq(Parts)), Len(bs) = Len(pss),
         \A k \in 1..Len(bs) : Gives(bs[k], pss[k])
  PROVE  Gives(FlattenSeq(bs), FlattenSeq(pss))
<1>1. PICK n \in Nat : n = Len(bs) /\ n = Len(pss)
  BY LenProperties
<1>2. PICK f : Joins(bs, n, f) /\ FlattenSeq(bs) = f[n]
  BY <1>1, FlatSteps
<1>3. PICK g : Joins(pss, n, g) /\ FlattenSeq(pss) = g[n]
  BY <1>1, FlatSteps
<1> DEFINE T == {k \in Nat : k <= n => Gives(f[k], g[k])}
<1>4. 0 \in T
  BY <1>2, <1>3, GivesNothing DEF Joins
<1>5. ASSUME NEW k \in T PROVE k + 1 \in T
  <2> SUFFICES ASSUME k + 1 <= n PROVE Gives(f[k + 1], g[k + 1])
    OBVIOUS
  <2>1. k + 1 \in 1..n /\ (k + 1) - 1 = k /\ Gives(f[k], g[k])
    BY SMT
  <2>2. f[k + 1] = f[k] \o bs[k + 1] /\ g[k + 1] = g[k] \o pss[k + 1]
    BY <2>1, <1>2, <1>3, Zenon DEF Joins
  <2>3. Gives(bs[k + 1], pss[k + 1])
    BY <2>1, <1>1
  <2>4. Gives(f[k] \o bs[k + 1], g[k] \o pss[k + 1])
    BY <2>1, <2>3, GivesConcat
  <2> QED BY <2>2, <2>4
<1> HIDE DEF T
<1>6. T = Nat
  <2>1. T \subseteq Nat
    BY DEF T
  <2> QED BY <1>4, <1>5, <2>1, Induction
<1>7. Gives(f[n], g[n])
  <2>1. n <= n
    BY SMT
  <2> QED BY <2>1, <1>6, Zenon DEF T
<1> QED BY <1>2, <1>3, <1>7

\* The sequences of one element each make the sequence of their elements.
FlatIs(ss, s) == FlattenSeq(ss) = s
LEMMA FlatSingles ==
  ASSUME NEW S, NEW s \in Seq(S), NEW ss \in Seq(Seq(S)), Len(ss) = Len(s),
         \A k \in 1..Len(s) : ss[k] = <<s[k]>>
  PROVE  FlatIs(ss, s)
<1>1. PICK n \in Nat : n = Len(s) /\ n = Len(ss)
  BY LenProperties
<1>s. \A k \in 1..n : s[k] \in S
  BY <1>1, ElementOfSeq
<1>2. PICK f : /\ Joins(ss, n, f) /\ FlattenSeq(ss) = f[n]
               /\ \A k \in 0..n : f[k] \in Seq(S)
  BY <1>1, FlatSteps
<1> DEFINE Holds(k) == Len(f[k]) = k /\ \A i \in 1..k : f[k][i] = s[i]
           T == {k \in Nat : k <= n => Holds(k)}
<1>3. 0 \in T
  <2>1. f[0] = <<>> /\ Len(<<>>) = 0 /\ \A i \in 1..0 : FALSE
    BY <1>2, EmptySeq, SMT DEF Joins
  <2> QED BY <2>1
<1>4. ASSUME NEW k \in T PROVE k + 1 \in T
  <2> SUFFICES ASSUME k + 1 <= n PROVE Holds(k + 1)
    OBVIOUS
  <2>1. k + 1 \in 1..n /\ (k + 1) - 1 = k /\ k \in 0..n /\ Holds(k)
    BY SMT
  <2>2. f[k + 1] = f[k] \o <<s[k + 1]>>
    BY <2>1, <1>1, <1>2, Zenon DEF Joins
  <2>3. f[k] \in Seq(S) /\ s[k + 1] \in S
    BY <2>1, <1>2, <1>s
  <2>4. /\ Len(f[k] \o <<s[k + 1]>>) = Len(f[k]) + 1
        /\ \A i \in 1..Len(f[k]) : (f[k] \o <<s[k + 1]>>)[i] = f[k][i]
        /\ (f[k] \o <<s[k + 1]>>)[Len(f[k]) + 1] = s[k + 1]
    <3>1. f[k] \o <<s[k + 1]>> = Append(f[k], s[k + 1])
      BY <2>3, AppendIsConcat
    <3> QED BY <3>1, <2>3, AppendProperties
  <2>5. \A i \in 1..(k + 1) : i \in 1..k \/ i = k + 1
    BY SMT
  <2> QED BY <2>1, <2>2, <2>4, <2>5, Zenon
<1> HIDE DEF T
<1>5. T = Nat
  <2>1. T \subseteq Nat
    BY DEF T
  <2> QED BY <1>3, <1>4, <2>1, Induction
<1>6. Holds(n) /\ n \in 0..n
  <2>1. n <= n /\ n \in 0..n
    BY SMT
  <2> QED BY <2>1, <1>5, Zenon DEF T
<1>7. f[n] = s
  BY <1>1, <1>2, <1>6, SeqEqual
<1> QED BY <1>2, <1>7 DEF FlatIs

-------------------------------------------------------------------------------
\* Numbers packed one after another.
GivesInts(b, ints) ==
  /\ b \in Seq(Byte) /\ ints \in Seq(Int64s)
  /\ \A rest \in Seq(Byte) : IntsAre(b \o rest, ints \o Unpacked(rest))

LEMMA IntsNothing == GivesInts(<<>>, <<>>)
<1>1. <<>> \in Seq(Byte) /\ <<>> \in Seq(Int64s)
  BY EmptySeq
<1>2. ASSUME NEW rest \in Seq(Byte) PROVE IntsAre(<<>> \o rest, <<>> \o Unpacked(rest))
  <2>1. Unpacked(rest) \in Seq(Int64s)
    BY IntsType
  <2>2. <<>> \o rest = rest /\ <<>> \o Unpacked(rest) = Unpacked(rest)
    BY <2>1, ConcatEmptySeq
  <2> QED BY <2>2, Zenon DEF IntsAre
<1> QED BY <1>1, <1>2, Zenon DEF GivesInts

LEMMA IntsConcat ==
  ASSUME NEW a, NEW b, NEW ps, NEW qs, GivesInts(a, ps), GivesInts(b, qs)
  PROVE  GivesInts(a \o b, ps \o qs)
<1>1. /\ a \in Seq(Byte) /\ b \in Seq(Byte) /\ ps \in Seq(Int64s) /\ qs \in Seq(Int64s)
  BY Zenon DEF GivesInts
<1>2. a \o b \in Seq(Byte) /\ ps \o qs \in Seq(Int64s)
  BY <1>1, ConcatProperties
<1>3. ASSUME NEW rest \in Seq(Byte)
      PROVE  IntsAre((a \o b) \o rest, (ps \o qs) \o Unpacked(rest))
  <2>1. b \o rest \in Seq(Byte) /\ (a \o b) \o rest = a \o (b \o rest)
    BY <1>1, ConcatProperties, ConcatAssociative
  <2>2. Unpacked(rest) \in Seq(Int64s)
    BY IntsType
  <2>4. (ps \o qs) \o Unpacked(rest) = ps \o (qs \o Unpacked(rest))
    BY <1>1, <2>2, ConcatAssociative
  <2>5. Unpacked(a \o (b \o rest)) = ps \o Unpacked(b \o rest)
    BY <2>1, Zenon DEF GivesInts, IntsAre
  <2>6. Unpacked(b \o rest) = qs \o Unpacked(rest)
    BY Zenon DEF GivesInts, IntsAre
  <2> QED BY <2>1, <2>4, <2>5, <2>6, Zenon DEF IntsAre
<1> QED BY <1>2, <1>3, Zenon DEF GivesInts

LEMMA IntsFlat ==
  ASSUME NEW bs \in Seq(Seq(Byte)), NEW pss \in Seq(Seq(Int64s)), Len(bs) = Len(pss),
         \A k \in 1..Len(bs) : GivesInts(bs[k], pss[k])
  PROVE  GivesInts(FlattenSeq(bs), FlattenSeq(pss))
<1>1. PICK n \in Nat : n = Len(bs) /\ n = Len(pss)
  BY LenProperties
<1>2. PICK f : Joins(bs, n, f) /\ FlattenSeq(bs) = f[n]
  BY <1>1, FlatSteps
<1>3. PICK g : Joins(pss, n, g) /\ FlattenSeq(pss) = g[n]
  BY <1>1, FlatSteps
<1> DEFINE T == {k \in Nat : k <= n => GivesInts(f[k], g[k])}
<1>4. 0 \in T
  BY <1>2, <1>3, IntsNothing DEF Joins
<1>5. ASSUME NEW k \in T PROVE k + 1 \in T
  <2> SUFFICES ASSUME k + 1 <= n PROVE GivesInts(f[k + 1], g[k + 1])
    OBVIOUS
  <2>1. k + 1 \in 1..n /\ (k + 1) - 1 = k /\ GivesInts(f[k], g[k])
    BY SMT
  <2>2. f[k + 1] = f[k] \o bs[k + 1] /\ g[k + 1] = g[k] \o pss[k + 1]
    BY <2>1, <1>2, <1>3, Zenon DEF Joins
  <2>3. GivesInts(bs[k + 1], pss[k + 1])
    BY <2>1, <1>1
  <2>4. GivesInts(f[k] \o bs[k + 1], g[k] \o pss[k + 1])
    BY <2>1, <2>3, IntsConcat
  <2> QED BY <2>2, <2>4
<1> HIDE DEF T
<1>6. T = Nat
  <2>1. T \subseteq Nat
    BY DEF T
  <2> QED BY <1>4, <1>5, <2>1, Induction
<1>7. GivesInts(f[n], g[n])
  <2>1. n <= n
    BY SMT
  <2> QED BY <2>1, <1>6, Zenon DEF T
<1> QED BY <1>2, <1>3, <1>7

\* Packed numbers are read back.
LEMMA PackedBack ==
  ASSUME NEW ints \in Seq(Int64s)
  PROVE  Packed(ints) \in Seq(Byte) /\ IntsAre(Packed(ints), ints)
<1>1. PICK n \in Nat : n = Len(ints)
  BY LenProperties
<1>2. DOMAIN ints = 1..n /\ \A k \in 1..n : ints[k] \in Int64s
  BY <1>1, ElementOfSeq, LenProperties
<1> DEFINE byte(k) == Varint(ints[k])
           one(k) == <<ints[k]>>
<1>3. ASSUME NEW k \in 1..n
      PROVE  byte(k) \in Seq(Byte) /\ one(k) \in Seq(Int64s) /\ GivesInts(byte(k), one(k))
  <2>1. ints[k] \in Int64s
    BY <1>2
  <2>2. byte(k) \in Seq(Byte)
    BY <2>1, VarintBytes
  <2>3. one(k) \in Seq(Int64s)
    BY <2>1, SMT
  <2>4. \A rest \in Seq(Byte) : IntsAre(byte(k) \o rest, one(k) \o Unpacked(rest))
    BY <2>1, IntsNext
  <2> QED BY <2>2, <2>3, <2>4, Zenon DEF GivesInts
<1> HIDE DEF byte, one
<1>4. PICK bs : bs = [k \in 1..n |-> byte(k)]
  OBVIOUS
<1>5. PICK is : is = [k \in 1..n |-> one(k)]
  OBVIOUS
<1>6. bs \in Seq(Seq(Byte)) /\ Len(bs) = n /\ \A k \in 1..n : bs[k] = byte(k)
  BY <1>3, <1>4
<1>7. is \in Seq(Seq(Int64s)) /\ Len(is) = n /\ \A k \in 1..n : is[k] = one(k)
  BY <1>3, <1>5
<1>8. GivesInts(FlattenSeq(bs), FlattenSeq(is))
  <2>1. \A k \in 1..Len(bs) : GivesInts(bs[k], is[k])
    BY <1>3, <1>6, <1>7, Zenon
  <2> QED BY <2>1, <1>6, <1>7, IntsFlat
<1>9. FlattenSeq(is) = ints
  <2>1. \A k \in 1..Len(ints) : is[k] = <<ints[k]>>
    BY <1>1, <1>7 DEF one
  <2>2. FlatIs(is, ints)
    BY <2>1, <1>1, <1>7, FlatSingles
  <2> QED BY <2>2 DEF FlatIs
<1>10. Packed(ints) = FlattenSeq(bs)
  BY <1>2, <1>4, Zenon DEF Packed, byte
<1>11. GivesInts(Packed(ints), ints)
  BY <1>8, <1>9, <1>10
<1>12. <<>> \in Seq(Byte) /\ Packed(ints) \in Seq(Byte)
  BY <1>11, EmptySeq DEF GivesInts
<1>13. IntsAre(Packed(ints) \o <<>>, ints \o Unpacked(<<>>))
  BY <1>11, <1>12, Zenon DEF GivesInts
<1>14. Packed(ints) \o <<>> = Packed(ints) /\ Unpacked(<<>>) = <<>> /\ ints \o <<>> = ints
  BY <1>12, ConcatEmptySeq, IntsEmpty DEF IntsAre
<1> QED BY <1>12, <1>13, <1>14

-------------------------------------------------------------------------------
\* All elements, or none.
SelectedIs(s, positions, t) == Selected(s, positions) = t

\* All positions, selected.
LEMMA SelectedAll ==
  ASSUME NEW S, NEW s \in Seq(S), NEW positions, \A k \in 1..Len(s) : k \in positions
  PROVE  SelectedIs(s, positions, s)
<1>1. PICK n \in Nat : n = Len(s)
  BY LenProperties
<1>2. PICK f : /\ KeptBy(s, positions, f) /\ Selected(s, positions) = f[n]
               /\ \A k \in 0..n : f[k] \in Seq(S)
  BY <1>1, SelectedSteps
<1>s. \A k \in 1..n : s[k] \in S
  BY <1>1, ElementOfSeq
<1> DEFINE Holds(k) == Len(f[k]) = k /\ \A i \in 1..k : f[k][i] = s[i]
           T == {k \in Nat : k <= n => Holds(k)}
<1>3. 0 \in T
  <2>1. f[0] = <<>> /\ Len(<<>>) = 0 /\ \A i \in 1..0 : FALSE
    BY <1>2, EmptySeq, SMT DEF KeptBy
  <2> QED BY <2>1
<1>4. ASSUME NEW k \in T PROVE k + 1 \in T
  <2> SUFFICES ASSUME k + 1 <= n PROVE Holds(k + 1)
    OBVIOUS
  <2>1. k + 1 \in 1..n /\ (k + 1) - 1 = k /\ k \in 0..n /\ Holds(k)
    BY SMT
  <2>2. f[k + 1] = Append(f[k], s[k + 1])
    BY <2>1, <1>1, <1>2, Zenon DEF KeptBy
  <2>3. f[k] \in Seq(S) /\ s[k + 1] \in S
    BY <2>1, <1>2, <1>s
  <2>4. /\ Len(Append(f[k], s[k + 1])) = Len(f[k]) + 1
        /\ \A i \in 1..Len(f[k]) : Append(f[k], s[k + 1])[i] = f[k][i]
        /\ Append(f[k], s[k + 1])[Len(f[k]) + 1] = s[k + 1]
    BY <2>3, AppendProperties
  <2>5. \A i \in 1..(k + 1) : i \in 1..k \/ i = k + 1
    BY SMT
  <2> QED BY <2>1, <2>2, <2>4, <2>5, Zenon
<1> HIDE DEF T
<1>5. T = Nat
  <2>1. T \subseteq Nat
    BY DEF T
  <2> QED BY <1>3, <1>4, <2>1, Induction
<1>6. Holds(n) /\ n \in 0..n
  <2>1. n <= n /\ n \in 0..n
    BY SMT
  <2> QED BY <2>1, <1>5, Zenon DEF T
<1>7. f[n] = s
  BY <1>1, <1>2, <1>6, SeqEqual
<1> QED BY <1>2, <1>7 DEF SelectedIs

\* No position, selected.
LEMMA SelectedNone ==
  ASSUME NEW S, NEW s \in Seq(S), NEW positions, \A k \in 1..Len(s) : k \notin positions
  PROVE  SelectedIs(s, positions, <<>>)
<1>1. Selected(s, positions) \in Seq(S)
  BY SelectedType
<1>2. ASSUME Selected(s, positions) # <<>> PROVE FALSE
  <2>1. Len(Selected(s, positions)) \in Nat \ {0}
    BY <1>1, <1>2, EmptySeq
  <2>2. 1 \in 1..Len(Selected(s, positions))
    BY <2>1, SMT
  <2>3. \E i \in positions \cap (1..Len(s)) : Selected(s, positions)[1] = s[i]
    BY <2>2, SelectedElements
  <2> QED BY <2>3
<1> QED BY <1>2 DEF SelectedIs

-------------------------------------------------------------------------------
(***************************************************************************)
(* The fields with one number.                                             *)
(***************************************************************************)
Numbered(ps, no) == ps \in Seq(Parts) /\ \A i \in 1..Len(ps) : ps[i].no = no
NumberedIs(ps, no, qs) == OfNumber(ps, no) = qs

LEMMA NotBroken ==
  ASSUME NEW p \in Parts
  PROVE  p # Broken
<1>1. \/ \E no \in Int, v \in Int64s : p = Part(no, Varints, v)
      \/ \E no \in Int, s \in Seq(Byte) : p = Part(no, Delimited, s)
  BY PartCases
<1>2. \A no, v : Part(no, Varints, v) # Broken /\ Part(no, Delimited, v) # Broken
  BY PartNotBroken, Zenon
<1> QED BY <1>1, <1>2, Zenon

LEMMA OfItsNumber ==
  ASSUME NEW ps, NEW no, Numbered(ps, no), NEW other, other # no
  PROVE  NumberedIs(ps, no, ps) /\ NumberedIs(ps, other, <<>>)
<1>1. ps \in Seq(Parts) /\ DOMAIN ps = 1..Len(ps) /\ \A i \in 1..Len(ps) : ps[i].no = no
  BY LenProperties DEF Numbered
<1>2. \A i \in 1..Len(ps) : ps[i] # Broken
  <2>1. \A i \in 1..Len(ps) : ps[i] \in Parts
    BY <1>1, ElementOfSeq
  <2> QED BY <2>1, NotBroken, Zenon
<1> DEFINE I == {i \in DOMAIN ps : ps[i] # Broken /\ ps[i].no = no}
           J == {i \in DOMAIN ps : ps[i] # Broken /\ ps[i].no = other}
<1>3. (\A i \in 1..Len(ps) : i \in I) /\ (\A i \in 1..Len(ps) : i \notin J)
  BY <1>1, <1>2, Zenon
<1> HIDE DEF I, J
<1>4. SelectedIs(ps, I, ps) /\ SelectedIs(ps, J, <<>>)
  BY <1>1, <1>3, SelectedAll, SelectedNone
<1> QED BY <1>4, Zenon DEF SelectedIs, NumberedIs, OfNumber, I, J

LEMMA OfNumberConcat ==
  ASSUME NEW s \in Seq(Parts), NEW t \in Seq(Parts), NEW no
  PROVE  NumberedIs(s \o t, no, OfNumber(s, no) \o OfNumber(t, no))
<1>1. PICK u : u = s \o t
  OBVIOUS
<1>2. /\ Len(u) = Len(s) + Len(t) /\ Len(s) \in Nat /\ Len(t) \in Nat
      /\ DOMAIN s = 1..Len(s) /\ DOMAIN t = 1..Len(t) /\ DOMAIN u = 1..Len(u)
      /\ \A k \in 1..Len(s) : u[k] = s[k]
      /\ \A k \in 1..Len(t) : u[Len(s) + k] = t[k]
  BY <1>1, SeqFacts, LenProperties
<1> DEFINE Of(r) == {i \in DOMAIN r : r[i] # Broken /\ r[i].no = no}
<1>3. /\ \A k \in 1..Len(s) : k \in 1..Len(u)
      /\ \A k \in 1..Len(t) : Len(s) + k \in 1..Len(u)
  BY <1>2, SMT
<1>4. /\ \A k \in 1..Len(s) : k \in Of(s) <=> k \in Of(u)
      /\ \A k \in 1..Len(t) : k \in Of(t) <=> Len(s) + k \in Of(u)
  BY <1>2, <1>3, Zenon
<1> HIDE DEF Of
<1>5. SelectedTogether(s, t, Of(s), Of(t), Of(u))
  BY <1>4, SelectedConcat
<1> QED BY <1>1, <1>5, Zenon DEF SelectedTogether, NumberedIs, OfNumber, Of

\* Each field is found among all by its number.
LEMMA OfNumberFlat ==
  ASSUME NEW pss \in Seq(Seq(Parts)), \A k \in 1..Len(pss) : Numbered(pss[k], k),
         NEW no \in 1..Len(pss)
  PROVE  NumberedIs(FlattenSeq(pss), no, pss[no])
<1>1. PICK n \in Nat : n = Len(pss)
  BY LenProperties
<1>s. \A k \in 1..n : pss[k] \in Seq(Parts)
  BY <1>1, ElementOfSeq
<1>2. PICK f : /\ Joins(pss, n, f) /\ FlattenSeq(pss) = f[n]
               /\ \A k \in 0..n : f[k] \in Seq(Parts)
  BY <1>1, FlatSteps
<1> DEFINE Holds(k) == OfNumber(f[k], no) = IF k < no THEN <<>> ELSE pss[no]
           T == {k \in Nat : k <= n => Holds(k)}
<1>n. no \in 1..n
  BY <1>1
<1>3. 0 \in T
  <2>1. f[0] = <<>> /\ 0 < no
    BY <1>2, <1>n, SMT DEF Joins
  <2>2. OfNumber(<<>>, no) = <<>>
    BY SelectedEmpty DEF OfNumber
  <2> QED BY <2>1, <2>2
<1>4. ASSUME NEW k \in T PROVE k + 1 \in T
  <2> SUFFICES ASSUME k + 1 <= n PROVE Holds(k + 1)
    OBVIOUS
  <2>1. k + 1 \in 1..n /\ (k + 1) - 1 = k /\ k \in 0..n /\ Holds(k)
    <3>1. k \in Nat /\ k + 1 \in 1..n /\ (k + 1) - 1 = k /\ k \in 0..n /\ k <= n
      BY SMT
    <3> QED BY <3>1, Zenon
  <2>2. f[k + 1] = f[k] \o pss[k + 1] /\ f[k] \in Seq(Parts) /\ pss[k + 1] \in Seq(Parts)
    BY <2>1, <1>2, <1>s, Zenon DEF Joins
  <2>3. OfNumber(f[k + 1], no) = OfNumber(f[k], no) \o OfNumber(pss[k + 1], no)
    <3>1. NumberedIs(f[k] \o pss[k + 1], no, OfNumber(f[k], no) \o OfNumber(pss[k + 1], no))
      BY <2>2, OfNumberConcat
    <3> QED BY <3>1, <2>2 DEF NumberedIs
  <2>4. Numbered(pss[k + 1], k + 1)
    BY <2>1, <1>1
  <2>5. CASE k + 1 = no
    <3>1. k < no /\ ~(k + 1 < no)
      BY <2>5, SMT
    <3>2. OfNumber(pss[k + 1], no) = pss[no]
      <4>1. no + 1 # no
        BY SMT
      <4>2. Numbered(pss[no], no)
        BY <2>4, <2>5
      <4>3. NumberedIs(pss[no], no, pss[no])
        BY <4>1, <4>2, OfItsNumber
      <4> QED BY <4>3, <2>5 DEF NumberedIs
    <3>3. <<>> \o pss[no] = pss[no]
      BY <2>2, <2>5, ConcatEmptySeq
    <3> QED BY <3>1, <3>2, <3>3, <2>1, <2>3
  <2>6. CASE k + 1 # no
    <3>1. k < no <=> k + 1 < no
      BY <2>6, <1>n, SMT
    <3>2. OfNumber(pss[k + 1], no) = <<>>
      <4>1. NumberedIs(pss[k + 1], no, <<>>)
        BY <2>4, <2>6, OfItsNumber
      <4> QED BY <4>1 DEF NumberedIs
    <3>3. OfNumber(f[k], no) \o <<>> = OfNumber(f[k], no)
      <4>1. OfNumber(f[k], no) \in Seq(Parts)
        BY <2>2, SelectedType DEF OfNumber
      <4> QED BY <4>1, ConcatEmptySeq
    <3> QED BY <3>1, <3>2, <3>3, <2>1, <2>3
  <2> QED BY <2>5, <2>6
<1> HIDE DEF T
<1>5. T = Nat
  <2>1. T \subseteq Nat
    BY DEF T
  <2> QED BY <1>3, <1>4, <2>1, Induction
<1>6. Holds(n) /\ ~(n < no)
  <2>1. n <= n /\ ~(n < no)
    BY <1>n, SMT
  <2> QED BY <2>1, <1>5, Zenon DEF T
<1> QED BY <1>2, <1>6 DEF NumberedIs

-------------------------------------------------------------------------------
(***************************************************************************)
(* What a field may hold, and what is read of it.                          *)
(***************************************************************************)
HoldsPlain(field, v) ==
  \/ field.kind = "int" /\ v \in Int64s
  \/ field.kind = "int32" /\ v \in Int32s
  \/ field.kind = "string" /\ v \in Seq(Byte) /\ Len(v) < MaxLength
  \/ field.kind = "ints" /\ v \in Seq(Int64s) /\ Len(Packed(v)) < MaxLength

\* What is found of a field gives its value back.
PlainBack(field, ps, v) == PlainValue(field, ps) = v

LEMMA FlatNone == FlatIs(<<>>, <<>>)
BY DEF FlattenSeq, FlatIs

LEMMA FlatOne ==
  ASSUME NEW S, NEW s \in Seq(S)
  PROVE  FlatIs(<<s>>, s)
<1>1. <<s>> \in Seq(Seq(S)) /\ Len(<<s>>) = 1 /\ <<s>>[1] = s
  OBVIOUS
<1>2. PICK f : Joins(<<s>>, 1, f) /\ FlattenSeq(<<s>>) = f[1]
  BY <1>1, FlatSteps
<1>3. 1 \in 1..1 /\ 1 - 1 = 0
  BY SMT
<1>4. f[1] = <<>> \o s
  BY <1>1, <1>2, <1>3, Zenon DEF Joins
<1>5. <<>> \o s = s
  BY ConcatEmptySeq
<1> QED BY <1>2, <1>4, <1>5, Zenon DEF FlatIs

\* A field that is left out reads as its default.
LEMMA NothingBack ==
  ASSUME NEW field, field.kind \in {"int", "int32", "string", "ints"}
  PROVE  PlainBack(field, <<>>, Default(field))
<1>1. OfWire(<<>>, Varints) = <<>> /\ OfWire(<<>>, Delimited) = <<>>
  BY SelectedEmpty DEF OfWire
<1>2. CASE field.kind = "int"
  BY <1>1, <1>2 DEF PlainBack, PlainValue, LastOr, Default, IsNumber
<1>5. CASE field.kind = "int32"
  <2>1. PlainValue(field, <<>>) = Narrowed(0)
    BY <1>1, <1>5 DEF PlainValue, LastOr
  <2>2. Narrowed(0) = 0
    BY SMT DEF Narrowed, MaxLength
  <2> QED BY <2>1, <2>2, <1>5 DEF PlainBack, Default, IsNumber
<1>3. CASE field.kind = "string"
  BY <1>1, <1>3 DEF PlainBack, PlainValue, LastOr, Default, IsNumber
<1>4. CASE field.kind = "ints"
  <2> DEFINE e(i) == IF <<>>[i].wire = Varints THEN <<<<>>[i].value>> ELSE Unpacked(<<>>[i].value)
  <2>1. PlainValue(field, <<>>) = FlattenSeq([i \in DOMAIN <<>> |-> e(i)])
    BY <1>4 DEF PlainValue
  <2> HIDE DEF e
  <2>2. [i \in DOMAIN <<>> |-> e(i)] = <<>>
    OBVIOUS
  <2>3. FlattenSeq(<<>>) = <<>>
    BY FlatNone DEF FlatIs
  <2> QED BY <1>4, <2>1, <2>2, <2>3 DEF PlainBack, Default, IsNumber
<1> QED BY <1>2, <1>3, <1>4, <1>5

LEMMA OneOfWire ==
  ASSUME NEW p \in Parts
  PROVE  OfWire(<<p>>, p.wire) = <<p>>
<1>1. <<p>> \in Seq(Parts) /\ Len(<<p>>) = 1 /\ <<p>>[1] = p /\ DOMAIN <<p>> = 1..1
  OBVIOUS
<1> DEFINE I == {i \in DOMAIN <<p>> : <<p>>[i].wire = p.wire}
<1>2. \A k \in 1..1 : k \in I
  BY <1>1, SMT
<1> HIDE DEF I
<1>3. SelectedIs(<<p>>, I, <<p>>)
  BY <1>1, <1>2, SelectedAll
<1> QED BY <1>3, Zenon DEF SelectedIs, OfWire, I

\* A field with a number gives it back.
LEMMA NumberBack ==
  ASSUME NEW field, NEW no \in Int, NEW v \in Int64s,
         field.kind = "int" \/ (field.kind = "int32" /\ v \in Int32s)
  PROVE  PlainBack(field, <<Part(no, Varints, v)>>, v)
<1>1. PICK p \in Parts : p = Part(no, Varints, v)
  BY PartTypes
<1>2. p.wire = Varints /\ p.value = v
  BY <1>1 DEF Part
<1>3. OfWire(<<p>>, Varints) = <<p>>
  BY <1>2, OneOfWire
<1>4. LastOr(0, <<p>>) = v
  BY <1>2 DEF LastOr, Last
<1>5. CASE field.kind = "int"
  <2>1. PlainValue(field, <<p>>) = LastOr(0, OfWire(<<p>>, Varints))
    BY <1>5 DEF PlainValue
  <2> QED BY <1>1, <1>3, <1>4, <2>1 DEF PlainBack
<1>6. CASE field.kind = "int32" /\ v \in Int32s
  <2>1. PlainValue(field, <<p>>) = Narrowed(LastOr(0, OfWire(<<p>>, Varints)))
    BY <1>6 DEF PlainValue
  <2>2. Narrowed(v) = v
    BY <1>6, Zenon DEF Int32s
  <2> QED BY <1>1, <1>3, <1>4, <2>1, <2>2, Zenon DEF PlainBack
<1> QED BY <1>5, <1>6

\* A field with a string gives it back.
LEMMA StringBack ==
  ASSUME NEW field, field.kind = "string", NEW no \in Int, NEW v \in Seq(Byte)
  PROVE  PlainBack(field, <<Part(no, Delimited, v)>>, v)
<1>1. PICK p \in Parts : p = Part(no, Delimited, v)
  BY PartTypes
<1>2. p.wire = Delimited /\ p.value = v
  BY <1>1 DEF Part
<1>3. OfWire(<<p>>, Delimited) = <<p>>
  BY <1>2, OneOfWire
<1>4. LastOr(<<>>, <<p>>) = v
  BY <1>2 DEF LastOr, Last
<1>5. PlainValue(field, <<p>>) = LastOr(<<>>, OfWire(<<p>>, Delimited))
  BY DEF PlainValue
<1> QED BY <1>1, <1>3, <1>4, <1>5 DEF PlainBack

\* A field with packed numbers gives them back.
LEMMA IntsBack ==
  ASSUME NEW field, field.kind = "ints", NEW no \in Int, NEW v \in Seq(Int64s)
  PROVE  PlainBack(field, <<Part(no, Delimited, Packed(v))>>, v)
<1>0. Packed(v) \in Seq(Byte) /\ Unpacked(Packed(v)) = v
  BY PackedBack DEF IntsAre
<1>1. PICK p \in Parts : p = Part(no, Delimited, Packed(v))
  BY <1>0, PartTypes
<1>2. p.wire # Varints /\ p.value = Packed(v)
  <2>1. Delimited # Varints
    BY SMT DEF Delimited, Varints
  <2> QED BY <2>1, <1>1 DEF Part
<1> DEFINE e(i) == IF <<p>>[i].wire = Varints THEN <<<<p>>[i].value>> ELSE Unpacked(<<p>>[i].value)
<1>3. PlainValue(field, <<p>>) = FlattenSeq([i \in DOMAIN <<p>> |-> e(i)])
  BY DEF PlainValue
<1>4. e(1) = v
  <2>1. <<p>>[1] = p
    OBVIOUS
  <2> QED BY <2>1, <1>0, <1>2
<1> HIDE DEF e
<1>5. [i \in DOMAIN <<p>> |-> e(i)] = <<v>>
  BY <1>4
<1>6. FlattenSeq(<<v>>) = v
  <2>1. FlatIs(<<v>>, v)
    BY FlatOne
  <2> QED BY <2>1 DEF FlatIs
<1> QED BY <1>1, <1>3, <1>5, <1>6 DEF PlainBack

LEMMA OneNumbered ==
  ASSUME NEW no \in 1..15, NEW wire, NEW value, Part(no, wire, value) \in Parts
  PROVE  Numbered(<<Part(no, wire, value)>>, no)
<1>1. PICK p \in Parts : p = Part(no, wire, value)
  OBVIOUS
<1>2. p.no = no
  BY <1>1 DEF Part
<1>3. <<p>> \in Seq(Parts) /\ \A i \in 1..Len(<<p>>) : <<p>>[i].no = no
  BY <1>2, SMT
<1> QED BY <1>1, <1>3 DEF Numbered

\* The bytes of a field give it back, and all of them are of that field.
IsPlainField(no, field, v, ps) ==
  /\ Gives(PlainField(no, field, v), ps) /\ Numbered(ps, no)
  /\ PlainBack(field, ps, v)

LEMMA PlainFieldBack ==
  ASSUME NEW no \in 1..15, NEW field, NEW v, HoldsPlain(field, v)
  PROVE  \E ps : IsPlainField(no, field, v, ps)
<1>0. no \in Int
  OBVIOUS
<1>1. CASE v = Default(field)
  <2>1. field.kind \in {"int", "int32", "string", "ints"}
    BY DEF HoldsPlain
  <2>2. PlainField(no, field, v) = <<>>
    BY <1>1 DEF PlainField
  <2>3. Numbered(<<>>, no)
    BY EmptySeq, SMT DEF Numbered
  <2> QED BY <1>1, <2>1, <2>2, <2>3, GivesNothing, NothingBack DEF IsPlainField
<1>2. CASE v # Default(field) /\ IsNumber(field)
  <2>1. v \in Int64s /\ (field.kind = "int" \/ (field.kind = "int32" /\ v \in Int32s))
    BY <1>2 DEF HoldsPlain, IsNumber, Int32s
  <2>2. PlainField(no, field, v) = Tag(no, Varints) \o Varint(v)
    BY <1>2 DEF PlainField, IsNumber
  <2>3. Gives(Tag(no, Varints) \o Varint(v), <<Part(no, Varints, v)>>)
    BY <2>1, NumberGives
  <2>4. Numbered(<<Part(no, Varints, v)>>, no)
    BY <2>1, <1>0, PartTypes, OneNumbered
  <2>5. PlainBack(field, <<Part(no, Varints, v)>>, v)
    BY <2>1, <1>0, <1>2, NumberBack
  <2> QED BY <2>2, <2>3, <2>4, <2>5, Zenon DEF IsPlainField
<1>3. CASE v # Default(field) /\ field.kind = "string"
  <2>1. v \in Seq(Byte) /\ Len(v) < MaxLength
    BY <1>3 DEF HoldsPlain
  <2>2. PlainField(no, field, v) = Tag(no, Delimited) \o Prefixed(v)
    BY <1>3 DEF PlainField, IsNumber
  <2>3. Gives(Tag(no, Delimited) \o Prefixed(v), <<Part(no, Delimited, v)>>)
    BY <2>1, BytesGive
  <2>4. Numbered(<<Part(no, Delimited, v)>>, no)
    BY <2>1, <1>0, PartTypes, OneNumbered
  <2>5. PlainBack(field, <<Part(no, Delimited, v)>>, v)
    BY <2>1, <1>0, <1>3, StringBack
  <2> QED BY <2>2, <2>3, <2>4, <2>5, Zenon DEF IsPlainField
<1>4. CASE v # Default(field) /\ field.kind = "ints"
  <2>1. v \in Seq(Int64s) /\ Len(Packed(v)) < MaxLength
    BY <1>4 DEF HoldsPlain
  <2>0. Packed(v) \in Seq(Byte)
    BY <2>1, PackedBack
  <2>2. PlainField(no, field, v) = Tag(no, Delimited) \o Prefixed(Packed(v))
    BY <1>4 DEF PlainField, IsNumber
  <2>3. Gives(Tag(no, Delimited) \o Prefixed(Packed(v)), <<Part(no, Delimited, Packed(v))>>)
    BY <2>0, <2>1, BytesGive
  <2>4. Numbered(<<Part(no, Delimited, Packed(v))>>, no)
    BY <2>0, <1>0, PartTypes, OneNumbered
  <2>5. PlainBack(field, <<Part(no, Delimited, Packed(v))>>, v)
    BY <2>1, <1>0, <1>4, IntsBack
  <2> QED BY <2>2, <2>3, <2>4, <2>5, Zenon DEF IsPlainField
<1> QED BY <1>1, <1>2, <1>3, <1>4, Zenon DEF HoldsPlain, IsNumber

-------------------------------------------------------------------------------
\* At most fifteen fields, each with a name of its own.
WellFormed(schema) ==
  /\ Len(schema) \in 1..15 /\ DOMAIN schema = 1..Len(schema)
  /\ \A j, k \in DOMAIN schema : schema[j].name = schema[k].name => j = k

\* Each field is found where its bytes are.
LEMMA FoundBack ==
  ASSUME NEW schema, WellFormed(schema),
         NEW bs \in Seq(Seq(Byte)), NEW pss \in Seq(Seq(Parts)),
         Len(bs) = Len(schema), Len(pss) = Len(schema),
         \A k \in 1..Len(schema) : Gives(bs[k], pss[k]) /\ Numbered(pss[k], k)
  PROVE  /\ FlattenSeq(bs) \in Seq(Byte) /\ Parses(FlattenSeq(bs))
         /\ \A k \in 1..Len(schema) :
               /\ Field(schema, schema[k].name) = schema[k]
               /\ Found(schema, schema[k].name, FlattenSeq(bs)) = pss[k]
<1>1. Gives(FlattenSeq(bs), FlattenSeq(pss))
  BY GivesFlat
<1>2. FlattenSeq(bs) \in Seq(Byte)
  BY <1>1, Zenon DEF Gives
<1>3. FieldsIn(FlattenSeq(bs)) = FlattenSeq(pss) /\ Parses(FlattenSeq(bs))
  BY <1>1, GivesFields
<1>4. ASSUME NEW k \in 1..Len(schema)
      PROVE  /\ Field(schema, schema[k].name) = schema[k]
             /\ Found(schema, schema[k].name, FlattenSeq(bs)) = pss[k]
  <2>1. NumberOf(schema, schema[k].name) = k
    <3>1. k \in DOMAIN schema /\ \A n \in DOMAIN schema : schema[n].name = schema[k].name => n = k
      BY DEF WellFormed
    <3> QED BY <3>1 DEF NumberOf
  <2>2. NumberedIs(FlattenSeq(pss), k, pss[k])
    BY OfNumberFlat
  <2>3. Found(schema, schema[k].name, FlattenSeq(bs)) = OfNumber(FlattenSeq(pss), k)
    BY <1>3, <2>1, Zenon DEF Found
  <2> QED BY <2>1, <2>2, <2>3, Zenon DEF Field, NumberedIs
<1> QED BY <1>2, <1>3, <1>4

\* A message of plain fields.
PlainMessage(schema, m) ==
  /\ WellFormed(schema) /\ m = [name \in Names(schema) |-> m[name]]
  /\ \A n \in DOMAIN schema : HoldsPlain(schema[n], m[schema[n].name])

\* A plain message is read back as it was written.
PlainIs(schema, b, m) == PlainParse(schema, b) = m

\* A message is read field by field.
LEMMA PlainRead ==
  ASSUME NEW schema, NEW m, PlainMessage(schema, m)
  PROVE  /\ PlainSerialize(schema, m) \in Seq(Byte)
         /\ PlainIs(schema, PlainSerialize(schema, m), m)
<1>1. PICK size \in 1..15 : size = Len(schema) /\ DOMAIN schema = 1..size
  BY DEF PlainMessage, WellFormed
<1>2. \A k \in 1..size : k \in 1..15
  BY SMT
<1> DEFINE b(k) == PlainField(k, schema[k], m[schema[k].name])
           Back(k, ps) == IsPlainField(k, schema[k], m[schema[k].name], ps)
           p(k) == CHOOSE ps : Back(k, ps)
<1>3. ASSUME NEW k \in 1..size PROVE Back(k, p(k))
  <2>1. HoldsPlain(schema[k], m[schema[k].name])
    BY <1>1, Zenon DEF PlainMessage
  <2>2. \E ps : Back(k, ps)
    BY <2>1, <1>2, PlainFieldBack
  <2> QED BY <2>2, Zenon
<1>4. \A k \in 1..size : /\ b(k) \in Seq(Byte) /\ p(k) \in Seq(Parts)
                         /\ Gives(b(k), p(k)) /\ Numbered(p(k), k)
                         /\ PlainBack(schema[k], p(k), m[schema[k].name])
  BY <1>3, Zenon DEF IsPlainField, Gives
<1>5. PlainSerialize(schema, m) = FlattenSeq([k \in 1..size |-> b(k)])
  BY <1>1, Zenon DEF PlainSerialize
<1> HIDE DEF b, p
<1>6. PICK bs : bs = [k \in 1..size |-> b(k)]
  OBVIOUS
<1>7. PICK pss : pss = [k \in 1..size |-> p(k)]
  OBVIOUS
<1>8. bs \in Seq(Seq(Byte)) /\ Len(bs) = size /\ \A k \in 1..size : bs[k] = b(k)
  BY <1>4, <1>6
<1>9. pss \in Seq(Seq(Parts)) /\ Len(pss) = size /\ \A k \in 1..size : pss[k] = p(k)
  BY <1>4, <1>7
<1>10. \A k \in 1..size : Gives(bs[k], pss[k]) /\ Numbered(pss[k], k)
  BY <1>4, <1>8, <1>9, Zenon
<1>11. PICK bytes : bytes = FlattenSeq(bs)
  OBVIOUS
<1>12. /\ bytes \in Seq(Byte)
       /\ \A k \in 1..size : /\ Field(schema, schema[k].name) = schema[k]
                             /\ Found(schema, schema[k].name, bytes) = pss[k]
  BY <1>1, <1>8, <1>9, <1>10, <1>11, FoundBack DEF PlainMessage
<1>13. ASSUME NEW name \in Names(schema)
       PROVE  PlainValue(Field(schema, name), Found(schema, name, bytes)) = m[name]
  <2>1. PICK k \in 1..size : name = schema[k].name
    BY <1>1, Zenon DEF Names
  <2>2. PlainValue(schema[k], pss[k]) = m[schema[k].name]
    BY <1>4, <1>9, Zenon DEF PlainBack
  <2> QED BY <2>1, <2>2, <1>12, Zenon
<1>14. PlainParse(schema, bytes) = [name \in Names(schema) |-> m[name]]
  BY <1>13, Zenon DEF PlainParse
<1>15. m = [name \in Names(schema) |-> m[name]]
  BY Zenon DEF PlainMessage
<1> QED BY <1>5, <1>6, <1>11, <1>12, <1>14, <1>15, Zenon DEF PlainIs

-------------------------------------------------------------------------------
(***************************************************************************)
(* Messages with messages in them.                                         *)
(***************************************************************************)
HoldsItems(field, v) ==
  /\ field.kind = "messages"
  /\ Len(v) \in Nat /\ v = [i \in 1..Len(v) |-> v[i]]
  /\ \A i \in 1..Len(v) : /\ PlainMessage(field.schema, v[i])
                          /\ Len(PlainSerialize(field.schema, v[i])) < MaxLength
Holds(field, v) == HoldsPlain(field, v) \/ HoldsItems(field, v)

IsField(no, field, v, ps) ==
  /\ Gives(SerializedField(no, field, v), ps) /\ Numbered(ps, no)
  /\ Value(field, ps) = v

\* A field with messages gives them back, in their order.
LEMMA ItemsBack ==
  ASSUME NEW no \in 1..15, NEW field, NEW v, HoldsItems(field, v)
  PROVE  \E ps : IsField(no, field, v, ps)
<1>1. PICK n \in Nat : n = Len(v)
  BY DEF HoldsItems
<1>2. v = [i \in 1..n |-> v[i]] /\ DOMAIN v = 1..n /\ no \in Int
  BY <1>1 DEF HoldsItems
<1> DEFINE item(i) == PlainSerialize(field.schema, v[i])
           b(i) == Tag(no, Delimited) \o Prefixed(item(i))
           p(i) == Part(no, Delimited, item(i))
<1>3. ASSUME NEW i \in 1..n
      PROVE  /\ item(i) \in Seq(Byte) /\ Len(item(i)) < MaxLength
             /\ PlainParse(field.schema, item(i)) = v[i]
  <2>1. PlainMessage(field.schema, v[i]) /\ Len(item(i)) < MaxLength
    BY <1>1, Zenon DEF HoldsItems
  <2>2. item(i) \in Seq(Byte) /\ PlainIs(field.schema, item(i), v[i])
    BY <2>1, PlainRead
  <2> QED BY <2>1, <2>2, Zenon DEF PlainIs
<1> HIDE DEF item
<1>4. ASSUME NEW i \in 1..n
      PROVE  /\ p(i) \in Parts /\ Gives(b(i), <<p(i)>>) /\ <<p(i)>> \in Seq(Parts) /\ b(i) \in Seq(Byte)
             /\ p(i).wire = Delimited /\ p(i).no = no /\ p(i).value = item(i)
  <2>1. p(i) \in Parts
    BY <1>2, <1>3, PartTypes
  <2>2. Gives(b(i), <<p(i)>>)
    BY <1>3, BytesGive
  <2>3. p(i).wire = Delimited /\ p(i).no = no /\ p(i).value = item(i)
    BY DEF Part
  <2>4. <<p(i)>> \in Seq(Parts) /\ b(i) \in Seq(Byte)
    BY <2>2, Zenon DEF Gives
  <2> QED BY <2>1, <2>2, <2>3, <2>4, Zenon
<1>5. SerializedField(no, field, v) = FlattenSeq([i \in 1..n |-> b(i)])
  <2>1. field.kind = "messages"
    BY DEF HoldsItems
  <2> QED BY <2>1, <1>2, Zenon DEF SerializedField, item
<1> HIDE DEF b, p
<1>t. (\A i \in 1..n : b(i) \in Seq(Byte)) /\ (\A i \in 1..n : p(i) \in Parts)
  BY <1>4, Zenon
<1>6. PICK bs : bs = [i \in 1..n |-> b(i)]
  OBVIOUS
<1>7. PICK ps : ps = [i \in 1..n |-> p(i)]
  OBVIOUS
<1>8. PICK pss : pss = [i \in 1..n |-> <<p(i)>>]
  OBVIOUS
<1>9. bs \in Seq(Seq(Byte)) /\ Len(bs) = n /\ \A i \in 1..n : bs[i] = b(i)
  BY <1>t, <1>6
<1>10. ps \in Seq(Parts) /\ Len(ps) = n /\ DOMAIN ps = 1..n /\ \A i \in 1..n : ps[i] = p(i)
  BY <1>t, <1>7
<1>11. pss \in Seq(Seq(Parts)) /\ Len(pss) = n /\ \A i \in 1..n : pss[i] = <<p(i)>>
  <2> DEFINE one(i) == <<p(i)>>
  <2>1. \A i \in 1..n : one(i) \in Seq(Parts)
    BY <1>4
  <2>2. pss = [i \in 1..n |-> one(i)]
    BY <1>8
  <2> HIDE DEF one
  <2>3. pss \in Seq(Seq(Parts)) /\ Len(pss) = n /\ \A i \in 1..n : pss[i] = one(i)
    BY <2>1, <2>2
  <2> QED BY <2>3 DEF one
<1>12. Gives(FlattenSeq(bs), FlattenSeq(pss))
  <2>1. \A k \in 1..Len(bs) : Gives(bs[k], pss[k])
    BY <1>4, <1>9, <1>11, Zenon
  <2> QED BY <2>1, <1>9, <1>11, GivesFlat
<1>13. FlattenSeq(pss) = ps
  <2>1. \A i \in 1..Len(ps) : pss[i] = <<ps[i]>>
    BY <1>10, <1>11, Zenon
  <2>2. FlatIs(pss, ps)
    BY <2>1, <1>10, <1>11, FlatSingles
  <2> QED BY <2>2 DEF FlatIs
<1>14. Numbered(ps, no)
  BY <1>4, <1>10, Zenon DEF Numbered
<1>15. OfWire(ps, Delimited) = ps
  <2> DEFINE I == {i \in DOMAIN ps : ps[i].wire = Delimited}
  <2>1. \A i \in 1..Len(ps) : i \in I
    BY <1>4, <1>10, Zenon
  <2> HIDE DEF I
  <2>2. SelectedIs(ps, I, ps)
    BY <2>1, <1>10, SelectedAll
  <2> QED BY <2>2, Zenon DEF SelectedIs, OfWire, I
<1>16. Value(field, ps) = v
  <2>1. field.kind = "messages"
    BY DEF HoldsItems
  <2>2. Value(field, ps) = [i \in 1..n |-> PlainParse(field.schema, ps[i].value)]
    BY <2>1, <1>10, <1>15, Zenon DEF Value
  <2>3. \A i \in 1..n : PlainParse(field.schema, ps[i].value) = v[i]
    BY <1>3, <1>4, <1>10, Zenon
  <2>4. [i \in 1..n |-> PlainParse(field.schema, ps[i].value)] = [i \in 1..n |-> v[i]]
    BY <2>3, Zenon
  <2> QED BY <2>2, <2>4, <1>2
<1> QED BY <1>5, <1>6, <1>12, <1>13, <1>14, <1>16, Zenon DEF IsField

\* Every kind of field is given back.
LEMMA FieldBack ==
  ASSUME NEW no \in 1..15, NEW field, NEW v, Holds(field, v)
  PROVE  \E ps : IsField(no, field, v, ps)
<1>1. CASE HoldsItems(field, v)
  BY <1>1, ItemsBack
<1>2. CASE HoldsPlain(field, v)
  <2>1. field.kind # "messages"
    BY <1>2 DEF HoldsPlain
  <2>2. PICK ps : IsPlainField(no, field, v, ps)
    BY <1>2, PlainFieldBack
  <2>3. SerializedField(no, field, v) = PlainField(no, field, v) /\ Value(field, ps) = PlainValue(field, ps)
    BY <2>1, Zenon DEF SerializedField, Value
  <2> QED BY <2>2, <2>3, Zenon DEF IsPlainField, PlainBack, IsField
<1> QED BY <1>1, <1>2 DEF Holds

\* The messages of a schema, as the setters of its class make them.
MessageOf(schema, m) ==
  /\ WellFormed(schema) /\ m = [name \in Names(schema) |-> m[name]]
  /\ \A n \in DOMAIN schema : Holds(schema[n], m[schema[n].name])

\* What SerializeToString writes of a message, ParseFromString reads, and it is that
\* message: for every schema of numbers, strings, packed numbers and messages.
THEOREM ParseSerialize ==
  ASSUME NEW schema, NEW m, MessageOf(schema, m)
  PROVE  /\ Serialize(schema, m) \in Seq(Byte) /\ Parses(Serialize(schema, m))
         /\ Parse(schema, Serialize(schema, m)) = m
<1>1. PICK size \in 1..15 : size = Len(schema) /\ DOMAIN schema = 1..size
  BY DEF MessageOf, WellFormed
<1>2. \A k \in 1..size : k \in 1..15
  BY SMT
<1> DEFINE b(k) == SerializedField(k, schema[k], m[schema[k].name])
           Back(k, ps) == IsField(k, schema[k], m[schema[k].name], ps)
           p(k) == CHOOSE ps : Back(k, ps)
<1>3. ASSUME NEW k \in 1..size PROVE Back(k, p(k))
  <2>1. Holds(schema[k], m[schema[k].name])
    BY <1>1, Zenon DEF MessageOf
  <2>2. \E ps : Back(k, ps)
    BY <2>1, <1>2, FieldBack
  <2> QED BY <2>2, Zenon
<1>4. \A k \in 1..size : /\ b(k) \in Seq(Byte) /\ p(k) \in Seq(Parts)
                         /\ Gives(b(k), p(k)) /\ Numbered(p(k), k)
                         /\ Value(schema[k], p(k)) = m[schema[k].name]
  BY <1>3, Zenon DEF IsField, Gives
<1>5. Serialize(schema, m) = FlattenSeq([k \in 1..size |-> b(k)])
  BY <1>1, Zenon DEF Serialize
<1> HIDE DEF b, p
<1>6. PICK bs : bs = [k \in 1..size |-> b(k)]
  OBVIOUS
<1>7. PICK pss : pss = [k \in 1..size |-> p(k)]
  OBVIOUS
<1>8. bs \in Seq(Seq(Byte)) /\ Len(bs) = size /\ \A k \in 1..size : bs[k] = b(k)
  <2>1. size \in Nat /\ \A k \in 1..size : b(k) \in Seq(Byte)
    BY <1>4, SMT
  <2> QED BY <2>1, <1>6
<1>9. pss \in Seq(Seq(Parts)) /\ Len(pss) = size /\ \A k \in 1..size : pss[k] = p(k)
  <2>1. size \in Nat /\ \A k \in 1..size : p(k) \in Seq(Parts)
    BY <1>4, SMT
  <2> QED BY <2>1, <1>7
<1>10. \A k \in 1..size : Gives(bs[k], pss[k]) /\ Numbered(pss[k], k)
  BY <1>4, <1>8, <1>9, Zenon
<1>11. PICK bytes : bytes = FlattenSeq(bs)
  OBVIOUS
<1>12. /\ bytes \in Seq(Byte) /\ Parses(bytes)
       /\ \A k \in 1..size : /\ Field(schema, schema[k].name) = schema[k]
                             /\ Found(schema, schema[k].name, bytes) = pss[k]
  <2>1. WellFormed(schema)
    BY Zenon DEF MessageOf
  <2> QED BY <2>1, <1>1, <1>8, <1>9, <1>10, <1>11, FoundBack
<1>13. ASSUME NEW name \in Names(schema)
       PROVE  Value(Field(schema, name), Found(schema, name, bytes)) = m[name]
  <2>1. PICK k \in 1..size : name = schema[k].name
    BY <1>1, Zenon DEF Names
  <2>2. Value(schema[k], pss[k]) = m[schema[k].name]
    BY <1>4, <1>9, Zenon
  <2> QED BY <2>1, <2>2, <1>12, Zenon
<1>14. Parse(schema, bytes) = [name \in Names(schema) |-> m[name]]
  BY <1>13, Zenon DEF Parse
<1>15. m = [name \in Names(schema) |-> m[name]]
  BY Zenon DEF MessageOf
<1> QED BY <1>5, <1>6, <1>11, <1>12, <1>14, <1>15, Zenon

-------------------------------------------------------------------------------
(***************************************************************************)
(* Lengths.                                                                *)
(***************************************************************************)
LEMMA FlatLength ==
  ASSUME NEW S, NEW ss \in Seq(Seq(S)), NEW sizes, Len(sizes) = Len(ss),
         \A k \in 1..Len(ss) : sizes[k] = Len(ss[k])
  PROVE  TotalOf(sizes, Len(FlattenSeq(ss)))
<1>1. PICK n \in Nat : n = Len(ss) /\ n = Len(sizes)
  BY LenProperties
<1>s. \A k \in 1..n : ss[k] \in Seq(S)
  BY <1>1, ElementOfSeq
<1>2. PICK f : /\ Joins(ss, n, f) /\ FlattenSeq(ss) = f[n]
               /\ \A k \in 0..n : f[k] \in Seq(S)
  BY <1>1, FlatSteps
<1>3. PICK g : RunningSums(sizes, n, g) /\ Total(sizes) = g[n]
  <2>1. Len(sizes) \in Nat
    BY <1>1
  <2> QED BY <2>1, <1>1, TotalSteps
<1> DEFINE T == {k \in Nat : k <= n => g[k] = Len(f[k])}
<1>4. 0 \in T
  BY <1>2, <1>3, EmptySeq DEF RunningSums, Joins
<1>5. ASSUME NEW k \in T PROVE k + 1 \in T
  <2> SUFFICES ASSUME k + 1 <= n PROVE g[k + 1] = Len(f[k + 1])
    OBVIOUS
  <2>1. k + 1 \in 1..n /\ (k + 1) - 1 = k /\ k \in 0..n /\ g[k] = Len(f[k])
    BY SMT
  <2>2. f[k + 1] = f[k] \o ss[k + 1] /\ g[k + 1] = g[k] + sizes[k + 1]
    BY <2>1, <1>2, <1>3, Zenon DEF Joins, RunningSums
  <2>3. Len(f[k] \o ss[k + 1]) = Len(f[k]) + Len(ss[k + 1])
    <3>1. f[k] \in Seq(S) /\ ss[k + 1] \in Seq(S)
      BY <2>1, <1>2, <1>s
    <3> QED BY <3>1, SeqFacts
  <2> QED BY <2>1, <2>2, <2>3, <1>1, Zenon
<1> HIDE DEF T
<1>6. T = Nat
  <2>1. T \subseteq Nat
    BY DEF T
  <2> QED BY <1>4, <1>5, <2>1, Induction
<1>7. g[n] = Len(f[n])
  <2>1. n <= n
    BY SMT
  <2> QED BY <2>1, <1>6, Zenon DEF T
<1> QED BY <1>2, <1>3, <1>7 DEF TotalOf

\* One more for each.
LEMMA TotalOneMore ==
  ASSUME NEW n \in Nat, NEW x, NEW y, Len(x) = n, Len(y) = n,
         \A k \in 1..n : x[k] \in Int /\ y[k] = 1 + x[k]
  PROVE  TotalOf(y, n + Total(x))
<1>1. PICK f : RunningSums(x, n, f) /\ Total(x) = f[n]
  BY TotalSteps
<1>2. PICK g : RunningSums(y, n, g) /\ Total(y) = g[n]
  BY TotalSteps
<1> DEFINE T == {k \in Nat : k <= n => f[k] \in Int /\ g[k] = k + f[k]}
<1>3. 0 \in T
  <2>1. f[0] = 0 /\ g[0] = 0 /\ 0 + 0 = 0 /\ 0 \in Int
    BY <1>1, <1>2, SMT DEF RunningSums
  <2> QED BY <2>1
<1>4. ASSUME NEW k \in T PROVE k + 1 \in T
  <2> SUFFICES ASSUME k + 1 <= n PROVE f[k + 1] \in Int /\ g[k + 1] = (k + 1) + f[k + 1]
    OBVIOUS
  <2>1. k \in Nat /\ k + 1 \in 1..n /\ (k + 1) - 1 = k /\ k <= n
    BY SMT
  <2>2. PICK a \in Int : a = f[k] /\ g[k] = k + a
    BY <2>1, Zenon
  <2>3. PICK b \in Int : b = x[k + 1] /\ y[k + 1] = 1 + b
    BY <2>1, Zenon
  <2>4. f[k + 1] = a + b /\ g[k + 1] = (k + a) + (1 + b)
    BY <2>1, <2>2, <2>3, <1>1, <1>2, Zenon DEF RunningSums
  <2>5. a + b \in Int /\ (k + a) + (1 + b) = (k + 1) + (a + b)
    BY SMT
  <2> QED BY <2>4, <2>5, Zenon
<1> HIDE DEF T
<1>5. T = Nat
  <2>1. T \subseteq Nat
    BY DEF T
  <2> QED BY <1>3, <1>4, <2>1, Induction
<1>6. g[n] = n + f[n]
  <2>1. n <= n
    BY SMT
  <2> QED BY <2>1, <1>5, Zenon DEF T
<1> QED BY <1>1, <1>2, <1>6 DEF TotalOf

\* A varint is as long as VarintSize announces.
LEMMA VarintLength ==
  ASSUME NEW v \in Int64s
  PROVE  Len(Varint(v)) = VarintSize(v) /\ VarintSize(v) \in 1..10 /\ Varint(v) \in Seq(Byte)
BY VarintBytes, SizeFacts

TagIsByte(no, wire) == Tag(no, wire) \in Seq(Byte) /\ Len(Tag(no, wire)) = 1
LEMMA TagLength ==
  ASSUME NEW no \in 1..15, NEW wire \in {Varints, Delimited}
  PROVE  TagIsByte(no, wire)
<1>1. (8 * no) + wire \in Int64s /\ VarintSize((8 * no) + wire) = 1
  BY Tags
<1>2. PICK t \in Int64s : t = (8 * no) + wire
  BY <1>1
<1>3. Len(Varint(t)) = VarintSize(t) /\ Varint(t) \in Seq(Byte)
  BY VarintLength
<1> QED BY <1>1, <1>2, <1>3 DEF Tag, TagIsByte

SizeOf(b, n) == Len(b) = n /\ n \in Nat

LEMMA NumberLength ==
  ASSUME NEW no \in 1..15, NEW v \in Int64s
  PROVE  SizeOf(Tag(no, Varints) \o Varint(v), 1 + VarintSize(v))
<1>1. TagIsByte(no, Varints)
  BY TagLength
<1>2. Len(Varint(v)) = VarintSize(v) /\ VarintSize(v) \in 1..10 /\ Varint(v) \in Seq(Byte)
  BY VarintLength
<1>3. Len(Tag(no, Varints) \o Varint(v)) = Len(Tag(no, Varints)) + Len(Varint(v))
  <2>1. Tag(no, Varints) \in Seq(Byte)
    BY <1>1 DEF TagIsByte
  <2>2. PICK t \in Seq(Byte) : t = Tag(no, Varints)
    BY <2>1
  <2>3. PICK w \in Seq(Byte) : w = Varint(v)
    BY <1>2
  <2>4. Len(t \o w) = Len(t) + Len(w)
    BY SeqFacts
  <2> QED BY <2>2, <2>3, <2>4
<1>4. \A s \in 1..10 : 1 + s \in Nat
  BY SMT
<1> QED BY <1>1, <1>2, <1>3, <1>4, Zenon DEF TagIsByte, SizeOf

LEMMA BytesLength ==
  ASSUME NEW no \in 1..15, NEW s \in Seq(Byte), Len(s) < MaxLength
  PROVE  SizeOf(Tag(no, Delimited) \o Prefixed(s), 1 + PrefixedSize(Len(s)))
<1>1. TagIsByte(no, Delimited)
  BY TagLength
<1>n. Len(s) \in Nat /\ Len(s) \in Int64s
  <2>1. Len(s) \in Nat
    BY LenProperties
  <2> QED BY <2>1, SmallNumbers
<1>2. PICK n \in Nat : n = Len(s)
  BY <1>n
<1>3. PICK w \in Seq(Byte) : w = Varint(n) /\ Len(w) = VarintSize(n) /\ VarintSize(n) \in 1..10
  BY <1>n, <1>2, VarintLength
<1>4. w \o s \in Seq(Byte) /\ Len(w \o s) = VarintSize(n) + n
  BY <1>2, <1>3, SeqFacts
<1>5. Len(Tag(no, Delimited) \o (w \o s)) = Len(Tag(no, Delimited)) + Len(w \o s)
  BY <1>1, <1>4, SeqFacts DEF TagIsByte
<1>6. \A k \in 1..10 : 1 + (k + n) \in Nat
  BY SMT
<1> QED BY <1>1, <1>2, <1>3, <1>4, <1>5, <1>6, Zenon DEF TagIsByte, SizeOf, Prefixed, PrefixedSize

LEMMA PackedLength ==
  ASSUME NEW v \in Seq(Int64s)
  PROVE  TotalOf([n \in DOMAIN v |-> VarintSize(v[n])], Len(Packed(v)))
<1>1. PICK n \in Nat : n = Len(v)
  BY LenProperties
<1>2. DOMAIN v = 1..n /\ \A k \in 1..n : v[k] \in Int64s
  BY <1>1, ElementOfSeq, LenProperties
<1> DEFINE b(k) == Varint(v[k])
           size(k) == VarintSize(v[k])
<1>3. \A k \in 1..n : b(k) \in Seq(Byte) /\ size(k) = Len(b(k)) /\ size(k) \in Nat
  <2>1. \A k \in 1..n : b(k) \in Seq(Byte) /\ size(k) = Len(b(k))
    BY <1>2, VarintLength
  <2> HIDE DEF b, size
  <2>2. \A k \in 1..n : Len(b(k)) \in Nat
    BY <2>1, LenProperties
  <2> QED BY <2>1, <2>2, Zenon
<1>4. Packed(v) = FlattenSeq([k \in 1..n |-> b(k)])
  BY <1>2, Zenon DEF Packed
<1>z. [k \in DOMAIN v |-> VarintSize(v[k])] = [k \in 1..n |-> size(k)]
  BY <1>2, Zenon
<1> HIDE DEF b, size
<1>5. PICK bs : bs = [k \in 1..n |-> b(k)]
  OBVIOUS
<1>6. PICK sizes : sizes = [k \in 1..n |-> size(k)]
  OBVIOUS
<1>7. bs \in Seq(Seq(Byte)) /\ Len(bs) = n /\ \A k \in 1..n : bs[k] = b(k)
  <2>1. \A k \in 1..n : b(k) \in Seq(Byte)
    BY <1>3, Zenon
  <2> QED BY <2>1, <1>5
<1>8. Len(sizes) = n /\ \A k \in 1..n : sizes[k] = size(k)
  BY <1>6
<1>9. TotalOf(sizes, Len(FlattenSeq(bs)))
  <2>1. \A k \in 1..Len(bs) : sizes[k] = Len(bs[k])
    BY <1>3, <1>7, <1>8, Zenon
  <2> QED BY <2>1, <1>7, <1>8, FlatLength
<1> QED BY <1>4, <1>5, <1>6, <1>9, <1>z, Zenon

\* Every kind of plain field is as long as announced.
LEMMA PlainFieldLength ==
  ASSUME NEW no \in 1..15, NEW field, NEW v, HoldsPlain(field, v)
  PROVE  SizeOf(PlainField(no, field, v), PlainFieldSize(field, v))
<1>1. CASE v = Default(field)
  <2>1. PlainField(no, field, v) = <<>> /\ PlainFieldSize(field, v) = 0
    BY <1>1 DEF PlainField, PlainFieldSize
  <2> QED BY <2>1, EmptySeq DEF SizeOf
<1>2. CASE v # Default(field) /\ IsNumber(field)
  <2>1. v \in Int64s
    BY <1>2 DEF HoldsPlain, IsNumber, Int32s
  <2>2. /\ PlainField(no, field, v) = Tag(no, Varints) \o Varint(v)
        /\ PlainFieldSize(field, v) = 1 + VarintSize(v)
    BY <1>2, Zenon DEF PlainField, PlainFieldSize, IsNumber
  <2>3. SizeOf(Tag(no, Varints) \o Varint(v), 1 + VarintSize(v))
    BY <2>1, NumberLength
  <2> QED BY <2>2, <2>3, Zenon
<1>3. CASE v # Default(field) /\ field.kind = "string"
  <2>1. v \in Seq(Byte) /\ Len(v) < MaxLength
    BY <1>3 DEF HoldsPlain
  <2>2. /\ PlainField(no, field, v) = Tag(no, Delimited) \o Prefixed(v)
        /\ PlainFieldSize(field, v) = 1 + PrefixedSize(Len(v))
    BY <1>3 DEF PlainField, PlainFieldSize, IsNumber
  <2>3. SizeOf(Tag(no, Delimited) \o Prefixed(v), 1 + PrefixedSize(Len(v)))
    BY <2>1, BytesLength
  <2> QED BY <2>2, <2>3, Zenon
<1>4. CASE v # Default(field) /\ field.kind = "ints"
  <2>1. v \in Seq(Int64s) /\ Len(Packed(v)) < MaxLength
    BY <1>4 DEF HoldsPlain
  <2>0. Packed(v) \in Seq(Byte) /\ TotalOf([n \in DOMAIN v |-> VarintSize(v[n])], Len(Packed(v)))
    BY <2>1, PackedBack, PackedLength
  <2>2. PlainField(no, field, v) = Tag(no, Delimited) \o Prefixed(Packed(v))
    BY <1>4 DEF PlainField, IsNumber
  <2>3. PlainFieldSize(field, v) = 1 + PrefixedSize(Len(Packed(v)))
    <3>1. PlainFieldSize(field, v) = 1 + PrefixedSize(Total([n \in DOMAIN v |-> VarintSize(v[n])]))
      BY <1>4 DEF PlainFieldSize, IsNumber
    <3>2. Total([n \in DOMAIN v |-> VarintSize(v[n])]) = Len(Packed(v))
      BY <2>0, Zenon DEF TotalOf
    <3> QED BY <3>1, <3>2, Zenon
  <2>4. SizeOf(Tag(no, Delimited) \o Prefixed(Packed(v)), 1 + PrefixedSize(Len(Packed(v))))
    BY <2>0, <2>1, BytesLength
  <2> QED BY <2>2, <2>3, <2>4, Zenon
<1> QED BY <1>1, <1>2, <1>3, <1>4, Zenon DEF HoldsPlain, IsNumber

PlainSizeIs(schema, m) == Len(PlainSerialize(schema, m)) = PlainSize(schema, m)

\* A plain message is as long as announced.
LEMMA PlainLength ==
  ASSUME NEW schema, NEW m, PlainMessage(schema, m)
  PROVE  PlainSizeIs(schema, m)
<1>1. PICK n \in 1..15 : n = Len(schema) /\ DOMAIN schema = 1..n
  BY DEF PlainMessage, WellFormed
<1>2. \A k \in 1..n : k \in 1..15
  BY SMT
<1> DEFINE b(k) == PlainField(k, schema[k], m[schema[k].name])
           size(k) == PlainFieldSize(schema[k], m[schema[k].name])
<1>3. ASSUME NEW k \in 1..n PROVE b(k) \in Seq(Byte) /\ SizeOf(b(k), size(k))
  <2>1. HoldsPlain(schema[k], m[schema[k].name])
    BY <1>1, Zenon DEF PlainMessage
  <2>2. \E ps : IsPlainField(k, schema[k], m[schema[k].name], ps)
    BY <2>1, <1>2, PlainFieldBack
  <2>3. b(k) \in Seq(Byte)
    BY <2>2, Zenon DEF IsPlainField, Gives
  <2>4. SizeOf(b(k), size(k))
    BY <2>1, <1>2, PlainFieldLength
  <2> QED BY <2>3, <2>4
<1>4. /\ PlainSerialize(schema, m) = FlattenSeq([k \in 1..n |-> b(k)])
      /\ PlainSize(schema, m) = Total([k \in 1..n |-> size(k)])
  BY <1>1, Zenon DEF PlainSerialize, PlainSize
<1> HIDE DEF b, size
<1>5. PICK bs : bs = [k \in 1..n |-> b(k)]
  OBVIOUS
<1>6. PICK sizes : sizes = [k \in 1..n |-> size(k)]
  OBVIOUS
<1>7. bs \in Seq(Seq(Byte)) /\ Len(bs) = n /\ \A k \in 1..n : bs[k] = b(k)
  <2>1. \A k \in 1..n : b(k) \in Seq(Byte)
    BY <1>3, Zenon
  <2> QED BY <2>1, <1>5
<1>8. Len(sizes) = n /\ \A k \in 1..n : sizes[k] = size(k)
  BY <1>6
<1>9. TotalOf(sizes, Len(FlattenSeq(bs)))
  <2>1. \A k \in 1..Len(bs) : sizes[k] = Len(bs[k])
    BY <1>3, <1>7, <1>8, Zenon DEF SizeOf
  <2> QED BY <2>1, <1>7, <1>8, FlatLength
<1> QED BY <1>4, <1>5, <1>6, <1>9, Zenon DEF TotalOf, PlainSizeIs

\* A field with messages is as long as announced.
LEMMA ItemsLength ==
  ASSUME NEW no \in 1..15, NEW field, NEW v, HoldsItems(field, v)
  PROVE  Len(SerializedField(no, field, v)) = FieldSize(field, v)
<1>1. PICK n \in Nat : n = Len(v)
  BY DEF HoldsItems
<1>2. v = [i \in 1..n |-> v[i]] /\ DOMAIN v = 1..n
  BY <1>1 DEF HoldsItems
<1> DEFINE item(i) == PlainSerialize(field.schema, v[i])
           b(i) == Tag(no, Delimited) \o Prefixed(item(i))
           x(i) == PrefixedSize(PlainSize(field.schema, v[i]))
<1>3. ASSUME NEW i \in 1..n
      PROVE  b(i) \in Seq(Byte) /\ Len(b(i)) = 1 + x(i) /\ x(i) \in Int
  <2>1. PlainMessage(field.schema, v[i]) /\ Len(item(i)) < MaxLength
    BY <1>1, Zenon DEF HoldsItems
  <2>2. item(i) \in Seq(Byte) /\ Len(item(i)) = PlainSize(field.schema, v[i])
    BY <2>1, PlainRead, PlainLength DEF PlainSizeIs
  <2>3. Gives(b(i), <<Part(no, Delimited, item(i))>>)
    BY <2>1, <2>2, BytesGive
  <2>4. SizeOf(b(i), 1 + PrefixedSize(Len(item(i))))
    BY <2>1, <2>2, BytesLength
  <2>5. x(i) \in Int
    <3>1. Len(item(i)) \in Nat
      BY <2>2, LenProperties
    <3>2. PICK l \in Nat : l = Len(item(i)) /\ l < MaxLength
      BY <2>1, <3>1
    <3>3. VarintSize(l) \in 1..10
      BY <3>2, SmallNumbers, SizeFacts
    <3>4. \A s \in 1..10 : s + l \in Int
      BY SMT
    <3> QED BY <3>2, <3>3, <3>4, <2>2, Zenon DEF PrefixedSize
  <2> QED BY <2>2, <2>3, <2>4, <2>5, Zenon DEF Gives, SizeOf
<1>4. field.kind = "messages"
  BY DEF HoldsItems
<1>5. SerializedField(no, field, v) = FlattenSeq([i \in 1..n |-> b(i)])
  BY <1>2, <1>4, Zenon DEF SerializedField
<1>6. FieldSize(field, v) = n + Total([i \in 1..n |-> x(i)])
  BY <1>1, <1>2, <1>4, Zenon DEF FieldSize
<1> HIDE DEF b, x
<1>7. PICK bs : bs = [i \in 1..n |-> b(i)]
  OBVIOUS
<1>8. PICK sizes : sizes = [i \in 1..n |-> x(i)]
  OBVIOUS
<1>9. PICK more : more = [i \in 1..n |-> 1 + x(i)]
  OBVIOUS
<1>10. bs \in Seq(Seq(Byte)) /\ Len(bs) = n /\ \A i \in 1..n : bs[i] = b(i)
  <2>1. \A k \in 1..n : b(k) \in Seq(Byte)
    BY <1>3, Zenon
  <2> QED BY <2>1, <1>7
<1>11. Len(sizes) = n /\ \A i \in 1..n : sizes[i] = x(i)
  BY <1>8
<1>12. Len(more) = n /\ \A i \in 1..n : more[i] = 1 + x(i)
  BY <1>9
<1>13. TotalOf(more, Len(FlattenSeq(bs)))
  <2>1. \A k \in 1..Len(bs) : more[k] = Len(bs[k])
    BY <1>3, <1>10, <1>12, Zenon
  <2> QED BY <2>1, <1>10, <1>12, FlatLength
<1>14. TotalOf(more, n + Total(sizes))
  <2>1. \A k \in 1..n : sizes[k] \in Int /\ more[k] = 1 + sizes[k]
    BY <1>3, <1>11, <1>12, Zenon
  <2> QED BY <2>1, <1>11, <1>12, TotalOneMore
<1> QED BY <1>5, <1>6, <1>7, <1>8, <1>13, <1>14, Zenon DEF TotalOf

\* ByteSizeLong announces the number of bytes that _InternalSerialize writes: for every
\* schema of numbers, strings, packed numbers and messages.
THEOREM SizeIsLength ==
  ASSUME NEW schema, NEW m, MessageOf(schema, m)
  PROVE  ByteSize(schema, m) = Len(Serialize(schema, m))
<1>1. PICK n \in 1..15 : n = Len(schema) /\ DOMAIN schema = 1..n
  BY DEF MessageOf, WellFormed
<1>2. \A k \in 1..n : k \in 1..15
  BY SMT
<1> DEFINE b(k) == SerializedField(k, schema[k], m[schema[k].name])
           size(k) == FieldSize(schema[k], m[schema[k].name])
<1>3. ASSUME NEW k \in 1..n PROVE b(k) \in Seq(Byte) /\ Len(b(k)) = size(k)
  <2>1. PICK v : v = m[schema[k].name] /\ Holds(schema[k], v)
    BY <1>1, Zenon DEF MessageOf
  <2>2. \E ps : IsField(k, schema[k], v, ps)
    BY <2>1, <1>2, FieldBack
  <2>3. b(k) \in Seq(Byte)
    BY <2>1, <2>2, Zenon DEF IsField, Gives
  <2>4. CASE HoldsItems(schema[k], v)
    <3>1. Len(SerializedField(k, schema[k], v)) = FieldSize(schema[k], v)
      BY <2>4, <1>2, ItemsLength
    <3> QED BY <3>1, <2>1, <2>3, Zenon
  <2>5. CASE HoldsPlain(schema[k], v)
    <3>1. schema[k].kind # "messages"
      BY <2>5 DEF HoldsPlain
    <3>2. SizeOf(PlainField(k, schema[k], v), PlainFieldSize(schema[k], v))
      BY <2>5, <1>2, PlainFieldLength
    <3> QED BY <3>1, <3>2, <2>1, <2>3, Zenon DEF SizeOf, SerializedField, FieldSize
  <2> QED BY <2>1, <2>4, <2>5, Zenon DEF Holds
<1>4. /\ Serialize(schema, m) = FlattenSeq([k \in 1..n |-> b(k)])
      /\ ByteSize(schema, m) = Total([k \in 1..n |-> size(k)])
  BY <1>1, Zenon DEF Serialize, ByteSize
<1> HIDE DEF b, size
<1>5. PICK bs : bs = [k \in 1..n |-> b(k)]
  OBVIOUS
<1>6. PICK sizes : sizes = [k \in 1..n |-> size(k)]
  OBVIOUS
<1>7. bs \in Seq(Seq(Byte)) /\ Len(bs) = n /\ \A k \in 1..n : bs[k] = b(k)
  <2>1. \A k \in 1..n : b(k) \in Seq(Byte)
    BY <1>3, Zenon
  <2> QED BY <2>1, <1>5
<1>8. Len(sizes) = n /\ \A k \in 1..n : sizes[k] = size(k)
  BY <1>6
<1>9. TotalOf(sizes, Len(FlattenSeq(bs)))
  <2>1. \A k \in 1..Len(bs) : sizes[k] = Len(bs[k])
    BY <1>3, <1>7, <1>8, Zenon
  <2> QED BY <2>1, <1>7, <1>8, FlatLength
<1> QED BY <1>4, <1>5, <1>6, <1>9, Zenon DEF TotalOf

-------------------------------------------------------------------------------
(***************************************************************************)
(* The messages of the program.                                            *)
(***************************************************************************)
LEMMA OneField ==
  ASSUME NEW a, NEW m, m = [x \in {a.name} |-> m[x]], Holds(a, m[a.name])
  PROVE  MessageOf(<<a>>, m)
<1>1. PICK s : s = <<a>>
  OBVIOUS
<1>2. Len(s) = 1 /\ DOMAIN s = 1..1 /\ s[1] = a /\ \A n \in 1..1 : n = 1
  BY <1>1, SMT
<1>3. Len(s) \in 1..15
  BY <1>2, SMT
<1>4. WellFormed(s)
  BY <1>2, <1>3, Zenon DEF WellFormed
<1>5. Names(s) = {a.name}
  BY <1>2 DEF Names
<1> QED BY <1>1, <1>2, <1>4, <1>5, Zenon DEF MessageOf

LEMMA TwoFields ==
  ASSUME NEW a, NEW b, NEW m, m = [x \in {a.name, b.name} |-> m[x]], a.name # b.name,
         Holds(a, m[a.name]), Holds(b, m[b.name])
  PROVE  MessageOf(<<a, b>>, m)
<1>1. PICK s : s = <<a, b>>
  OBVIOUS
<1>2. Len(s) = 2 /\ DOMAIN s = 1..2 /\ s[1] = a /\ s[2] = b /\ \A n \in 1..2 : n = 1 \/ n = 2
  BY <1>1, SMT
<1>3. Len(s) \in 1..15
  BY <1>2, SMT
<1>4. WellFormed(s)
  BY <1>2, <1>3, Zenon DEF WellFormed
<1>5. Names(s) = {a.name, b.name}
  BY <1>2, SMT DEF Names
<1> QED BY <1>1, <1>2, <1>4, <1>5, Zenon DEF MessageOf

LEMMA ThreeFields ==
  ASSUME NEW a, NEW b, NEW c, NEW m, m = [x \in {a.name, b.name, c.name} |-> m[x]],
         a.name # b.name, a.name # c.name, b.name # c.name,
         Holds(a, m[a.name]), Holds(b, m[b.name]), Holds(c, m[c.name])
  PROVE  MessageOf(<<a, b, c>>, m)
<1>1. PICK s : s = <<a, b, c>>
  OBVIOUS
<1>2. /\ Len(s) = 3 /\ DOMAIN s = 1..3 /\ s[1] = a /\ s[2] = b /\ s[3] = c
      /\ \A n \in 1..3 : n = 1 \/ n = 2 \/ n = 3
  BY <1>1, SMT
<1>3. Len(s) \in 1..15
  BY <1>2, SMT
<1>4. WellFormed(s)
  BY <1>2, <1>3, Zenon DEF WellFormed
<1>5. Names(s) = {a.name, b.name, c.name}
  BY <1>2, SMT DEF Names
<1> QED BY <1>1, <1>2, <1>4, <1>5, Zenon DEF MessageOf

LEMMA FourFields ==
  ASSUME NEW a, NEW b, NEW c, NEW d, NEW m, m = [x \in {a.name, b.name, c.name, d.name} |-> m[x]],
         a.name # b.name, a.name # c.name, a.name # d.name, b.name # c.name, b.name # d.name,
         c.name # d.name,
         Holds(a, m[a.name]), Holds(b, m[b.name]), Holds(c, m[c.name]), Holds(d, m[d.name])
  PROVE  MessageOf(<<a, b, c, d>>, m)
<1>1. PICK s : s = <<a, b, c, d>>
  OBVIOUS
<1>2. /\ Len(s) = 4 /\ DOMAIN s = 1..4 /\ s[1] = a /\ s[2] = b /\ s[3] = c /\ s[4] = d
      /\ \A n \in 1..4 : n = 1 \/ n = 2 \/ n = 3 \/ n = 4
  BY <1>1, SMT
<1>3. Len(s) \in 1..15
  BY <1>2, SMT
<1>4. WellFormed(s)
  BY <1>2, <1>3, Zenon DEF WellFormed
<1>5. Names(s) = {a.name, b.name, c.name, d.name}
  BY <1>2, SMT DEF Names
<1> QED BY <1>1, <1>2, <1>4, <1>5, Zenon DEF MessageOf

\* A message is one of its schema when each of its fields is.
LEMMA FieldsHold ==
  /\ \A name : \A v \in Int64s : Holds(Int64(name), v) /\ Holds(Int32(name), Narrowed(v))
  /\ \A name : \A v \in Strings : Holds(String(name), v)
  /\ \A name : \A v \in Lists : Holds(RepeatedInt64(name), v)
  /\ \A name : /\ Int64(name).name = name /\ Int32(name).name = name
                /\ String(name).name = name /\ RepeatedInt64(name).name = name
<1>1. \A name : /\ Int64(name).kind = "int" /\ String(name).kind = "string"
                /\ Int32(name).kind = "int32" /\ RepeatedInt64(name).kind = "ints"
                /\ Int64(name).name = name /\ Int32(name).name = name
                /\ String(name).name = name /\ RepeatedInt64(name).name = name
  BY DEF Int64, Int32, String, RepeatedInt64
<1>3. ASSUME NEW v \in Int64s PROVE Narrowed(v) \in Int32s
  BY NarrowedFacts DEF Int64s
<1>2. ASSUME NEW s \in Strings PROVE s \in Seq(Byte) /\ Len(s) < MaxLength
  <2>1. s \in Seq(0..127) /\ Len(s) < MaxLength
    BY DEF Strings
  <2>2. 0..127 \subseteq Byte
    BY SMT DEF Byte
  <2> QED BY <2>1, <2>2, SeqMonotonic
<1> QED BY <1>1, <1>2, <1>3, Zenon DEF Holds, HoldsPlain, Lists

LEMMA LoginReqIs ==
  \A w \in Strings : MessageOf(LoginReqFields, LoginReq(w))
<1> SUFFICES ASSUME NEW w \in Strings
             PROVE  MessageOf(LoginReqFields, LoginReq(w))
  OBVIOUS
<1>1. PICK m : m = LoginReq(w)
  OBVIOUS
<1>2. PICK a : a = String("username")
  OBVIOUS
<1>3. /\ m["username"] = w
      /\ m = [key \in {"username"} |-> m[key]]
  BY <1>1, SMT DEF LoginReq
<1>4. a.name = "username"
  BY <1>2, FieldsHold, Zenon
<1>5. Holds(a, w)
  BY <1>2, FieldsHold, Zenon
<1>6. MessageOf(<<a>>, m)
  BY <1>3, <1>4, <1>5, OneField
<1> QED BY <1>1, <1>2, <1>6, Zenon DEF LoginReqFields

LEMMA LoginRespIs ==
  \A w \in Int64s, x \in Int64s, y \in Strings, z \in Strings : MessageOf(LoginRespFields, LoginResp(w, x, y, z))
<1> SUFFICES ASSUME NEW w \in Int64s, NEW x \in Int64s, NEW y \in Strings, NEW z \in Strings
             PROVE  MessageOf(LoginRespFields, LoginResp(w, x, y, z))
  OBVIOUS
<1>1. PICK m : m = LoginResp(w, x, y, z)
  OBVIOUS
<1>2. PICK a, b, c, d : a = Int64("code") /\ b = Int64("playerId") /\ c = String("message") /\ d = String("token")
  OBVIOUS
<1>3. /\ m["code"] = w /\ m["playerId"] = x /\ m["message"] = y /\ m["token"] = z
      /\ m = [key \in {"code", "playerId", "message", "token"} |-> m[key]]
  BY <1>1, SMT DEF LoginResp
<1>4. a.name = "code" /\ b.name = "playerId" /\ c.name = "message" /\ d.name = "token"
  BY <1>2, FieldsHold, Zenon
<1>5. Holds(a, w) /\ Holds(b, x) /\ Holds(c, y) /\ Holds(d, z)
  BY <1>2, FieldsHold, Zenon
<1>6. MessageOf(<<a, b, c, d>>, m)
  BY <1>3, <1>4, <1>5, FourFields
<1> QED BY <1>1, <1>2, <1>6, Zenon DEF LoginRespFields

LEMMA MatchReqIs ==
  \A w \in Int64s : MessageOf(MatchReqFields, MatchReq(w))
<1> SUFFICES ASSUME NEW w \in Int64s
             PROVE  MessageOf(MatchReqFields, MatchReq(w))
  OBVIOUS
<1>1. PICK m : m = MatchReq(w)
  OBVIOUS
<1>2. PICK a : a = Int64("playerId")
  OBVIOUS
<1>3. /\ m["playerId"] = w
      /\ m = [key \in {"playerId"} |-> m[key]]
  BY <1>1, SMT DEF MatchReq
<1>4. a.name = "playerId"
  BY <1>2, FieldsHold, Zenon
<1>5. Holds(a, w)
  BY <1>2, FieldsHold, Zenon
<1>6. MessageOf(<<a>>, m)
  BY <1>3, <1>4, <1>5, OneField
<1> QED BY <1>1, <1>2, <1>6, Zenon DEF MatchReqFields

LEMMA MatchRespIs ==
  \A w \in Int64s, x \in Strings : MessageOf(MatchRespFields, MatchResp(w, x))
<1> SUFFICES ASSUME NEW w \in Int64s, NEW x \in Strings
             PROVE  MessageOf(MatchRespFields, MatchResp(w, x))
  OBVIOUS
<1>1. PICK m : m = MatchResp(w, x)
  OBVIOUS
<1>2. PICK a, b : a = Int64("code") /\ b = String("message")
  OBVIOUS
<1>3. /\ m["code"] = w /\ m["message"] = x
      /\ m = [key \in {"code", "message"} |-> m[key]]
  BY <1>1, SMT DEF MatchResp
<1>4. a.name = "code" /\ b.name = "message"
  BY <1>2, FieldsHold, Zenon
<1>5. Holds(a, w) /\ Holds(b, x)
  BY <1>2, FieldsHold, Zenon
<1>6. MessageOf(<<a, b>>, m)
  BY <1>3, <1>4, <1>5, TwoFields
<1> QED BY <1>1, <1>2, <1>6, Zenon DEF MatchRespFields

LEMMA MatchCancelReqIs ==
  \A w \in Int64s : MessageOf(MatchCancelReqFields, MatchCancelReq(w))
<1> SUFFICES ASSUME NEW w \in Int64s
             PROVE  MessageOf(MatchCancelReqFields, MatchCancelReq(w))
  OBVIOUS
<1>1. PICK m : m = MatchCancelReq(w)
  OBVIOUS
<1>2. PICK a : a = Int64("playerId")
  OBVIOUS
<1>3. /\ m["playerId"] = w
      /\ m = [key \in {"playerId"} |-> m[key]]
  BY <1>1, SMT DEF MatchCancelReq
<1>4. a.name = "playerId"
  BY <1>2, FieldsHold, Zenon
<1>5. Holds(a, w)
  BY <1>2, FieldsHold, Zenon
<1>6. MessageOf(<<a>>, m)
  BY <1>3, <1>4, <1>5, OneField
<1> QED BY <1>1, <1>2, <1>6, Zenon DEF MatchCancelReqFields

LEMMA MatchCancelRespIs ==
  \A w \in Int64s, x \in Strings : MessageOf(MatchCancelRespFields, MatchCancelResp(w, x))
<1> SUFFICES ASSUME NEW w \in Int64s, NEW x \in Strings
             PROVE  MessageOf(MatchCancelRespFields, MatchCancelResp(w, x))
  OBVIOUS
<1>1. PICK m : m = MatchCancelResp(w, x)
  OBVIOUS
<1>2. PICK a, b : a = Int64("code") /\ b = String("message")
  OBVIOUS
<1>3. /\ m["code"] = w /\ m["message"] = x
      /\ m = [key \in {"code", "message"} |-> m[key]]
  BY <1>1, SMT DEF MatchCancelResp
<1>4. a.name = "code" /\ b.name = "message"
  BY <1>2, FieldsHold, Zenon
<1>5. Holds(a, w) /\ Holds(b, x)
  BY <1>2, FieldsHold, Zenon
<1>6. MessageOf(<<a, b>>, m)
  BY <1>3, <1>4, <1>5, TwoFields
<1> QED BY <1>1, <1>2, <1>6, Zenon DEF MatchCancelRespFields

LEMMA RoomCreatedNotifyIs ==
  \A w \in Int64s, x \in Lists : MessageOf(RoomCreatedNotifyFields, RoomCreatedNotify(w, x))
<1> SUFFICES ASSUME NEW w \in Int64s, NEW x \in Lists
             PROVE  MessageOf(RoomCreatedNotifyFields, RoomCreatedNotify(w, x))
  OBVIOUS
<1>1. PICK m : m = RoomCreatedNotify(w, x)
  OBVIOUS
<1>2. PICK a, b : a = Int64("roomId") /\ b = RepeatedInt64("players")
  OBVIOUS
<1>3. /\ m["roomId"] = w /\ m["players"] = x
      /\ m = [key \in {"roomId", "players"} |-> m[key]]
  BY <1>1, SMT DEF RoomCreatedNotify
<1>4. a.name = "roomId" /\ b.name = "players"
  BY <1>2, FieldsHold, Zenon
<1>5. Holds(a, w) /\ Holds(b, x)
  BY <1>2, FieldsHold, Zenon
<1>6. MessageOf(<<a, b>>, m)
  BY <1>3, <1>4, <1>5, TwoFields
<1> QED BY <1>1, <1>2, <1>6, Zenon DEF RoomCreatedNotifyFields

LEMMA ChatReqIs ==
  \A w \in Int64s, x \in Strings : MessageOf(ChatReqFields, ChatReq(w, x))
<1> SUFFICES ASSUME NEW w \in Int64s, NEW x \in Strings
             PROVE  MessageOf(ChatReqFields, ChatReq(w, x))
  OBVIOUS
<1>1. PICK m : m = ChatReq(w, x)
  OBVIOUS
<1>2. PICK a, b : a = Int64("roomId") /\ b = String("text")
  OBVIOUS
<1>3. /\ m["roomId"] = w /\ m["text"] = x
      /\ m = [key \in {"roomId", "text"} |-> m[key]]
  BY <1>1, SMT DEF ChatReq
<1>4. a.name = "roomId" /\ b.name = "text"
  BY <1>2, FieldsHold, Zenon
<1>5. Holds(a, w) /\ Holds(b, x)
  BY <1>2, FieldsHold, Zenon
<1>6. MessageOf(<<a, b>>, m)
  BY <1>3, <1>4, <1>5, TwoFields
<1> QED BY <1>1, <1>2, <1>6, Zenon DEF ChatReqFields

LEMMA ChatNotifyIs ==
  \A w \in Int64s, x \in Int64s, y \in Strings : MessageOf(ChatNotifyFields, ChatNotify(w, x, y))
<1> SUFFICES ASSUME NEW w \in Int64s, NEW x \in Int64s, NEW y \in Strings
             PROVE  MessageOf(ChatNotifyFields, ChatNotify(w, x, y))
  OBVIOUS
<1>1. PICK m : m = ChatNotify(w, x, y)
  OBVIOUS
<1>2. PICK a, b, c : a = Int64("roomId") /\ b = Int64("playerId") /\ c = String("text")
  OBVIOUS
<1>3. /\ m["roomId"] = w /\ m["playerId"] = x /\ m["text"] = y
      /\ m = [key \in {"roomId", "playerId", "text"} |-> m[key]]
  BY <1>1, SMT DEF ChatNotify
<1>4. a.name = "roomId" /\ b.name = "playerId" /\ c.name = "text"
  BY <1>2, FieldsHold, Zenon
<1>5. Holds(a, w) /\ Holds(b, x) /\ Holds(c, y)
  BY <1>2, FieldsHold, Zenon
<1>6. MessageOf(<<a, b, c>>, m)
  BY <1>3, <1>4, <1>5, ThreeFields
<1> QED BY <1>1, <1>2, <1>6, Zenon DEF ChatNotifyFields

LEMMA ChatRespIs ==
  \A w \in Int64s, x \in Strings : MessageOf(ChatRespFields, ChatResp(w, x))
<1> SUFFICES ASSUME NEW w \in Int64s, NEW x \in Strings
             PROVE  MessageOf(ChatRespFields, ChatResp(w, x))
  OBVIOUS
<1>1. PICK m : m = ChatResp(w, x)
  OBVIOUS
<1>2. PICK a, b : a = Int64("code") /\ b = String("message")
  OBVIOUS
<1>3. /\ m["code"] = w /\ m["message"] = x
      /\ m = [key \in {"code", "message"} |-> m[key]]
  BY <1>1, SMT DEF ChatResp
<1>4. a.name = "code" /\ b.name = "message"
  BY <1>2, FieldsHold, Zenon
<1>5. Holds(a, w) /\ Holds(b, x)
  BY <1>2, FieldsHold, Zenon
<1>6. MessageOf(<<a, b>>, m)
  BY <1>3, <1>4, <1>5, TwoFields
<1> QED BY <1>1, <1>2, <1>6, Zenon DEF ChatRespFields

LEMMA HeartbeatReqIs ==
  \A w \in Int64s, x \in Int64s : MessageOf(HeartbeatReqFields, HeartbeatReq(w, x))
<1> SUFFICES ASSUME NEW w \in Int64s, NEW x \in Int64s
             PROVE  MessageOf(HeartbeatReqFields, HeartbeatReq(w, x))
  OBVIOUS
<1>1. PICK m : m = HeartbeatReq(w, x)
  OBVIOUS
<1>2. PICK a, b : a = Int64("client_time_ms") /\ b = Int64("last_rtt_ms")
  OBVIOUS
<1>3. /\ m["client_time_ms"] = w /\ m["last_rtt_ms"] = x
      /\ m = [key \in {"client_time_ms", "last_rtt_ms"} |-> m[key]]
  BY <1>1, SMT DEF HeartbeatReq
<1>4. a.name = "client_time_ms" /\ b.name = "last_rtt_ms"
  BY <1>2, FieldsHold, Zenon
<1>5. Holds(a, w) /\ Holds(b, x)
  BY <1>2, FieldsHold, Zenon
<1>6. MessageOf(<<a, b>>, m)
  BY <1>3, <1>4, <1>5, TwoFields
<1> QED BY <1>1, <1>2, <1>6, Zenon DEF HeartbeatReqFields

LEMMA HeartbeatRespIs ==
  \A w \in Int64s, x \in Int64s : MessageOf(HeartbeatRespFields, HeartbeatResp(w, x))
<1> SUFFICES ASSUME NEW w \in Int64s, NEW x \in Int64s
             PROVE  MessageOf(HeartbeatRespFields, HeartbeatResp(w, x))
  OBVIOUS
<1>1. PICK m : m = HeartbeatResp(w, x)
  OBVIOUS
<1>2. PICK a, b : a = Int64("client_time_ms") /\ b = Int64("server_time_ms")
  OBVIOUS
<1>3. /\ m["client_time_ms"] = w /\ m["server_time_ms"] = x
      /\ m = [key \in {"client_time_ms", "server_time_ms"} |-> m[key]]
  BY <1>1, SMT DEF HeartbeatResp
<1>4. a.name = "client_time_ms" /\ b.name = "server_time_ms"
  BY <1>2, FieldsHold, Zenon
<1>5. Holds(a, w) /\ Holds(b, x)
  BY <1>2, FieldsHold, Zenon
<1>6. MessageOf(<<a, b>>, m)
  BY <1>3, <1>4, <1>5, TwoFields
<1> QED BY <1>1, <1>2, <1>6, Zenon DEF HeartbeatRespFields

LEMMA ReconnectReqIs ==
  \A w \in Int64s, x \in Strings : MessageOf(ReconnectReqFields, ReconnectReq(w, x))
<1> SUFFICES ASSUME NEW w \in Int64s, NEW x \in Strings
             PROVE  MessageOf(ReconnectReqFields, ReconnectReq(w, x))
  OBVIOUS
<1>1. PICK m : m = ReconnectReq(w, x)
  OBVIOUS
<1>2. PICK a, b : a = Int64("player_id") /\ b = String("token")
  OBVIOUS
<1>3. /\ m["player_id"] = w /\ m["token"] = x
      /\ m = [key \in {"player_id", "token"} |-> m[key]]
  BY <1>1, SMT DEF ReconnectReq
<1>4. a.name = "player_id" /\ b.name = "token"
  BY <1>2, FieldsHold, Zenon
<1>5. Holds(a, w) /\ Holds(b, x)
  BY <1>2, FieldsHold, Zenon
<1>6. MessageOf(<<a, b>>, m)
  BY <1>3, <1>4, <1>5, TwoFields
<1> QED BY <1>1, <1>2, <1>6, Zenon DEF ReconnectReqFields

LEMMA ReconnectRespIs ==
  \A w \in Int64s, x \in Int64s, y \in Int64s, z \in Strings : MessageOf(ReconnectRespFields, ReconnectResp(w, x, y, z))
<1> SUFFICES ASSUME NEW w \in Int64s, NEW x \in Int64s, NEW y \in Int64s, NEW z \in Strings
             PROVE  MessageOf(ReconnectRespFields, ReconnectResp(w, x, y, z))
  OBVIOUS
<1>1. PICK m : m = ReconnectResp(w, x, y, z)
  OBVIOUS
<1>2. PICK a, b, c, d : a = Int64("code") /\ b = Int32("player_id") /\ c = Int32("room_id") /\ d = String("message")
  OBVIOUS
<1>3. /\ m["code"] = w /\ m["player_id"] = Narrowed(x) /\ m["room_id"] = Narrowed(y) /\ m["message"] = z
      /\ m = [key \in {"code", "player_id", "room_id", "message"} |-> m[key]]
  BY <1>1, SMT DEF ReconnectResp
<1>4. a.name = "code" /\ b.name = "player_id" /\ c.name = "room_id" /\ d.name = "message"
  BY <1>2, FieldsHold, Zenon
<1>5. Holds(a, w) /\ Holds(b, Narrowed(x)) /\ Holds(c, Narrowed(y)) /\ Holds(d, z)
  BY <1>2, FieldsHold, Zenon
<1>6. MessageOf(<<a, b, c, d>>, m)
  BY <1>3, <1>4, <1>5, FourFields
<1> QED BY <1>1, <1>2, <1>6, Zenon DEF ReconnectRespFields

LEMMA RankingReqIs ==
  \A w \in Int64s : MessageOf(RankingReqFields, RankingReq(w))
<1> SUFFICES ASSUME NEW w \in Int64s
             PROVE  MessageOf(RankingReqFields, RankingReq(w))
  OBVIOUS
<1>1. PICK m : m = RankingReq(w)
  OBVIOUS
<1>2. PICK a : a = Int64("top_n")
  OBVIOUS
<1>3. /\ m["top_n"] = w
      /\ m = [key \in {"top_n"} |-> m[key]]
  BY <1>1, SMT DEF RankingReq
<1>4. a.name = "top_n"
  BY <1>2, FieldsHold, Zenon
<1>5. Holds(a, w)
  BY <1>2, FieldsHold, Zenon
<1>6. MessageOf(<<a>>, m)
  BY <1>3, <1>4, <1>5, OneField
<1> QED BY <1>1, <1>2, <1>6, Zenon DEF RankingReqFields

LEMMA RankingItemIs ==
  \A w \in Int64s, x \in Int64s : MessageOf(RankingItemFields, RankingItem(w, x))
<1> SUFFICES ASSUME NEW w \in Int64s, NEW x \in Int64s
             PROVE  MessageOf(RankingItemFields, RankingItem(w, x))
  OBVIOUS
<1>1. PICK m : m = RankingItem(w, x)
  OBVIOUS
<1>2. PICK a, b : a = Int64("player_id") /\ b = Int64("score")
  OBVIOUS
<1>3. /\ m["player_id"] = w /\ m["score"] = x
      /\ m = [key \in {"player_id", "score"} |-> m[key]]
  BY <1>1, SMT DEF RankingItem
<1>4. a.name = "player_id" /\ b.name = "score"
  BY <1>2, FieldsHold, Zenon
<1>5. Holds(a, w) /\ Holds(b, x)
  BY <1>2, FieldsHold, Zenon
<1>6. MessageOf(<<a, b>>, m)
  BY <1>3, <1>4, <1>5, TwoFields
<1> QED BY <1>1, <1>2, <1>6, Zenon DEF RankingItemFields

\* A message of two numbers is a plain one, and short.
LEMMA TwoNumbers ==
  ASSUME NEW s, NEW m, MessageOf(s, m), DOMAIN s = 1..2, s[1].kind = "int", s[2].kind = "int"
  PROVE  /\ PlainMessage(s, m) /\ Len(PlainSerialize(s, m)) <= 22
         /\ Len(Serialize(s, m)) <= 22
<1>1. \A n \in DOMAIN s : s[n].kind = "int"
  <2>1. \A n \in 1..2 : n = 1 \/ n = 2
    BY SMT
  <2> QED BY <2>1, Zenon
<1>2. \A n \in DOMAIN s : HoldsPlain(s[n], m[s[n].name])
  BY <1>1 DEF MessageOf, Holds, HoldsItems
<1>3. PlainMessage(s, m)
  BY <1>2, Zenon DEF MessageOf, PlainMessage
<1> DEFINE size(n) == PlainFieldSize(s[n], m[s[n].name])
<1>4. ASSUME NEW n \in 1..2 PROVE size(n) \in 0..11
  <2>1. s[n].kind = "int" /\ m[s[n].name] \in Int64s
    BY <1>1, <1>2 DEF HoldsPlain
  <2>2. PICK z : z = VarintSize(m[s[n].name])
    OBVIOUS
  <2>3. z \in 1..10
    BY <2>1, <2>2, VarintLength
  <2>4. size(n) = IF m[s[n].name] = Default(s[n]) THEN 0 ELSE 1 + z
    BY <2>1, <2>2 DEF PlainFieldSize, IsNumber
  <2> HIDE DEF size
  <2> QED BY <2>3, <2>4, SMT
<1>5. /\ PlainSize(s, m) = Total([n \in 1..2 |-> size(n)])
      /\ ByteSize(s, m) = Total([n \in 1..2 |-> FieldSize(s[n], m[s[n].name])])
  BY Zenon DEF PlainSize, ByteSize
<1>6. \A n \in 1..2 : FieldSize(s[n], m[s[n].name]) = size(n)
  <2>1. "int" # "messages"
    OBVIOUS
  <2> QED BY <2>1, <1>1, Zenon DEF FieldSize
<1>7. ByteSize(s, m) = Total([n \in 1..2 |-> size(n)])
  BY <1>5, <1>6, Zenon
<1> HIDE DEF size
<1>8. PICK sizes : sizes = [n \in 1..2 |-> size(n)]
  OBVIOUS
<1>9. Len(sizes) = 2 /\ sizes[1] = size(1) /\ sizes[2] = size(2)
  BY <1>8
<1>10. PICK sum : RunningSums(sizes, 2, sum) /\ Total(sizes) = sum[2]
  <2>1. Len(sizes) \in Nat
    BY <1>9, SMT
  <2> QED BY <2>1, <1>9, TotalSteps, Zenon
<1>11. sum[0] = 0 /\ sum[1] = sum[0] + size(1) /\ sum[2] = sum[1] + size(2)
  <2>1. 1 \in 1..2 /\ 2 \in 1..2 /\ 1 - 1 = 0 /\ 2 - 1 = 1
    BY SMT
  <2> QED BY <2>1, <1>9, <1>10, Zenon DEF RunningSums
<1>12. Total(sizes) <= 22
  <2>1. size(1) \in 0..11 /\ size(2) \in 0..11
    BY <1>4, SMT
  <2> QED BY <2>1, <1>10, <1>11, SMT
<1>13. Len(PlainSerialize(s, m)) = PlainSize(s, m)
  BY <1>3, PlainLength DEF PlainSizeIs
<1>14. ByteSize(s, m) = Len(Serialize(s, m))
  BY SizeIsLength
<1> QED BY <1>3, <1>5, <1>7, <1>8, <1>12, <1>13, <1>14, Zenon

\* An item of a ranking is one.
LEMMA ItemIsPlain ==
  ASSUME NEW w \in Int64s, NEW x \in Int64s
  PROVE  /\ PlainMessage(RankingItemFields, RankingItem(w, x))
         /\ Len(PlainSerialize(RankingItemFields, RankingItem(w, x))) < MaxLength
<1>1. PICK s : s = RankingItemFields
  OBVIOUS
<1>2. PICK m : m = RankingItem(w, x)
  OBVIOUS
<1>3. MessageOf(s, m)
  BY <1>1, <1>2, RankingItemIs, Zenon
<1>4. s = <<Int64("player_id"), Int64("score")>>
  BY <1>1 DEF RankingItemFields
<1>5. DOMAIN s = 1..2 /\ s[1].kind = "int" /\ s[2].kind = "int"
  BY <1>4, SMT DEF Int64
<1>6. PlainMessage(s, m) /\ Len(PlainSerialize(s, m)) <= 22
  BY <1>3, <1>5, TwoNumbers
<1>7. Len(PlainSerialize(s, m)) \in Nat
  <2>1. PlainSerialize(s, m) \in Seq(Byte)
    BY <1>6, PlainRead
  <2> QED BY <2>1, LenProperties
<1>8. Len(PlainSerialize(s, m)) < MaxLength
  BY <1>6, <1>7, SMT DEF MaxLength
<1> QED BY <1>1, <1>2, <1>6, <1>8, Zenon

\* The items of a ranking.
Items == {RankingItem(p, score) : p \in Int64s, score \in Int64s}

\* A ranking is a message of its schema.
LEMMA RankingRespIs ==
  \A items \in Seq(Items) : MessageOf(RankingRespFields, RankingResp(items))
<1> SUFFICES ASSUME NEW items \in Seq(Items)
             PROVE  MessageOf(RankingRespFields, RankingResp(items))
  OBVIOUS
<1>1. PICK m : m = RankingResp(items)
  OBVIOUS
<1>2. PICK a : a = Repeated("items", RankingItemFields)
  OBVIOUS
<1>3. /\ m["items"] = items
      /\ m = [key \in {"items"} |-> m[key]]
  BY <1>1, SMT DEF RankingResp
<1>4. a.name = "items" /\ a.kind = "messages" /\ a.schema = RankingItemFields
  BY <1>2 DEF Repeated
<1>5. HoldsItems(a, items)
  <2>1. Len(items) \in Nat /\ items = [i \in 1..Len(items) |-> items[i]]
    BY LenProperties
  <2>2. ASSUME NEW i \in 1..Len(items)
        PROVE  /\ PlainMessage(RankingItemFields, items[i])
               /\ Len(PlainSerialize(RankingItemFields, items[i])) < MaxLength
    <3>1. items[i] \in Items
      BY ElementOfSeq
    <3>2. PICK w \in Int64s, x \in Int64s : items[i] = RankingItem(w, x)
      BY <3>1 DEF Items
    <3> QED BY <3>2, ItemIsPlain, Zenon
  <2> QED BY <2>1, <2>2, <1>4, Zenon DEF HoldsItems
<1>6. Holds(a, items)
  BY <1>5, Zenon DEF Holds
<1>7. MessageOf(<<a>>, m)
  BY <1>3, <1>4, <1>6, OneField
<1> QED BY <1>1, <1>2, <1>7, Zenon DEF RankingRespFields

\* Every message that MessagesOf makes of numbers of 64 bits and of short strings and
\* lists is one of its schema.
LEMMA MessagesAreMessages ==
  ASSUME NEW nums, NEW strings, NEW lists, NEW sample \in MessagesOf(nums, strings, lists),
         nums \subseteq Int64s, strings \subseteq Strings, lists \subseteq Lists
  PROVE  MessageOf(sample[1], sample[2])
<1>n. \A n \in nums : n \in Int64s
  OBVIOUS
<1>s. \A s \in strings : s \in Strings
  OBVIOUS
<1>l. \A ps \in lists : ps \in Lists
  OBVIOUS
<1> DEFINE items == {RankingItem(p, score) : p, score \in nums}
           rankings == {<<>>} \cup {<<i>> : i \in items} \cup {<<i, j>> : i, j \in items}
<1>i. \A i \in items : \E p \in nums, score \in nums : i = RankingItem(p, score)
  BY SMT
<1>j. \A i \in items : i \in Items
  BY <1>i, <1>n DEF Items
<1>r. \A r \in rankings : r \in Seq(Items)
  <2> HIDE DEF items
  <2>1. \A r : r \in rankings => \/ r = <<>>
                                 \/ \E i \in items : r = <<i>>
                                 \/ \E i \in items, j \in items : r = <<i, j>>
    BY SMT
  <2>2. <<>> \in Seq(Items)
    OBVIOUS
  <2>3. \A i \in Items : <<i>> \in Seq(Items)
    OBVIOUS
  <2>4. \A i, j \in Items : <<i, j>> \in Seq(Items)
    OBVIOUS
  <2> HIDE DEF rankings
  <2> SUFFICES ASSUME NEW r \in rankings PROVE r \in Seq(Items)
    OBVIOUS
  <2>5. CASE r = <<>>
    BY <2>5, <2>2
  <2>6. CASE \E i \in items : r = <<i>>
    <3>1. PICK i \in items : r = <<i>>
      BY <2>6
    <3> QED BY <3>1, <2>3, <1>j
  <2>7. CASE \E i \in items, j \in items : r = <<i, j>>
    <3>1. PICK i \in items, j \in items : r = <<i, j>>
      BY <2>7
    <3>2. i \in Items /\ j \in Items
      BY <1>j
    <3> QED BY <3>1, <3>2, <2>4
  <2> QED BY <2>1, <2>5, <2>6, <2>7, Zenon
<1>m. sample \in UNION {
          {<<LoginReqFields, LoginReq(s)>> : s \in strings},
          {<<LoginRespFields, LoginResp(n, p, s, t)>> : n, p \in nums, s, t \in strings},
          {<<MatchReqFields, MatchReq(p)>> : p \in nums},
          {<<MatchRespFields, MatchResp(n, s)>> : n \in nums, s \in strings},
          {<<MatchCancelReqFields, MatchCancelReq(p)>> : p \in nums},
          {<<MatchCancelRespFields, MatchCancelResp(n, s)>> : n \in nums, s \in strings},
          {<<RoomCreatedNotifyFields, RoomCreatedNotify(r, ps)>> : r \in nums, ps \in lists},
          {<<ChatReqFields, ChatReq(r, s)>> : r \in nums, s \in strings},
          {<<ChatNotifyFields, ChatNotify(r, p, s)>> : r, p \in nums, s \in strings},
          {<<ChatRespFields, ChatResp(n, s)>> : n \in nums, s \in strings},
          {<<HeartbeatReqFields, HeartbeatReq(t, rtt)>> : t, rtt \in nums},
          {<<HeartbeatRespFields, HeartbeatResp(t, u)>> : t, u \in nums},
          {<<ReconnectReqFields, ReconnectReq(p, s)>> : p \in nums, s \in strings},
          {<<ReconnectRespFields, ReconnectResp(n, p, r, s)>> : n, p, r \in nums, s \in strings},
          {<<RankingReqFields, RankingReq(n)>> : n \in nums},
          {<<RankingItemFields, i>> : i \in items},
          {<<RankingRespFields, RankingResp(r)>> : r \in rankings}}
  BY DEF MessagesOf
<1> HIDE DEF items, rankings
<1>c. \/ \E s \in strings : sample = <<LoginReqFields, LoginReq(s)>>
      \/ \E n \in nums, p \in nums, s \in strings, t \in strings :
            sample = <<LoginRespFields, LoginResp(n, p, s, t)>>
      \/ \E p \in nums : sample = <<MatchReqFields, MatchReq(p)>>
      \/ \E n \in nums, s \in strings : sample = <<MatchRespFields, MatchResp(n, s)>>
      \/ \E p \in nums : sample = <<MatchCancelReqFields, MatchCancelReq(p)>>
      \/ \E n \in nums, s \in strings : sample = <<MatchCancelRespFields, MatchCancelResp(n, s)>>
      \/ \E r \in nums, ps \in lists : sample = <<RoomCreatedNotifyFields, RoomCreatedNotify(r, ps)>>
      \/ \E r \in nums, s \in strings : sample = <<ChatReqFields, ChatReq(r, s)>>
      \/ \E r \in nums, p \in nums, s \in strings : sample = <<ChatNotifyFields, ChatNotify(r, p, s)>>
      \/ \E n \in nums, s \in strings : sample = <<ChatRespFields, ChatResp(n, s)>>
      \/ \E t \in nums, rtt \in nums : sample = <<HeartbeatReqFields, HeartbeatReq(t, rtt)>>
      \/ \E t \in nums, u \in nums : sample = <<HeartbeatRespFields, HeartbeatResp(t, u)>>
      \/ \E p \in nums, s \in strings : sample = <<ReconnectReqFields, ReconnectReq(p, s)>>
      \/ \E n \in nums, p \in nums, r \in nums, s \in strings :
            sample = <<ReconnectRespFields, ReconnectResp(n, p, r, s)>>
      \/ \E n \in nums : sample = <<RankingReqFields, RankingReq(n)>>
      \/ \E i \in items : sample = <<RankingItemFields, i>>
      \/ \E r \in rankings : sample = <<RankingRespFields, RankingResp(r)>>
  BY <1>m, SMT
<1>t. \A f, m : sample = <<f, m>> /\ MessageOf(f, m) => MessageOf(sample[1], sample[2])
  <2>1. \A f, m : sample = <<f, m>> => sample[1] = f /\ sample[2] = m
    OBVIOUS
  <2> QED BY <2>1, Zenon
<1>a. CASE \/ \E s \in strings : sample = <<LoginReqFields, LoginReq(s)>>
           \/ \E n \in nums, p \in nums, s \in strings, t \in strings :
                 sample = <<LoginRespFields, LoginResp(n, p, s, t)>>
           \/ \E p \in nums : sample = <<MatchReqFields, MatchReq(p)>>
           \/ \E n \in nums, s \in strings : sample = <<MatchRespFields, MatchResp(n, s)>>
           \/ \E p \in nums : sample = <<MatchCancelReqFields, MatchCancelReq(p)>>
           \/ \E n \in nums, s \in strings : sample = <<MatchCancelRespFields, MatchCancelResp(n, s)>>
  BY <1>a, <1>n, <1>s, <1>t, LoginReqIs, LoginRespIs, MatchReqIs, MatchRespIs, MatchCancelReqIs,
     MatchCancelRespIs, Zenon
<1>b. CASE \/ \E r \in nums, ps \in lists : sample = <<RoomCreatedNotifyFields, RoomCreatedNotify(r, ps)>>
           \/ \E r \in nums, s \in strings : sample = <<ChatReqFields, ChatReq(r, s)>>
           \/ \E r \in nums, p \in nums, s \in strings : sample = <<ChatNotifyFields, ChatNotify(r, p, s)>>
           \/ \E n \in nums, s \in strings : sample = <<ChatRespFields, ChatResp(n, s)>>
           \/ \E t \in nums, rtt \in nums : sample = <<HeartbeatReqFields, HeartbeatReq(t, rtt)>>
           \/ \E t \in nums, u \in nums : sample = <<HeartbeatRespFields, HeartbeatResp(t, u)>>
  BY <1>b, <1>n, <1>s, <1>l, <1>t, RoomCreatedNotifyIs, ChatReqIs, ChatNotifyIs, ChatRespIs,
     HeartbeatReqIs, HeartbeatRespIs, Zenon
<1>d. CASE \/ \E p \in nums, s \in strings : sample = <<ReconnectReqFields, ReconnectReq(p, s)>>
           \/ \E n \in nums, p \in nums, r \in nums, s \in strings :
                 sample = <<ReconnectRespFields, ReconnectResp(n, p, r, s)>>
           \/ \E n \in nums : sample = <<RankingReqFields, RankingReq(n)>>
  BY <1>d, <1>n, <1>s, <1>t, ReconnectReqIs, ReconnectRespIs, RankingReqIs, Zenon
<1>e. CASE \/ \E i \in items : sample = <<RankingItemFields, i>>
           \/ \E r \in rankings : sample = <<RankingRespFields, RankingResp(r)>>
  BY <1>e, <1>i, <1>n, <1>r, <1>t, RankingItemIs, RankingRespIs, Zenon
<1> QED BY <1>c, <1>a, <1>b, <1>d, <1>e, Zenon
===============================================================================
