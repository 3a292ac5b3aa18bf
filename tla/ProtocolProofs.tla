---------------------------- MODULE ProtocolProofs -----------------------------
(***************************************************************************)
(* The services behind a connection, end to end: what the metrics count,   *)
(* what the generated classes write and read, which answer a heartbeat     *)
(* gets and what a ranking says, for every set of players, requests and    *)
(* texts, every way of cutting the stream and every interleaving; what is  *)
(* delivered, as long as a write takes the whole packet.                   *)
(***************************************************************************)
EXTENDS ProtocolProps, ConnectionProofs, FiniteSetTheorems

\* A step with the services is one of the connection, or leaves it alone.
LEMMA StepIsConnections ==
  ASSUME [ProtocolNext]_protocol_vars
  PROVE  [Next]_vars
<1>1. CASE Transport
  BY <1>1, Zenon DEF Transport, Next, ServerStep, ClientStep
<1>2. CASE Handle
  BY <1>2, Zenon DEF Handle, Next, ServerStep
<1>3. ASSUME NEW p \in Others, NEW text \in Texts, Chat(p, text) PROVE Next
  <2>1. ChatNotice(p, text) \in Notices /\ Notify(ChatNotice(p, text))
    BY <1>3, ChatsAssumption DEF Chat
  <2> QED BY <2>1, Zenon DEF Next, ServerStep
<1>4. CASE Report \/ UNCHANGED protocol_vars
  BY <1>4, Zenon DEF Report, protocol_vars, connection_vars, vars
<1> QED BY <1>1, <1>2, <1>3, <1>4, Zenon DEF ProtocolNext

\* The services behind a connection use it as it allows: with the handlers of
\* MessageServer and the pushes of the chat, every step is one of the connection's
\* (a handler that answers, a notice that is queued) or leaves it alone.
LEMMA ProtocolIsConnection == ProtocolSpec => Spec
<1>1. ProtocolInit => Init
  BY DEF ProtocolInit
<1>2. [ProtocolNext]_protocol_vars => [Next]_vars
  BY StepIsConnections
<1> QED BY <1>1, <1>2, PTL DEF ProtocolSpec, Spec

\* What a connection guarantees holds with the services behind it: a queue that is not
\* empty is being written (Session's do_write), requests are handled in the order in
\* which they were sent, and answers arrive in the order in which they were queued.
THEOREM ProtocolDelivers ==
  ~ShortWrites => (ProtocolSpec => []NoStuckQueue /\ RequestsInOrder /\ RepliesInOrder)
<1> SUFFICES ASSUME ~ShortWrites
             PROVE  ProtocolSpec => []NoStuckQueue /\ RequestsInOrder /\ RepliesInOrder
  OBVIOUS
<1>1. ProtocolSpec => Spec
  BY ProtocolIsConnection
<1>2. (Spec => []NoStuckQueue) /\ (Spec => RequestsInOrder) /\ (Spec => RepliesInOrder)
  BY QueueIsDriven, RequestsAreFramed, RepliesAreFramed
<1> QED BY <1>1, <1>2

-------------------------------------------------------------------------------
(***************************************************************************)
(* Counters that wrap.  A counter stands for a number when it is within    *)
(* the range of a counter, and whole turns of it away from the number.     *)
(***************************************************************************)
Turn(half) == 2 * half
Away(n, counted, half) == \E turns \in Int : n - counted = turns * Turn(half)
InRange(n, half) == -half <= n /\ n < half
StandsFor(counter, n, half) == counter \in Int /\ InRange(counter, half) /\ Away(n, counter, half)

LEMMA HalfFacts ==
  ASSUME NEW half \in Nat \ {0}
  PROVE  half \in Nat /\ half >= 1 /\ Turn(half) \in Nat /\ Turn(half) >= 2 /\ Turn(half) = 2 * half
  BY SMT DEF Turn

LEMMA AwayFacts ==
  ASSUME NEW half \in Nat \ {0}, NEW a \in Int, NEW b \in Int, NEW c \in Int
  PROVE  /\ Away(a, a, half)
         /\ Away(a, b, half) => Away(b, a, half)
         /\ Away(a, b, half) => Away(a + c, b + c, half)
         /\ Away(a, b, half) /\ Away(b, c, half) => Away(a, c, half)
         /\ Away(a, b, half) <=> (a - b) % (2 * half) = 0
<1> DEFINE T == Turn(half)
<1>1. T \in Nat \ {0} /\ T = 2 * half
  BY HalfFacts, SMT
<1> HIDE DEF T
<1>2. Away(a, a, half)
  <2>1. a - a = 0 * T /\ 0 \in Int
    BY <1>1, SMT
  <2> QED BY <2>1, Zenon DEF Away, T
<1>3. ASSUME Away(a, b, half) PROVE Away(b, a, half)
  <2>1. PICK q \in Int : a - b = q * T
    BY <1>3, Zenon DEF Away, T
  <2>2. b - a = (-q) * T /\ -q \in Int
    BY <1>1, <2>1, SMT
  <2> QED BY <2>2, Zenon DEF Away, T
<1>4. ASSUME Away(a, b, half) PROVE Away(a + c, b + c, half)
  <2>1. PICK q \in Int : a - b = q * T
    BY <1>4, Zenon DEF Away, T
  <2>2. (a + c) - (b + c) = q * T
    BY <1>1, <2>1, SMT
  <2> QED BY <2>2, Zenon DEF Away, T
<1>5. ASSUME Away(a, b, half), Away(b, c, half) PROVE Away(a, c, half)
  <2>1. PICK q \in Int, r \in Int : a - b = q * T /\ b - c = r * T
    BY <1>5, Zenon DEF Away, T
  <2>2. a - c = (q + r) * T /\ q + r \in Int
    BY <1>1, <2>1, SMT
  <2> QED BY <2>2, Zenon DEF Away, T
<1>6. ASSUME Away(a, b, half) PROVE (a - b) % T = 0
  <2>1. PICK q \in Int : a - b = q * T
    BY <1>6, Zenon DEF Away, T
  <2>2. T \in Nat \ {0}
    BY <1>1
  <2>3. (q * T) % T = 0
    BY <2>2, SMT
  <2> QED BY <2>1, <2>3, Zenon
<1>7. ASSUME (a - b) % T = 0 PROVE Away(a, b, half)
  <2>1. PICK q \in Int : q = (a - b) \div T
    BY <1>1, SMT
  <2>2. a - b = q * T
    BY <1>1, <1>7, <2>1, SMT
  <2> QED BY <2>2, Zenon DEF Away, T
<1> QED BY <1>1, <1>2, <1>3, <1>4, <1>5, <1>6, <1>7, Zenon

\* Numbers less than a turn apart and whole turns apart are the same.
LEMMA SameTurn ==
  ASSUME NEW half \in Nat \ {0}, NEW a \in Int, NEW b \in Int, Away(a, b, half), -Turn(half) < a - b, a - b < Turn(half)
  PROVE  a = b
<1>1. Turn(half) \in Nat \ {0}
  BY HalfFacts, SMT
<1>2. PICK q \in Int : a - b = q * Turn(half)
  BY DEF Away
<1> DEFINE T == Turn(half)
<1> HIDE DEF T
<1>3. T \in Nat \ {0} /\ a - b = q * T /\ -T < q * T /\ q * T < T
  BY <1>1, <1>2, Zenon DEF T
<1>4. q = 0
  BY <1>3, SMT
<1> QED BY <1>3, <1>4, SMT

LEMMA WrappedFacts ==
  ASSUME NEW half \in Nat \ {0}, NEW n \in Int
  PROVE  /\ StandsFor(Metrics!Wrapped(n, half), n, half)
         /\ InRange(n, half) => Metrics!Wrapped(n, half) = n
<1>1. half \in Nat /\ half >= 1 /\ Turn(half) \in Nat /\ Turn(half) = 2 * half
  BY HalfFacts
<1> DEFINE T == Turn(half)
           w == ((n + half) % T) - half
<1> HIDE DEF T
<1>2. T \in Nat \ {0} /\ T = 2 * half
  BY <1>1, SMT DEF T
<1>3. /\ (n + half) % T \in Int /\ 0 <= (n + half) % T /\ (n + half) % T < T
      /\ n + half = T * ((n + half) \div T) + ((n + half) % T)
      /\ (n + half) \div T \in Int
  BY <1>1, <1>2, SMT
<1>4. w \in Int /\ InRange(w, half)
  BY <1>1, <1>2, <1>3, SMT DEF InRange
<1>5. PICK q \in Int : q = (n + half) \div T
  BY <1>3, Zenon
<1>6. n - w = q * T
  BY <1>1, <1>2, <1>3, <1>5, SMT
<1>7. Metrics!Wrapped(n, half) = w
  BY <1>2, Zenon DEF Metrics!Wrapped
<1> HIDE DEF w
<1>8. StandsFor(w, n, half)
  BY <1>4, <1>6, Zenon DEF StandsFor, Away, T
<1>9. ASSUME InRange(n, half) PROVE w = n
  <2>1. -T < n - w /\ n - w < T
    BY <1>1, <1>2, <1>4, <1>9, SMT DEF InRange
  <2>2. n = w
    BY <2>1, <1>4, <1>8, SameTurn DEF StandsFor, T
  <2> QED BY <2>2
<1> QED BY <1>7, <1>8, <1>9, Zenon

\* A counter that counts on.
LEMMA CountsOn ==
  ASSUME NEW half \in Nat \ {0}, NEW counter, NEW n \in Int, StandsFor(counter, n, half), NEW more \in Int
  PROVE  StandsFor(Metrics!Wrapped(counter + more, half), n + more, half)
<1>1. counter \in Int /\ counter + more \in Int /\ n + more \in Int
  BY SMT DEF StandsFor
<1>2. Away(n + more, counter + more, half)
  BY <1>1, AwayFacts, Zenon DEF StandsFor
<1>3. /\ Metrics!Wrapped(counter + more, half) \in Int /\ InRange(Metrics!Wrapped(counter + more, half), half)
      /\ Away(counter + more, Metrics!Wrapped(counter + more, half), half)
  BY <1>1, WrappedFacts, Zenon DEF StandsFor
<1> QED BY <1>1, <1>2, <1>3, AwayFacts, Zenon DEF StandsFor

\* It tells the number, up to whole turns, and exactly while there is no turn.
LEMMA CounterTells ==
  ASSUME NEW half \in Nat \ {0}, NEW counter, NEW n \in Nat, StandsFor(counter, n, half)
  PROVE  SameCount(n, counter, half)
<1>1. counter \in Int /\ Away(n, counter, half) /\ n \in Int
  BY Zenon, SMT DEF StandsFor
<1>2. (n - counter) % (2 * half) = 0
  BY <1>1, AwayFacts, Zenon
<1>3. ASSUME n < half PROVE n = counter
  <2>1. -Turn(half) < n - counter /\ n - counter < Turn(half)
    BY <1>1, <1>3, HalfFacts, SMT DEF StandsFor, InRange
  <2> QED BY <1>1, <2>1, SameTurn
<1> QED BY <1>2, <1>3, Zenon DEF SameCount

\* The rate since a report and the rates before it.  reported is what the reports up
\* to the last add up to, last the counter then, and n the number it stood for.
Reported(last, reported, m) ==
    /\ m \in Nat /\ StandsFor(last, m, Half)
    /\ reported \in Int /\ Away(m, reported, Half) /\ (m < Half => m = reported)

LEMMA RatesAddUp ==
  ASSUME NEW m, NEW last, NEW reported, Reported(last, reported, m),
         NEW n \in Nat, m <= n, NEW counter, StandsFor(counter, n, Half),
         NEW rate \in Metrics!Rates(counter, last)
  PROVE  /\ SameCount(n, reported + rate, Half)
         /\ rate \in Int
         /\ Away(n, reported + rate, Half) /\ (n < Half => n = reported + rate)
<1>1. /\ m \in Int /\ n \in Int /\ counter \in Int /\ last \in Int /\ reported \in Int
      /\ Away(m, last, Half) /\ Away(m, reported, Half) /\ Away(n, counter, Half)
      /\ counter - last \in Int
  BY SMT DEF Reported, StandsFor
<1>2. rate \in Int /\ Away(counter - last, rate, Half)
  <2>1. CASE rate = counter - last
    BY <2>1, <1>1, AwayFacts, HalfAssumption, Zenon
  <2>2. CASE rate = Metrics!Wrapped(counter - last, Half)
    BY <2>2, <1>1, WrappedFacts, HalfAssumption, Zenon DEF StandsFor
  <2> QED BY <2>1, <2>2, Zenon DEF Metrics!Rates
<1>3. Away(n, reported + rate, Half)
  <2>1. PICK a \in Int, b \in Int, c \in Int, d \in Int :
          /\ m - last = a * Turn(Half) /\ m - reported = b * Turn(Half)
          /\ n - counter = c * Turn(Half) /\ (counter - last) - rate = d * Turn(Half)
    BY <1>1, <1>2, Zenon DEF Away
  <2> DEFINE T == Turn(Half)
  <2>2. T \in Nat
    BY HalfFacts, HalfAssumption
  <2> HIDE DEF T
  <2>3. /\ m - last = a * T /\ m - reported = b * T
        /\ n - counter = c * T /\ (counter - last) - rate = d * T
    BY <2>1, Zenon DEF T
  <2>4. n - (reported + rate) = (((c + d) - a) + b) * T /\ ((c + d) - a) + b \in Int
    BY <1>1, <1>2, <2>2, <2>3, SMT
  <2> QED BY <2>4, Zenon DEF Away, T
<1>4. ASSUME n < Half PROVE n = reported + rate
  <2>1. m < Half /\ Half \in Nat /\ m \in Nat
    BY <1>4, HalfFacts, HalfAssumption, SMT DEF Reported
  <2>2. m = reported
    BY <2>1, Zenon DEF Reported
  <2>3. n = counter /\ m = last
    BY <2>1, <1>4, CounterTells, HalfAssumption, Zenon DEF SameCount, Reported
  <2>4. counter - last = n - m /\ InRange(counter - last, Half)
    BY <2>1, <2>3, <1>4, SMT DEF InRange
  <2>5. rate = n - m
    <3>1. Metrics!Wrapped(counter - last, Half) = counter - last
      BY <1>1, <2>4, WrappedFacts, HalfAssumption
    <3> QED BY <3>1, <2>4, Zenon DEF Metrics!Rates
  <2> QED BY <2>2, <2>5, <1>1, SMT
<1>5. (n - (reported + rate)) % (2 * Half) = 0
  <2>1. reported + rate \in Int
    BY <1>1, <1>2, SMT
  <2> QED BY <2>1, <1>1, <1>3, AwayFacts, HalfAssumption, Zenon
<1> QED BY <1>2, <1>3, <1>4, <1>5, Zenon DEF SameCount

-------------------------------------------------------------------------------
(***************************************************************************)
(* What the scores add up to.                                              *)
(***************************************************************************)
\* The recursive function that defines the sum of f, on the subsets of D up to a size.
Sums(f, D, n, sum) ==
    \A s \in SUBSET D : Cardinality(s) <= n =>
        sum[s] = IF s = {} THEN 0
                 ELSE f[CHOOSE x \in s : TRUE] + sum[s \ {CHOOSE x \in s : TRUE}]

\* One element taken away.
LEMMA OneFewer ==
  ASSUME NEW D, IsFiniteSet(D), NEW s \in SUBSET D, s # {}, NEW x \in s
  PROVE  /\ s \ {x} \in SUBSET D
         /\ Cardinality(s) \in Nat /\ Cardinality(s) # 0
         /\ Cardinality(s \ {x}) = Cardinality(s) - 1
<1>1. IsFiniteSet(s)
  BY FS_Subset
<1> QED BY <1>1, FS_CardinalityType, FS_RemoveElement, FS_EmptySet, Zenon

\* It exists, by induction on the size.
LEMMA SumsExist ==
  ASSUME NEW f, NEW D, IsFiniteSet(D), NEW n \in Nat
  PROVE  \E sum : sum = [s \in SUBSET D |-> sum[s]] /\ Sums(f, D, n, sum)
<1> DEFINE Is(sum) == sum = [s \in SUBSET D |-> sum[s]]
           T == {k \in Nat : \E sum : Is(sum) /\ Sums(f, D, k, sum)}
<1>c. \A s \in SUBSET D : Cardinality(s) \in Nat /\ (Cardinality(s) = 0 <=> s = {})
  BY FS_Subset, FS_CardinalityType, FS_EmptySet, Zenon
<1>1. 0 \in T
  <2>1. PICK g : g = [s \in SUBSET D |-> 0]
    OBVIOUS
  <2>2. Is(g)
    BY <2>1
  <2>3. Sums(f, D, 0, g)
    <3>1. \A s \in SUBSET D : Cardinality(s) <= 0 => s = {}
      BY <1>c, SMT
    <3> QED BY <3>1, <2>1 DEF Sums
  <2> QED BY <2>2, <2>3
<1>2. ASSUME NEW k \in T PROVE k + 1 \in T
  <2>1. PICK g : Is(g) /\ Sums(f, D, k, g)
    OBVIOUS
  <2> DEFINE x(s) == CHOOSE y \in s : TRUE
  <2>2. PICK h : h = [s \in SUBSET D |->
                        IF Cardinality(s) <= k THEN g[s] ELSE f[x(s)] + g[s \ {x(s)}]]
    OBVIOUS
  <2>3. Is(h)
    BY <2>2
  <2>4. ASSUME NEW s \in SUBSET D, Cardinality(s) <= k + 1
        PROVE  h[s] = IF s = {} THEN 0 ELSE f[x(s)] + h[s \ {x(s)}]
    <3>k. k \in Nat
      OBVIOUS
    <3>1. CASE s = {}
      <4>1. Cardinality(s) <= k
        BY <3>1, <3>k, <1>c, SMT
      <4>2. h[s] = g[s]
        BY <4>1, <2>2
      <4> QED BY <3>1, <4>1, <4>2, <2>1, Zenon DEF Sums
    <3>2. CASE s # {}
      <4> DEFINE r == s \ {x(s)}
      <4>1. x(s) \in s
        BY <3>2
      <4>2. r \in SUBSET D /\ Cardinality(r) = Cardinality(s) - 1 /\ Cardinality(s) \in Nat
        BY <4>1, <3>2, OneFewer
      <4>3. Cardinality(r) <= k
        <5> HIDE DEF r
        <5> QED BY <4>2, <2>4, <3>k, SMT
      <4>4. h[r] = g[r]
        BY <4>2, <4>3, <2>2
      <4>5. CASE Cardinality(s) <= k
        <5>1. h[s] = g[s]
          BY <4>5, <2>2
        <5>2. g[s] = f[x(s)] + g[r]
          BY <4>5, <3>2, <2>1, Zenon DEF Sums
        <5> QED BY <5>1, <5>2, <4>4, <3>2, Zenon
      <4>6. CASE ~(Cardinality(s) <= k)
        <5>1. h[s] = f[x(s)] + g[r]
          BY <4>6, <2>2
        <5> QED BY <5>1, <4>4, <3>2, Zenon
      <4> QED BY <4>5, <4>6
    <3> QED BY <3>1, <3>2
  <2>5. Sums(f, D, k + 1, h)
    BY <2>4, Zenon DEF Sums
  <2>6. k + 1 \in Nat
    OBVIOUS
  <2> QED BY <2>3, <2>5, <2>6
<1> HIDE DEF T
<1>3. T = Nat
  <2>1. T \subseteq Nat
    BY DEF T
  <2> QED BY <1>1, <1>2, <2>1, Induction
<1> QED BY <1>3 DEF T

\* The sum of f over D, by any function that adds one element after another.
Adds(f, D, sum) ==
    \A s \in SUBSET D :
        sum[s] = IF s = {} THEN 0
                 ELSE f[CHOOSE x \in s : TRUE] + sum[s \ {CHOOSE x \in s : TRUE}]

\* The sum that the library defines is such a one.
LEMMA SumSteps ==
  ASSUME NEW f, IsFiniteSet(DOMAIN f)
  PROVE  \E sum : Adds(f, DOMAIN f, sum) /\ SumFunction(f) = sum[DOMAIN f]
<1> DEFINE D == DOMAIN f
           It(sum) == sum = [s \in SUBSET D |->
                        IF s = {} THEN 0
                        ELSE f[CHOOSE x \in s : TRUE] + sum[s \ {CHOOSE x \in s : TRUE}]]
<1>1. \E sum : It(sum)
  <2>1. PICK n \in Nat : n = Cardinality(D)
    BY FS_CardinalityType
  <2>2. PICK sum : sum = [s \in SUBSET D |-> sum[s]] /\ Sums(f, D, n, sum)
    BY SumsExist
  <2>3. \A s \in SUBSET D : Cardinality(s) <= n
    BY <2>1, FS_Subset
  <2>4. \A s \in SUBSET D :
           sum[s] = IF s = {} THEN 0
                    ELSE f[CHOOSE x \in s : TRUE] + sum[s \ {CHOOSE x \in s : TRUE}]
    BY <2>2, <2>3, Zenon DEF Sums
  <2> DEFINE rhs(s) == IF s = {} THEN 0
                       ELSE f[CHOOSE x \in s : TRUE] + sum[s \ {CHOOSE x \in s : TRUE}]
  <2>5. \A s \in SUBSET D : sum[s] = rhs(s)
    BY <2>4, Zenon
  <2>6. [s \in SUBSET D |-> sum[s]] = [s \in SUBSET D |-> rhs(s)]
    <3> HIDE DEF rhs
    <3> QED BY <2>5
  <2>7. It(sum)
    BY <2>2, <2>6, Zenon
  <2> QED BY <2>7, Zenon
<1>2. PICK sum : sum = CHOOSE g : It(g)
  OBVIOUS
<1>3. It(sum)
  BY <1>1, <1>2, Zenon
<1>4. SumFunction(f) = sum[D]
  BY <1>2, Zenon DEF SumFunction, SumFunctionOnSet, FoldFunctionOnSet, MapThenFoldSet
<1>5. Adds(f, D, sum)
  BY <1>3, Zenon DEF Adds
<1> QED BY <1>4, <1>5, Zenon

\* It is a number.
LEMMA AddsInt ==
  ASSUME NEW D, IsFiniteSet(D), NEW f, \A p \in D : f[p] \in Int,
         NEW sum, Adds(f, D, sum)
  PROVE  sum[D] \in Int
<1> DEFINE T == {k \in Nat : \A s \in SUBSET D : Cardinality(s) = k => sum[s] \in Int}
<1>c. \A s \in SUBSET D : Cardinality(s) \in Nat /\ (Cardinality(s) = 0 <=> s = {})
  BY FS_Subset, FS_CardinalityType, FS_EmptySet, Zenon
<1>0. 0 \in T
  <2>1. \A s \in SUBSET D : Cardinality(s) = 0 => sum[s] = 0
    BY <1>c, Zenon DEF Adds
  <2> QED BY <2>1
<1>1. ASSUME NEW k \in T PROVE k + 1 \in T
  <2>k. k \in Nat /\ k + 1 \in Nat /\ k + 1 # 0
    OBVIOUS
  <2>1. ASSUME NEW s \in SUBSET D, Cardinality(s) = k + 1 PROVE sum[s] \in Int
    <3> DEFINE x == CHOOSE y \in s : TRUE
               r == s \ {x}
    <3>1. s # {} /\ x \in s /\ x \in D
      BY <1>c, <2>1, <2>k
    <3>2. r \in SUBSET D /\ Cardinality(r) = Cardinality(s) - 1
      BY <3>1, OneFewer
    <3>3. sum[s] = f[x] + sum[r]
      BY <3>1, Zenon DEF Adds
    <3> HIDE DEF r
    <3>4. Cardinality(r) = k
      BY <3>2, <2>1, <2>k, SMT
    <3>5. sum[r] \in Int
      BY <3>2, <3>4
    <3> HIDE DEF x
    <3>6. f[x] \in Int
      BY <3>1
    <3> QED BY <3>3, <3>5, <3>6, SMT
  <2> QED BY <2>k, <2>1
<1> HIDE DEF T
<1>2. T = Nat
  <2>1. T \subseteq Nat
    BY DEF T
  <2> QED BY <1>0, <1>1, <2>1, Induction
<1>3. Cardinality(D) \in T
  BY <1>2, FS_CardinalityType
<1> QED BY <1>3 DEF T

\* One element with one more makes the sum one more.
LEMMA AddsMore ==
  ASSUME NEW D, IsFiniteSet(D), NEW p \in D, NEW f, NEW g,
         \A x \in D : f[x] \in Int,
         \A x \in D : g[x] = IF x = p THEN f[x] + 1 ELSE f[x],
         NEW sum, Adds(f, D, sum), NEW more, Adds(g, D, more)
  PROVE  more[D] = sum[D] + 1
<1> DEFINE Right(s) == sum[s] \in Int /\ more[s] = IF p \in s THEN sum[s] + 1 ELSE sum[s]
           T == {k \in Nat : \A s \in SUBSET D : Cardinality(s) = k => Right(s)}
<1>c. \A s \in SUBSET D : Cardinality(s) \in Nat /\ (Cardinality(s) = 0 <=> s = {})
  BY FS_Subset, FS_CardinalityType, FS_EmptySet, Zenon
<1>0. 0 \in T
  <2>1. \A s \in SUBSET D : Cardinality(s) = 0 => s = {} /\ sum[s] = 0 /\ more[s] = 0
    BY <1>c, Zenon DEF Adds
  <2> QED BY <2>1
<1>1. ASSUME NEW k \in T PROVE k + 1 \in T
  <2>k. k \in Nat /\ k + 1 \in Nat /\ k + 1 # 0
    OBVIOUS
  <2>1. ASSUME NEW s \in SUBSET D, Cardinality(s) = k + 1 PROVE Right(s)
    <3> DEFINE x == CHOOSE y \in s : TRUE
               r == s \ {x}
    <3>1. s # {} /\ x \in s /\ x \in D
      BY <1>c, <2>1, <2>k
    <3>2. r \in SUBSET D /\ Cardinality(r) = Cardinality(s) - 1
      BY <3>1, OneFewer
    <3>3. sum[s] = f[x] + sum[r] /\ more[s] = g[x] + more[r]
      BY <3>1, Zenon DEF Adds
    <3>p. p \in r <=> p \in s /\ p # x
      OBVIOUS
    <3> HIDE DEF r
    <3>4. Cardinality(r) = k
      BY <3>2, <2>1, <2>k, SMT
    <3>5. Right(r)
      BY <3>2, <3>4
    <3> HIDE DEF x
    <3>6. f[x] \in Int /\ g[x] = IF x = p THEN f[x] + 1 ELSE f[x]
      BY <3>1
    <3>7. sum[s] \in Int
      BY <3>3, <3>5, <3>6, SMT
    <3>8. CASE x = p
      BY <3>1, <3>3, <3>5, <3>6, <3>7, <3>8, <3>p, SMT
    <3>9. CASE x # p
      BY <3>3, <3>5, <3>6, <3>7, <3>9, <3>p, SMT
    <3> QED BY <3>8, <3>9
  <2> QED BY <2>k, <2>1
<1> HIDE DEF T
<1>2. T = Nat
  <2>1. T \subseteq Nat
    BY DEF T
  <2> QED BY <1>0, <1>1, <2>1, Induction
<1>3. Cardinality(D) \in T
  BY <1>2, FS_CardinalityType
<1> QED BY <1>3 DEF T

\* The sum of zeros is zero.
LEMMA AddsNothing ==
  ASSUME NEW D, IsFiniteSet(D), NEW f, \A x \in D : f[x] = 0, NEW sum, Adds(f, D, sum)
  PROVE  sum[D] = 0
<1> DEFINE T == {k \in Nat : \A s \in SUBSET D : Cardinality(s) = k => sum[s] = 0}
<1>c. \A s \in SUBSET D : Cardinality(s) \in Nat /\ (Cardinality(s) = 0 <=> s = {})
  BY FS_Subset, FS_CardinalityType, FS_EmptySet, Zenon
<1>0. 0 \in T
  <2>1. \A s \in SUBSET D : Cardinality(s) = 0 => sum[s] = 0
    BY <1>c, Zenon DEF Adds
  <2> QED BY <2>1
<1>1. ASSUME NEW k \in T PROVE k + 1 \in T
  <2>k. k \in Nat /\ k + 1 \in Nat /\ k + 1 # 0
    OBVIOUS
  <2>1. ASSUME NEW s \in SUBSET D, Cardinality(s) = k + 1 PROVE sum[s] = 0
    <3> DEFINE x == CHOOSE y \in s : TRUE
               r == s \ {x}
    <3>1. s # {} /\ x \in s /\ x \in D
      BY <1>c, <2>1, <2>k
    <3>2. r \in SUBSET D /\ Cardinality(r) = Cardinality(s) - 1
      BY <3>1, OneFewer
    <3>3. sum[s] = f[x] + sum[r]
      BY <3>1, Zenon DEF Adds
    <3> HIDE DEF r
    <3>4. Cardinality(r) = k
      BY <3>2, <2>1, <2>k, SMT
    <3>5. sum[r] = 0
      BY <3>2, <3>4
    <3> HIDE DEF x
    <3>6. f[x] = 0
      BY <3>1
    <3> QED BY <3>3, <3>5, <3>6, SMT
  <2> QED BY <2>k, <2>1
<1> HIDE DEF T
<1>2. T = Nat
  <2>1. T \subseteq Nat
    BY DEF T
  <2> QED BY <1>0, <1>1, <2>1, Induction
<1>3. Cardinality(D) \in T
  BY <1>2, FS_CardinalityType
<1> QED BY <1>3 DEF T

\* What the operators of the library give for the scores.
SumIs(f, n) == SumFunction(f) = n

LEMMA SumZero ==
  ASSUME NEW D, IsFiniteSet(D)
  PROVE  SumIs([p \in D |-> 0], 0)
<1> DEFINE f == [p \in D |-> 0]
<1>1. DOMAIN f = D /\ \A x \in D : f[x] = 0
  OBVIOUS
<1> HIDE DEF f
<1>2. PICK sum : Adds(f, DOMAIN f, sum) /\ SumFunction(f) = sum[DOMAIN f]
  BY <1>1, SumSteps
<1>3. sum[D] = 0
  BY <1>1, <1>2, AddsNothing
<1> QED BY <1>1, <1>2, <1>3, Zenon DEF SumIs, f

LEMMA SumInt ==
  ASSUME NEW D, IsFiniteSet(D), NEW f \in [D -> Int]
  PROVE  SumFunction(f) \in Int
<1>1. DOMAIN f = D /\ \A x \in D : f[x] \in Int
  OBVIOUS
<1>2. PICK sum : Adds(f, DOMAIN f, sum) /\ SumFunction(f) = sum[DOMAIN f]
  BY <1>1, SumSteps
<1>3. sum[D] \in Int
  BY <1>1, <1>2, AddsInt
<1> QED BY <1>1, <1>2, <1>3, Zenon

LEMMA SumMore ==
  ASSUME NEW D, IsFiniteSet(D), NEW f \in [D -> Int], NEW p \in D
  PROVE  SumIs([f EXCEPT ![p] = @ + 1], SumFunction(f) + 1)
<1> DEFINE g == [f EXCEPT ![p] = @ + 1]
<1>1. DOMAIN f = D /\ \A x \in D : f[x] \in Int
  OBVIOUS
<1>g. DOMAIN g = D /\ \A x \in D : g[x] = IF x = p THEN f[x] + 1 ELSE f[x]
  OBVIOUS
<1> HIDE DEF g
<1>2. PICK sum : Adds(f, DOMAIN f, sum) /\ SumFunction(f) = sum[DOMAIN f]
  BY <1>1, SumSteps
<1>3. PICK more : Adds(g, DOMAIN g, more) /\ SumFunction(g) = more[DOMAIN g]
  BY <1>g, SumSteps
<1>4. more[D] = sum[D] + 1
  BY <1>1, <1>g, <1>2, <1>3, AddsMore
<1> QED BY <1>1, <1>g, <1>2, <1>3, <1>4, Zenon DEF SumIs, g

-------------------------------------------------------------------------------
(***************************************************************************)
(* The messages of one kind, and what the heartbeats tell.                 *)
(***************************************************************************)
\* The messages of one kind, one more.
KindAppended(ms, m, type) ==
  OfType(Append(ms, m), type) =
     IF m.msg_id = Ids[type] THEN Append(OfType(ms, type), m) ELSE OfType(ms, type)

\* The messages of one kind, one message later.
LEMMA KindAppends ==
  ASSUME NEW ms \in Seq(Message), NEW m \in Message, NEW type
  PROVE  KindAppended(ms, m, type)
<1>1. PICK t : t = Append(ms, m)
  OBVIOUS
<1>2. /\ t \in Seq(Message) /\ Len(t) = Len(ms) + 1 /\ t[Len(ms) + 1] = m
      /\ \A k \in 1..Len(ms) : t[k] = ms[k]
      /\ DOMAIN ms = 1..Len(ms) /\ DOMAIN t = 1..Len(t) /\ Len(ms) \in Nat
  BY <1>1, AppendProperties, LenProperties
<1> DEFINE I == {i \in DOMAIN ms : ms[i].msg_id = Ids[type]}
           J == {i \in DOMAIN t : t[i].msg_id = Ids[type]}
<1>3. /\ \A k \in 1..Len(ms) : k \in 1..Len(t) /\ k # Len(ms) + 1
      /\ Len(ms) + 1 \in 1..Len(t)
  BY <1>2, SMT
<1>4. /\ \A k \in 1..Len(ms) : k \in I <=> k \in J
      /\ Len(ms) + 1 \in J <=> m.msg_id = Ids[type]
  BY <1>2, <1>3, Zenon
<1> HIDE DEF I, J
<1>5. Selected(Append(ms, m), J) =
         IF Len(ms) + 1 \in J THEN Append(Selected(ms, I), m) ELSE Selected(ms, I)
  BY <1>4, SelectedAppend
<1> QED BY <1>1, <1>4, <1>5, Zenon DEF KindAppended, OfType, I, J

LEMMA KindType ==
  ASSUME NEW ms \in Seq(Message), NEW type
  PROVE  OfType(ms, type) \in Seq(Message) /\ Len(OfType(ms, type)) \in Nat
<1>1. OfType(ms, type) \in Seq(Message)
  BY SelectedType DEF OfType
<1> QED BY <1>1, LenProperties

LEMMA NoneOfKind ==
  ASSUME NEW type
  PROVE  OfType(<<>>, type) = <<>>
BY SelectedEmpty DEF OfType

-------------------------------------------------------------------------------
\* The round trip that a heartbeat tells is a number, whatever its bytes.
LEMMA RttType ==
  ASSUME NEW body \in Seq(Byte)
  PROVE  Parse(HeartbeatReqFields, body).last_rtt_ms \in Int
<1>1. DOMAIN HeartbeatReqFields = 1..2
  BY DEF HeartbeatReqFields
<1>2. HeartbeatReqFields[1] = Int64("client_time_ms") /\ HeartbeatReqFields[2] = Int64("last_rtt_ms")
  BY DEF HeartbeatReqFields
<1>3. /\ HeartbeatReqFields[1].name = "client_time_ms" /\ HeartbeatReqFields[2].name = "last_rtt_ms"
      /\ HeartbeatReqFields[2].kind = "int"
  BY <1>2 DEF Int64
<1>4. 1 \in 1..2 /\ 2 \in 1..2 /\ \A n \in 1..2 : n = 1 \/ n = 2
  BY SMT
<1>5. "last_rtt_ms" \in Names(HeartbeatReqFields)
  BY <1>1, <1>3, <1>4, Zenon DEF Names
<1>6. NumberOf(HeartbeatReqFields, "last_rtt_ms") = 2
  <2>1. \A n \in DOMAIN HeartbeatReqFields : HeartbeatReqFields[n].name = "last_rtt_ms" <=> n = 2
    BY <1>1, <1>3, <1>4
  <2>2. 2 \in DOMAIN HeartbeatReqFields
    BY <1>1, <1>4
  <2> QED BY <2>1, <2>2 DEF NumberOf
<1>7. Field(HeartbeatReqFields, "last_rtt_ms").kind = "int"
  BY <1>3, <1>6, Zenon DEF Field
<1>8. Parse(HeartbeatReqFields, body)["last_rtt_ms"] \in Int64s
  BY <1>5, <1>7, NumberType
<1> QED BY <1>8 DEF Int64s

\* The measured round trips, after one more message.
LEMMA ToldType ==
  ASSUME NEW ms \in Seq(Message)
  PROVE  LET beats == OfType(ms, "HeartbeatReq")
             told == [k \in DOMAIN beats |-> Parse(HeartbeatReqFields, beats[k].body).last_rtt_ms]
         IN  told \in Seq(Int) /\ Len(told) = Len(beats)
<1> DEFINE beats == OfType(ms, "HeartbeatReq")
<1>1. beats \in Seq(Message) /\ Len(beats) \in Nat
  BY KindType
<1> HIDE DEF beats
<1>2. DOMAIN beats = 1..Len(beats) /\ \A k \in 1..Len(beats) : beats[k].body \in Seq(Byte)
  <2>1. \A k \in 1..Len(beats) : beats[k] \in Message
    BY <1>1, ElementOfSeq
  <2>2. \A k \in 1..Len(beats) : beats[k].body \in Seq(Byte)
    BY <2>1, MessageParts
  <2> QED BY <1>1, <2>2, LenProperties
<1> DEFINE rtt(k) == Parse(HeartbeatReqFields, beats[k].body).last_rtt_ms
<1>3. \A k \in 1..Len(beats) : rtt(k) \in Int
  BY <1>2, RttType
<1> HIDE DEF rtt
<1>4. /\ [k \in 1..Len(beats) |-> rtt(k)] \in Seq(Int)
      /\ Len([k \in 1..Len(beats) |-> rtt(k)]) = Len(beats)
  BY <1>1, <1>3
<1> QED BY <1>2, <1>4, Zenon DEF rtt, beats

ToldBy(ms) ==
  LET beats == OfType(ms, "HeartbeatReq")
  IN  [k \in DOMAIN beats |-> Parse(HeartbeatReqFields, beats[k].body).last_rtt_ms]
Positive(s) == Selected(s, {k \in DOMAIN s : s[k] > 0})

\* The positive numbers, one number later.
LEMMA PositiveAppend ==
  ASSUME NEW s \in Seq(Int), NEW rtt \in Int
  PROVE  /\ Positive(s) \in Seq(Int)
         /\ Positive(Append(s, rtt)) = IF rtt > 0 THEN Append(Positive(s), rtt) ELSE Positive(s)
<1>1. PICK t : t = Append(s, rtt)
  OBVIOUS
<1>2. /\ t \in Seq(Int) /\ Len(t) = Len(s) + 1 /\ t[Len(s) + 1] = rtt
      /\ \A k \in 1..Len(s) : t[k] = s[k]
      /\ DOMAIN s = 1..Len(s) /\ DOMAIN t = 1..Len(t) /\ Len(s) \in Nat
  BY <1>1, AppendProperties, LenProperties
<1> DEFINE I == {i \in DOMAIN s : s[i] > 0}
           J == {i \in DOMAIN t : t[i] > 0}
<1>3. /\ \A k \in 1..Len(s) : k \in 1..Len(t) /\ k # Len(s) + 1
      /\ Len(s) + 1 \in 1..Len(t)
  BY <1>2, SMT
<1>4. /\ \A k \in 1..Len(s) : k \in I <=> k \in J
      /\ Len(s) + 1 \in J <=> rtt > 0
  BY <1>2, <1>3, Zenon
<1> HIDE DEF I, J
<1>5. Selected(Append(s, rtt), J) =
         IF Len(s) + 1 \in J THEN Append(Selected(s, I), rtt) ELSE Selected(s, I)
  BY <1>4, SelectedAppend
<1>6. Selected(s, I) \in Seq(Int)
  BY SelectedType
<1> QED BY <1>1, <1>4, <1>5, <1>6, Zenon DEF Positive, I, J

\* What the heartbeats have told, one more message later.
LEMMA ToldAppend ==
  ASSUME NEW ms \in Seq(Message), NEW m \in Message
  PROVE  /\ ToldBy(ms) \in Seq(Int)
         /\ ToldBy(Append(ms, m)) =
               IF m.msg_id = Ids["HeartbeatReq"]
               THEN Append(ToldBy(ms), Parse(HeartbeatReqFields, m.body).last_rtt_ms)
               ELSE ToldBy(ms)
<1> DEFINE beats == OfType(ms, "HeartbeatReq")
           rtt(b) == Parse(HeartbeatReqFields, b.body).last_rtt_ms
<1>1. ToldBy(ms) \in Seq(Int) /\ Len(ToldBy(ms)) = Len(beats)
  BY ToldType, Zenon DEF ToldBy
<1>2. OfType(Append(ms, m), "HeartbeatReq") =
        IF m.msg_id = Ids["HeartbeatReq"] THEN Append(beats, m) ELSE beats
  <2>1. KindAppended(ms, m, "HeartbeatReq")
    BY KindAppends
  <2> QED BY <2>1, Zenon DEF KindAppended
<1>3. CASE m.msg_id # Ids["HeartbeatReq"]
  BY <1>1, <1>2, <1>3, Zenon DEF ToldBy
<1>4. CASE m.msg_id = Ids["HeartbeatReq"]
  <2>1. PICK t : t = Append(beats, m)
    OBVIOUS
  <2>2. beats \in Seq(Message) /\ Len(beats) \in Nat
    BY KindType
  <2>3. /\ t \in Seq(Message) /\ Len(t) = Len(beats) + 1 /\ t[Len(beats) + 1] = m
        /\ \A k \in 1..Len(beats) : t[k] = beats[k]
        /\ DOMAIN beats = 1..Len(beats) /\ DOMAIN t = 1..Len(t)
    <3> HIDE DEF beats
    <3> QED BY <2>1, <2>2, AppendProperties, LenProperties
  <2>4. /\ ToldBy(Append(ms, m)) = [k \in 1..Len(t) |-> rtt(t[k])]
        /\ ToldBy(ms) = [k \in 1..Len(beats) |-> rtt(beats[k])]
    BY <1>2, <1>4, <2>1, <2>3, Zenon DEF ToldBy
  <2>5. \A k \in 1..Len(beats) : k \in 1..Len(t)
    BY <2>2, <2>3, SMT
  <2>e. m.body \in Seq(Byte)
    BY MessageParts
  <2>f. rtt(m) \in Int
    BY <2>e, RttType
  <2> HIDE DEF beats
  <2>b. \A k \in 1..Len(t) : rtt(t[k]) \in Int
    <3>1. \A k \in 1..Len(t) : t[k] \in Message
      BY <2>3, ElementOfSeq
    <3>2. \A k \in 1..Len(t) : t[k].body \in Seq(Byte)
      BY <3>1, MessageParts
    <3> QED BY <3>2, RttType
  <2> HIDE DEF rtt
  <2>6. PICK u : u = [k \in 1..Len(t) |-> rtt(t[k])]
    OBVIOUS
  <2>7. u \in Seq(Int) /\ Len(u) = Len(t) /\ \A k \in 1..Len(t) : u[k] = rtt(t[k])
    BY <2>2, <2>3, <2>6, <2>b
  <2>8. PICK a : a = Append(ToldBy(ms), rtt(m))
    OBVIOUS
  <2>9. /\ a \in Seq(Int) /\ Len(a) = Len(beats) + 1 /\ a[Len(beats) + 1] = rtt(m)
        /\ \A k \in 1..Len(beats) : a[k] = ToldBy(ms)[k]
    BY <2>8, <2>f, <1>1, AppendProperties
  <2>10. \A k \in 1..Len(beats) : ToldBy(ms)[k] = rtt(beats[k])
    BY <2>4, Zenon
  <2>11. ASSUME NEW k \in 1..Len(u) PROVE u[k] = a[k]
    <3>1. k \in 1..Len(beats) \/ k = Len(beats) + 1
      BY <2>2, <2>3, <2>7, SMT
    <3>2. CASE k \in 1..Len(beats)
      BY <3>2, <2>3, <2>5, <2>7, <2>9, <2>10, Zenon
    <3>3. CASE k = Len(beats) + 1
      BY <3>3, <2>3, <2>7, <2>9, Zenon
    <3> QED BY <3>1, <3>2, <3>3
  <2>12. u = a
    BY <2>3, <2>7, <2>9, <2>11, SeqEqual
  <2> QED BY <1>1, <1>4, <2>4, <2>6, <2>8, <2>12, Zenon DEF rtt
<1> QED BY <1>3, <1>4

-------------------------------------------------------------------------------
(***************************************************************************)
(* The counters, and what has been reported of them.                       *)
(***************************************************************************)
KindCount(k, ms) == Len(OfType(ms, k)) + IF k = "ChatReq" THEN Chats ELSE 0

\* The numbers behind the average of the round trips s.
MeasuredBy(count, sum, s) ==
  /\ Len(s) \in Nat /\ Total(s) \in Nat
  /\ StandsFor(count, Len(s), HalfMs) /\ StandsFor(sum, Total(s), HalfMs)

CountInv ==
  /\ scores \in [Others \cup {Self} -> Int] /\ Chats \in Nat
  /\ StandsFor(total_recv_packets, Len(handled) + Chats, Half)
  /\ StandsFor(total_send_packets, Len(replies) + Chats, Half)
  /\ \E m : Reported(last_recv_packets, recv_reported, m) /\ m <= Len(handled) + Chats
  /\ \E m : Reported(last_send_packets, send_reported, m) /\ m <= Len(replies) + Chats
  /\ \A k \in Registered :
        StandsFor(req_count[k], Len(OfType(handled, k)) + IF k = "ChatReq" THEN Chats ELSE 0, Half)
  /\ MeasuredBy(heartbeat_rtt_count, total_heartbeat_rtt_ms, Measured)

LEMMA FewPlayers == IsFiniteSet(Others \cup {Self})
  BY OthersAssumption, FS_AddElement, FS_Singleton, FS_Union

LEMMA MeasuredIs == Measured = Positive(ToldBy(handled))
  BY Zenon DEF Measured, Told, Positive, ToldBy

\* What the counters need to know of the bytes and the messages: also when the client
\* or the server writes only part of a packet and the next one is read at the wrong
\* place, the server reads bytes and takes messages out of them.
CountTypes ==
  /\ up \in Seq(Byte) /\ taken \in 0..Len(up)
  /\ read_buffer \in Seq(Byte) /\ recv_buffer \in Seq(Byte)
  /\ handled \in Seq(Message) /\ \E S : replies \in Seq(S)

LEMMA InitTypes == ProtocolInit => CountTypes
<1>1. <<>> \in Seq(Byte) /\ <<>> \in Seq(Message) /\ 0 \in 0..Len(<<>>)
  BY SMT
<1> QED BY <1>1, Zenon DEF ProtocolInit, Init, CountTypes

LEMMA SendTypes ==
  ASSUME CountTypes, NEW m \in Requests, ClientSend(m)
  PROVE  CountTypes'
<1> DEFINE p == encode(m)
<1>1. p \in Seq(Byte) /\ Len(p) \in Nat
  BY RequestPacket
<1>2. up \in Seq(Byte) /\ taken \in 0..Len(up)
  BY DEF CountTypes
<1>3. PICK n \in 0..Len(p) : up' = up \o SubSeq(p, 1, n)
  <2>1. Written(p) \subseteq 0..Len(p) /\ Len(p) \in 0..Len(p)
    BY <1>1, SMT DEF Written
  <2> HIDE DEF p
  <2>2. PICK n \in IF m.msg_id = HeartbeatReqId THEN Written(p) ELSE {Len(p)} : up' = up \o SubSeq(p, 1, n)
    BY Zenon DEF ClientSend, p
  <2>3. n \in 0..Len(p)
    BY <2>1, <2>2
  <2> QED BY <2>2, <2>3
<1> HIDE DEF p
<1>4. SubSeq(p, 1, n) \in Seq(Byte)
  BY <1>1, SMT
<1>5. up' \in Seq(Byte) /\ Len(up') = Len(up) + Len(SubSeq(p, 1, n))
  BY <1>2, <1>3, <1>4, SeqFacts
<1>6. taken \in 0..Len(up')
  <2>1. Len(SubSeq(p, 1, n)) \in Nat /\ Len(up) \in Nat
    BY <1>2, <1>4, LenProperties
  <2> QED BY <1>2, <1>5, <2>1, SMT
<1>7. UNCHANGED <<taken, read_buffer, recv_buffer, handled, replies>>
  BY Zenon DEF ClientSend, reading_vars, writing_vars
<1> QED BY <1>5, <1>6, <1>7, Zenon DEF CountTypes

LEMMA ReadTypes ==
  ASSUME CountTypes, NEW n \in ReadSizes, ServerRead(n)
  PROVE  CountTypes'
<1>1. up \in Seq(Byte) /\ Len(up) \in Nat /\ taken \in Nat /\ taken < Len(up)
  BY SMT DEF CountTypes, ServerRead
<1>2. PICK m \in Nat : /\ m <= Len(up) - taken
                       /\ taken' = taken + m /\ read_buffer' = SubSeq(up, taken + 1, taken + m)
  <2>1. n \in Nat
    BY ReadsAssumption
  <2>2. Upto(n, Len(up) - taken) \in Nat /\ Upto(n, Len(up) - taken) <= Len(up) - taken
    BY <2>1, <1>1, SMT DEF Upto
  <2> QED BY <2>2, Zenon DEF ServerRead
<1>3. taken + m \in 0..Len(up)
  BY <1>1, <1>2, SMT
<1>4. SubSeq(up, taken + 1, taken + m) \in Seq(Byte)
  BY <1>1, <1>2, <1>3, SubSeqFacts, SMT
<1>5. UNCHANGED <<up, recv_buffer, handled, replies>>
  BY Zenon DEF ServerRead, writing_vars
<1> QED BY <1>2, <1>3, <1>4, <1>5, Zenon DEF CountTypes

LEMMA JoinTypes ==
  ASSUME CountTypes, OnRead
  PROVE  CountTypes'
<1>1. recv_buffer \o read_buffer \in Seq(Byte) /\ <<>> \in Seq(Byte)
  BY SMT DEF CountTypes
<1>2. /\ recv_buffer' = recv_buffer \o read_buffer /\ read_buffer' = <<>>
      /\ UNCHANGED <<up, taken, handled, replies>>
  BY Zenon DEF OnRead, Received, writing_vars
<1> QED BY <1>1, <1>2, Zenon DEF CountTypes

\* What is queued for a message: nothing, or an answer.
LEMMA AnswersAtMostOne ==
  ASSUME NEW m, NEW score, NEW ms \in Answers(m, score)
  PROVE  ms = <<>> \/ \E x : ms = <<x>>
<1>1. CASE m.msg_id = Ids["HeartbeatReq"]
  <2>0. Ids["HeartbeatReq"] # Ids["RankingReq"]
    BY SMT DEF Ids
  <2>1. ms \in HeartbeatAnswers(m.body)
    <3>1. m.msg_id # Ids["RankingReq"]
      BY <1>1, <2>0
    <3>2. Answers(m, score) = HeartbeatAnswers(m.body)
      BY <1>1, <3>1, Zenon DEF Answers
    <3> QED BY <3>2
  <2>2. PICK w : HeartbeatAnswers(m.body) = {<<w>>}
    BY Zenon DEF HeartbeatAnswers
  <2> QED BY <2>1, <2>2
<1>2. CASE m.msg_id # Ids["HeartbeatReq"] /\ m.msg_id = Ids["RankingReq"]
  BY <1>2 DEF Answers, RankingAnswers
<1>3. CASE m.msg_id # Ids["HeartbeatReq"] /\ m.msg_id # Ids["RankingReq"]
  BY <1>3 DEF Answers
<1> QED BY <1>1, <1>2, <1>3

\* One more of whatever it is.
LEMMA OneLonger ==
  ASSUME NEW S, NEW s \in Seq(S), NEW x
  PROVE  /\ s \o <<x>> \in Seq(S \cup {x}) /\ Len(s \o <<x>>) = Len(s) + 1
         /\ Len(s) \in Nat /\ Len(s) <= Len(s \o <<x>>)
<1>1. s \in Seq(S \cup {x}) /\ <<x>> \in Seq(S \cup {x}) /\ Len(<<x>>) = 1
  BY WiderSeq, SMT
<1>2. s \o <<x>> \in Seq(S \cup {x}) /\ Len(s \o <<x>>) = Len(s) + Len(<<x>>) /\ Len(s) \in Nat
  BY <1>1, SeqFacts, LenProperties
<1> QED BY <1>1, <1>2, SMT

\* What the answers to a message do to the history of what was sent.
LEMMA AnswersSent ==
  ASSUME CountTypes, Handle
  PROVE  /\ \E S : replies' \in Seq(S)
         /\ Len(replies) \in Nat /\ Len(replies') \in Nat /\ Len(replies) <= Len(replies')
<1>1. PICK ms : replies' = replies \o ms /\ (ms = <<>> \/ \E x : ms = <<x>>)
  <2>1. PICK ms \in Answers(Decoded(recv_buffer), scores) : replies' = replies \o ms
    BY Zenon DEF Handle
  <2>2. ms = <<>> \/ \E x : ms = <<x>>
    BY AnswersAtMostOne
  <2> QED BY <2>1, <2>2
<1>2. PICK S : replies \in Seq(S)
  BY DEF CountTypes
<1>3. CASE ms = <<>>
  <2>1. replies' = replies
    BY <1>1, <1>2, <1>3, ConcatEmptySeq
  <2>2. Len(replies) \in Nat
    BY <1>2, LenProperties
  <2>3. Len(replies) <= Len(replies)
    BY <2>2, SMT
  <2> QED BY <1>2, <2>1, <2>2, <2>3, Zenon
<1>4. ASSUME NEW x, ms = <<x>>
      PROVE  /\ \E T : replies' \in Seq(T)
             /\ Len(replies) \in Nat /\ Len(replies') \in Nat /\ Len(replies) <= Len(replies')
  <2>1. replies' = replies \o <<x>>
    BY <1>1, <1>4
  <2>2. replies' \in Seq(S \cup {x}) /\ Len(replies) \in Nat /\ Len(replies) <= Len(replies')
    BY <1>2, <2>1, OneLonger
  <2>3. Len(replies') \in Nat
    BY <2>2, LenProperties
  <2> QED BY <2>2, <2>3, Zenon
<1> QED BY <1>1, <1>3, <1>4, Zenon

LEMMA HandleTypes ==
  ASSUME CountTypes, Handle
  PROVE  CountTypes'
<1>1. recv_buffer \in Seq(Byte) /\ handled \in Seq(Message) /\ Complete(recv_buffer)
  BY Zenon DEF CountTypes, Handle, HandlePacket
<1>2. Decoded(recv_buffer) \in Message
  BY <1>1, DecodedType
<1>3. Append(handled, Decoded(recv_buffer)) \in Seq(Message)
  BY <1>1, <1>2, AppendProperties
<1>4. Remainder(recv_buffer) \in Seq(Byte)
  BY <1>1, DecodedType
<1>5. /\ handled' = Append(handled, Decoded(recv_buffer)) /\ recv_buffer' = Remainder(recv_buffer)
      /\ UNCHANGED <<up, taken, read_buffer>>
  BY Zenon DEF Handle, HandlePacket
<1>6. \E S : replies' \in Seq(S)
  BY AnswersSent
<1> QED BY <1>3, <1>4, <1>5, <1>6, Zenon DEF CountTypes

LEMMA ChatTypes ==
  ASSUME CountTypes, NEW p \in Others, NEW text \in Texts, Chat(p, text)
  PROVE  CountTypes'
<1>1. PICK S : replies \in Seq(S)
  BY DEF CountTypes
<1>2. replies \o <<ChatNotice(p, text)>> \in Seq(S \cup {ChatNotice(p, text)})
  BY <1>1, OneLonger
<1>3. /\ replies' = replies \o <<ChatNotice(p, text)>>
      /\ UNCHANGED <<up, taken, read_buffer, recv_buffer, handled>>
  BY Zenon DEF Chat, Notify, SendAll, reading_vars
<1> QED BY <1>2, <1>3, Zenon DEF CountTypes

LEMMA TypesInductive ==
  ASSUME CountTypes, [ProtocolNext]_protocol_vars
  PROVE  CountTypes'
<1>1. ASSUME UNCHANGED <<up, taken, read_buffer, recv_buffer, handled, replies>>
      PROVE  CountTypes'
  BY <1>1, Zenon DEF CountTypes
<1>2. CASE Transport
  <2>1. ASSUME NEW n \in ReadSizes, ServerRead(n) PROVE CountTypes'
    BY <2>1, ReadTypes
  <2>2. ASSUME NEW n \in ReadSizes, ClientRead(n) PROVE CountTypes'
    BY <2>2, <1>1, Zenon DEF ClientRead, reading_vars, writing_vars
  <2>3. CASE OnRead
    BY <2>3, JoinTypes
  <2>4. CASE OnWrite \/ OnWriteAborted \/ Close \/ ClientParse
    BY <2>4, <1>1, Zenon DEF OnWrite, OnWriteAborted, Close, ClientParse, reading_vars, writing_vars
  <2>5. CASE Writes
    BY <2>5, <1>1, Zenon DEF Writes, WriteTaken, reading_vars
  <2>6. ASSUME NEW m \in Requests, ClientSend(m) PROVE CountTypes'
    BY <2>6, SendTypes
  <2> QED BY <1>2, <2>1, <2>2, <2>3, <2>4, <2>5, <2>6, Zenon DEF Transport
<1>3. CASE Handle
  BY <1>3, HandleTypes
<1>4. ASSUME NEW p \in Others, NEW text \in Texts, Chat(p, text) PROVE CountTypes'
  BY <1>4, ChatTypes
<1>5. CASE Report \/ UNCHANGED protocol_vars
  BY <1>5, <1>1, Zenon DEF Report, protocol_vars, connection_vars, reading_vars, writing_vars
<1> QED BY <1>2, <1>3, <1>4, <1>5, Zenon DEF ProtocolNext

\* The counter of a kind stands for its requests.
LEMMA CountStands ==
  ASSUME CountTypes, CountInv, NEW k \in Registered
  PROVE  KindCount(k, handled) \in Nat /\ StandsFor(req_count[k], KindCount(k, handled), Half)
<1>1. handled \in Seq(Message)
  BY DEF CountTypes
<1>2. Len(OfType(handled, k)) \in Nat
  BY <1>1, KindType
<1>3. Chats \in Nat
  BY DEF CountInv
<1> DEFINE c == Chats
           l == Len(OfType(handled, k))
<1> HIDE DEF c, l
<1>4. l + (IF k = "ChatReq" THEN c ELSE 0) \in Nat
  <2>1. l \in Nat /\ c \in Nat
    BY <1>2, <1>3 DEF c, l
  <2>2. l + c \in Nat /\ l + 0 \in Nat
    BY <2>1, SMT
  <2> QED BY <2>2, Zenon
<1>5. KindCount(k, handled) \in Nat
  BY <1>4, Zenon DEF KindCount, c, l
<1> QED BY <1>5, Zenon DEF CountInv, KindCount

\* The counters as the packets are: what the metrics report is right.
LEMMA CountImplies == CountTypes /\ CountInv => PacketsCounted /\ AverageRtt
<1> SUFFICES ASSUME CountTypes, CountInv PROVE PacketsCounted /\ AverageRtt
  OBVIOUS
<1>1. Len(handled) \in Nat /\ Len(replies) \in Nat /\ Chats \in Nat
  BY LenProperties DEF CountTypes, CountInv
<1>2. PICK n \in Nat, r \in Nat : n = Len(handled) + Chats /\ r = Len(replies) + Chats
  <2>1. Len(handled) + Chats \in Nat /\ Len(replies) + Chats \in Nat
    BY <1>1, SMT
  <2> QED BY <2>1, Zenon
<1>3. ASSUME NEW rate \in Metrics!calc_recv_qps
      PROVE  SameCount(Len(handled) + Chats, recv_reported + rate, Half)
  <2>1. PICK m : Reported(last_recv_packets, recv_reported, m) /\ m <= n
    BY <1>2, Zenon DEF CountInv
  <2>2. StandsFor(total_recv_packets, n, Half) /\ rate \in Metrics!Rates(total_recv_packets, last_recv_packets)
    BY <1>2, Zenon DEF CountInv, Metrics!calc_recv_qps
  <2> QED BY <2>1, <2>2, <1>2, RatesAddUp
<1>4. ASSUME NEW rate \in Metrics!calc_send_qps
      PROVE  SameCount(Len(replies) + Chats, send_reported + rate, Half)
  <2>1. PICK m : Reported(last_send_packets, send_reported, m) /\ m <= r
    BY <1>2, Zenon DEF CountInv
  <2>2. StandsFor(total_send_packets, r, Half) /\ rate \in Metrics!Rates(total_send_packets, last_send_packets)
    BY <1>2, Zenon DEF CountInv, Metrics!calc_send_qps
  <2> QED BY <2>1, <2>2, <1>2, RatesAddUp
<1>5. ASSUME NEW k \in Registered
      PROVE  SameCount(Len(OfType(handled, k)) + IF k = "ChatReq" THEN Chats ELSE 0, req_count[k], Half)
  <2>1. KindCount(k, handled) \in Nat /\ StandsFor(req_count[k], KindCount(k, handled), Half)
    BY CountStands
  <2>2. SameCount(KindCount(k, handled), req_count[k], Half)
    BY <2>1, CounterTells, HalfAssumption
  <2> QED BY <2>2, Zenon DEF KindCount
<1>6. AverageRtt
  <2>1. MeasuredBy(heartbeat_rtt_count, total_heartbeat_rtt_ms, Measured)
    BY DEF CountInv
  <2>2. /\ SameCount(Len(Measured), heartbeat_rtt_count, HalfMs)
        /\ SameCount(Total(Measured), total_heartbeat_rtt_ms, HalfMs)
    BY <2>1, CounterTells, HalfAssumption, Zenon DEF MeasuredBy
  <2> QED BY <2>2, Zenon DEF AverageRtt
<1> QED BY <1>3, <1>4, <1>5, <1>6, Zenon DEF PacketsCounted

LEMMA InitCount == ProtocolInit => CountInv
<1> SUFFICES ASSUME ProtocolInit PROVE CountInv
  OBVIOUS
<1>1. scores = [p \in Others \cup {Self} |-> 0] /\ handled = <<>> /\ replies = <<>>
  BY DEF ProtocolInit, Init
<1>2. scores \in [Others \cup {Self} -> Int]
  BY <1>1
<1>3. Chats = 0
  <2>1. SumIs(scores, 0)
    BY <1>1, FewPlayers, SumZero
  <2> QED BY <2>1 DEF SumIs, Chats
<1>4. Len(<<>>) + 0 = 0 /\ 0 \in Nat /\ 0 <= 0 /\ Len(<<>>) = 0 /\ 0 + 0 = 0
  BY EmptySeq, SMT
<1>5. /\ StandsFor(0, 0, Half) /\ Reported(0, 0, 0)
      /\ StandsFor(0, 0, HalfMs)
  <2>1. /\ 0 \in Int /\ 0 < Half
        /\ InRange(0, Half) /\ InRange(0, HalfMs)
    BY HalfAssumption, SMT DEF InRange
  <2>2. Away(0, 0, Half) /\ Away(0, 0, HalfMs)
    BY <2>1, AwayFacts, HalfAssumption, Zenon
  <2> QED BY <2>1, <2>2, <1>4, Zenon DEF StandsFor, Reported
<1>6. /\ total_recv_packets = 0 /\ total_send_packets = 0
      /\ last_recv_packets = 0 /\ last_send_packets = 0
      /\ req_count = [k \in Registered |-> 0]
      /\ heartbeat_rtt_count = 0 /\ total_heartbeat_rtt_ms = 0
      /\ recv_reported = 0 /\ send_reported = 0
  BY Zenon DEF ProtocolInit, Metrics!Init
<1>7. Measured = <<>>
  <2>1. ToldBy(<<>>) = <<>>
    <3>1. OfType(<<>>, "HeartbeatReq") = <<>>
      BY NoneOfKind
    <3>2. DOMAIN <<>> = {}
      BY EmptySeq
    <3>3. ToldBy(<<>>) = [k \in DOMAIN <<>> |-> Parse(HeartbeatReqFields, <<>>[k].body).last_rtt_ms]
      BY <3>1, Zenon DEF ToldBy
    <3> QED BY <3>2, <3>3
  <2>2. Positive(<<>>) = <<>>
    BY SelectedEmpty DEF Positive
  <2> QED BY <2>1, <2>2, <1>1, MeasuredIs, Zenon
<1>8. Total(<<>>) = 0
  BY TotalEmpty DEF TotalOf
<1>9. \A k \in Registered :
         StandsFor(req_count[k], Len(OfType(handled, k)) + IF k = "ChatReq" THEN Chats ELSE 0, Half)
  <2>1. ASSUME NEW k \in Registered
        PROVE  req_count[k] = 0 /\ Len(OfType(handled, k)) = 0
    <3>1. OfType(handled, k) = <<>>
      BY <1>1, NoneOfKind, Zenon
    <3> QED BY <3>1, <1>4, <1>6
  <2> QED BY <2>1, <1>3, <1>4, <1>5, Zenon
<1>10. MeasuredBy(heartbeat_rtt_count, total_heartbeat_rtt_ms, Measured)
  BY <1>4, <1>5, <1>6, <1>7, <1>8, Zenon DEF MeasuredBy
<1> QED BY <1>1, <1>2, <1>3, <1>4, <1>5, <1>6, <1>9, <1>10, Zenon DEF CountInv

\* Reading and writing count nothing.
LEMMA TransportQuiet ==
  ASSUME Transport \/ UNCHANGED protocol_vars
  PROVE  UNCHANGED <<scores, handled, replies, metrics_vars>>
<1>1. CASE UNCHANGED protocol_vars
  BY <1>1, Zenon DEF protocol_vars, connection_vars, reading_vars, writing_vars
<1>2. CASE Transport
  <2>1. UNCHANGED <<scores, metrics_vars>>
    BY <1>2, Zenon DEF Transport
  <2>2. UNCHANGED <<handled, replies>>
    BY <1>2, Zenon DEF Transport, ServerRead, ClientRead, OnRead, OnWrite, OnWriteAborted, Close,
       ClientParse, Writes, WriteTaken, ClientSend, reading_vars, writing_vars
  <2> QED BY <2>1, <2>2, Zenon
<1> QED BY <1>1, <1>2

\* The invariant looks at no other state.
LEMMA CountQuiet ==
  ASSUME CountInv, UNCHANGED <<scores, handled, replies, metrics_vars>>
  PROVE  CountInv'
<1>1. /\ scores' = scores /\ handled' = handled /\ replies' = replies
      /\ total_recv_packets' = total_recv_packets /\ total_send_packets' = total_send_packets
      /\ last_recv_packets' = last_recv_packets /\ last_send_packets' = last_send_packets
      /\ req_count' = req_count /\ heartbeat_rtt_count' = heartbeat_rtt_count
      /\ total_heartbeat_rtt_ms' = total_heartbeat_rtt_ms
      /\ recv_reported' = recv_reported /\ send_reported' = send_reported
  BY Zenon DEF metrics_vars
<1>2. Chats' = Chats
  BY <1>1, Zenon DEF Chats
<1>3. Measured' = Measured
  BY <1>1, Zenon DEF Measured, Told, OfType
<1>4. \A k \in Registered : OfType(handled, k)' = OfType(handled, k)
  BY <1>1, Zenon DEF OfType
<1>5. /\ scores' \in [Others \cup {Self} -> Int] /\ Chats' \in Nat
      /\ StandsFor(total_recv_packets', Len(handled') + Chats', Half)
      /\ StandsFor(total_send_packets', Len(replies') + Chats', Half)
      /\ \E m : Reported(last_recv_packets', recv_reported', m) /\ m <= Len(handled') + Chats'
      /\ \E m : Reported(last_send_packets', send_reported', m) /\ m <= Len(replies') + Chats'
  BY <1>1, <1>2, Zenon DEF CountInv
<1>6. MeasuredBy(heartbeat_rtt_count', total_heartbeat_rtt_ms', Measured')
  BY <1>1, <1>3, Zenon DEF CountInv
<1>7. \A k \in Registered :
         StandsFor(req_count'[k], Len(OfType(handled, k)') + IF k = "ChatReq" THEN Chats' ELSE 0, Half)
  BY <1>1, <1>2, <1>4, Zenon DEF CountInv
<1> QED BY <1>5, <1>6, <1>7, Zenon DEF CountInv, MeasuredBy, StandsFor, Reported, OfType

\* A report moves the counted packets to the reported ones.
LEMMA ReportCounts ==
  ASSUME CountTypes, CountInv, Report
  PROVE  CountInv'
<1>1. /\ scores' = scores /\ handled' = handled /\ replies' = replies
      /\ total_recv_packets' = total_recv_packets /\ total_send_packets' = total_send_packets
      /\ req_count' = req_count /\ heartbeat_rtt_count' = heartbeat_rtt_count
      /\ total_heartbeat_rtt_ms' = total_heartbeat_rtt_ms
      /\ last_recv_packets' = total_recv_packets /\ last_send_packets' = total_send_packets
  BY Zenon DEF Report, Metrics!report_once, Metrics!last_packets, Metrics!request_vars,
     connection_vars, reading_vars, writing_vars
<1>r. /\ \E rate \in Metrics!calc_recv_qps : recv_reported' = recv_reported + rate
      /\ \E rate \in Metrics!calc_send_qps : send_reported' = send_reported + rate
  BY Zenon DEF Report, Metrics!report_once
<1>2. Chats' = Chats
  BY <1>1, Zenon DEF Chats
<1>3. Measured' = Measured
  BY <1>1, Zenon DEF Measured, Told, OfType
<1>4. \A k \in Registered : OfType(handled, k)' = OfType(handled, k)
  BY <1>1, Zenon DEF OfType
<1>n. PICK n \in Nat, r \in Nat : n = Len(handled) + Chats /\ r = Len(replies) + Chats
  <2>0. Len(handled) \in Nat /\ Len(replies) \in Nat /\ Chats \in Nat
    BY LenProperties DEF CountTypes, CountInv
  <2>1. Len(handled) + Chats \in Nat /\ Len(replies) + Chats \in Nat
    BY <2>0, SMT
  <2> QED BY <2>1, Zenon
<1>5. Reported(total_recv_packets, recv_reported', n)
  <2>1. PICK rate \in Metrics!calc_recv_qps : recv_reported' = recv_reported + rate
    BY <1>r
  <2>2. PICK m : Reported(last_recv_packets, recv_reported, m) /\ m <= n
    BY <1>n, Zenon DEF CountInv
  <2>3. StandsFor(total_recv_packets, n, Half) /\ rate \in Metrics!Rates(total_recv_packets, last_recv_packets)
    BY <1>n, <2>1, Zenon DEF CountInv, Metrics!calc_recv_qps
  <2>4. rate \in Int /\ Away(n, recv_reported + rate, Half) /\ (n < Half => n = recv_reported + rate)
    BY <2>2, <2>3, RatesAddUp
  <2>5. recv_reported + rate \in Int
    BY <2>2, <2>4, SMT DEF Reported
  <2> QED BY <2>1, <2>3, <2>4, <2>5, Zenon DEF Reported
<1>6. Reported(total_send_packets, send_reported', r)
  <2>1. PICK rate \in Metrics!calc_send_qps : send_reported' = send_reported + rate
    BY <1>r
  <2>2. PICK m : Reported(last_send_packets, send_reported, m) /\ m <= r
    BY <1>n, Zenon DEF CountInv
  <2>3. StandsFor(total_send_packets, r, Half) /\ rate \in Metrics!Rates(total_send_packets, last_send_packets)
    BY <1>n, <2>1, Zenon DEF CountInv, Metrics!calc_send_qps
  <2>4. rate \in Int /\ Away(r, send_reported + rate, Half) /\ (r < Half => r = send_reported + rate)
    BY <2>2, <2>3, RatesAddUp
  <2>5. send_reported + rate \in Int
    BY <2>2, <2>4, SMT DEF Reported
  <2> QED BY <2>1, <2>3, <2>4, <2>5, Zenon DEF Reported
<1>7. n <= n /\ r <= r
  BY SMT
<1>8. /\ scores' \in [Others \cup {Self} -> Int] /\ Chats' \in Nat
      /\ StandsFor(total_recv_packets', Len(handled') + Chats', Half)
      /\ StandsFor(total_send_packets', Len(replies') + Chats', Half)
  BY <1>1, <1>2, Zenon DEF CountInv
<1>9. /\ \E m : Reported(last_recv_packets', recv_reported', m) /\ m <= Len(handled') + Chats'
      /\ \E m : Reported(last_send_packets', send_reported', m) /\ m <= Len(replies') + Chats'
  BY <1>1, <1>2, <1>n, <1>5, <1>6, <1>7, Zenon
<1>10. MeasuredBy(heartbeat_rtt_count', total_heartbeat_rtt_ms', Measured')
  BY <1>1, <1>3, Zenon DEF CountInv
<1>11. \A k \in Registered :
         StandsFor(req_count'[k], Len(OfType(handled, k)') + IF k = "ChatReq" THEN Chats' ELSE 0, Half)
  BY <1>1, <1>2, <1>4, Zenon DEF CountInv
<1> QED BY <1>8, <1>9, <1>10, <1>11, Zenon DEF CountInv, MeasuredBy, StandsFor, Reported, OfType

\* A counter after more, for the number it stands for then.
LEMMA CountsTo ==
  ASSUME NEW counter, NEW n \in Int, StandsFor(counter, n, Half), NEW more \in Int, NEW next, next = n + more
  PROVE  StandsFor(Metrics!Wrapped(counter + more, Half), next, Half)
BY CountsOn, HalfAssumption

\* Numbers that have been reported stay so while more is counted.
LEMMA StillReported ==
  ASSUME NEW last, NEW reported, NEW n \in Nat, NEW next \in Nat, n <= next,
         \E m : Reported(last, reported, m) /\ m <= n
  PROVE  \E m : Reported(last, reported, m) /\ m <= next
<1>1. PICK m : Reported(last, reported, m) /\ m <= n
  OBVIOUS
<1>2. m \in Nat
  BY <1>1 DEF Reported
<1>3. m <= next
  BY <1>1, <1>2, SMT
<1> QED BY <1>1, <1>3

\* A chat of another player is a packet received, and its answer and the notice are sent.
LEMMA ChatCounts ==
  ASSUME CountTypes, CountTypes', CountInv, NEW p \in Others, NEW text \in Texts, Chat(p, text)
  PROVE  CountInv'
<1>1. /\ scores' = [scores EXCEPT ![p] = @ + 1] /\ handled' = handled
      /\ replies' = replies \o <<ChatNotice(p, text)>>
      /\ last_recv_packets' = last_recv_packets /\ last_send_packets' = last_send_packets
      /\ recv_reported' = recv_reported /\ send_reported' = send_reported
      /\ heartbeat_rtt_count' = heartbeat_rtt_count
      /\ total_heartbeat_rtt_ms' = total_heartbeat_rtt_ms
  BY Zenon DEF Chat, Notify, SendAll, reading_vars
<1>m. /\ total_recv_packets' = Metrics!Wrapped(total_recv_packets + 1, Half)
      /\ total_send_packets' = Metrics!Wrapped(total_send_packets + 2, Half)
      /\ req_count' = [k \in Registered |-> IF k \in {"ChatReq"} THEN Metrics!Wrapped(req_count[k] + 1, Half)
                                            ELSE req_count[k]]
  BY Zenon DEF Chat, Metrics!incr_recv_packet, Metrics!incr_send_packet, Metrics!incr_req
<1>2. scores' \in [Others \cup {Self} -> Int]
  <2>1. scores \in [Others \cup {Self} -> Int]
    BY DEF CountInv
  <2>2. scores[p] + 1 \in Int
    BY <2>1
  <2> QED BY <1>1, <2>1, <2>2
<1>3. Chats' = Chats + 1
  <2>1. scores \in [Others \cup {Self} -> Int] /\ p \in Others \cup {Self}
    BY DEF CountInv
  <2>2. SumIs([scores EXCEPT ![p] = @ + 1], SumFunction(scores) + 1)
    BY <2>1, FewPlayers, SumMore
  <2> QED BY <2>2, <1>1, Zenon DEF SumIs, Chats
<1>4. Measured' = Measured
  BY <1>1, Zenon DEF Measured, Told, OfType
<1>5. \A k \in Registered : OfType(handled, k)' = OfType(handled, k)
  BY <1>1, Zenon DEF OfType
<1>6. Len(replies') = Len(replies) + 1
  <2>1. PICK S : replies \in Seq(S)
    BY DEF CountTypes
  <2>2. Len(replies \o <<ChatNotice(p, text)>>) = Len(replies) + 1
    BY <2>1, OneLonger
  <2> QED BY <2>2, <1>1, Zenon
<1>n. PICK h \in Nat, l \in Nat, c \in Nat : h = Len(handled) /\ l = Len(replies) /\ c = Chats
  BY LenProperties DEF CountTypes, CountInv
<1>7. /\ h + c \in Nat /\ l + c \in Nat /\ h + (c + 1) \in Nat /\ (l + 1) + (c + 1) \in Nat /\ c + 1 \in Nat
      /\ h + (c + 1) = (h + c) + 1 /\ (l + 1) + (c + 1) = (l + c) + 2
      /\ h + c <= h + (c + 1) /\ l + c <= (l + 1) + (c + 1)
      /\ h + c \in Int /\ l + c \in Int /\ 1 \in Int /\ 2 \in Int
  BY SMT
<1>8. StandsFor(total_recv_packets', h + (c + 1), Half) /\ StandsFor(total_send_packets', (l + 1) + (c + 1), Half)
  <2>1. StandsFor(total_recv_packets, h + c, Half) /\ StandsFor(total_send_packets, l + c, Half)
    BY <1>n, Zenon DEF CountInv
  <2> QED BY <2>1, <1>7, <1>m, CountsTo, HalfAssumption, Zenon
<1>9. /\ \E m : Reported(last_recv_packets, recv_reported, m) /\ m <= h + (c + 1)
      /\ \E m : Reported(last_send_packets, send_reported, m) /\ m <= (l + 1) + (c + 1)
  <2>1. /\ \E m : Reported(last_recv_packets, recv_reported, m) /\ m <= h + c
        /\ \E m : Reported(last_send_packets, send_reported, m) /\ m <= l + c
    BY <1>n, Zenon DEF CountInv
  <2> QED BY <2>1, <1>7, StillReported, Zenon
<1>10. Len(handled') + Chats' = h + (c + 1) /\ Len(replies') + Chats' = (l + 1) + (c + 1)
  BY <1>1, <1>3, <1>6, <1>n, Zenon
<1>11. /\ scores' \in [Others \cup {Self} -> Int] /\ Chats' \in Nat
       /\ StandsFor(total_recv_packets', Len(handled') + Chats', Half)
       /\ StandsFor(total_send_packets', Len(replies') + Chats', Half)
  BY <1>2, <1>3, <1>7, <1>8, <1>10, <1>n, Zenon
<1>12. /\ \E m : Reported(last_recv_packets', recv_reported', m) /\ m <= Len(handled') + Chats'
       /\ \E m : Reported(last_send_packets', send_reported', m) /\ m <= Len(replies') + Chats'
  BY <1>1, <1>9, <1>10, Zenon
<1>13. MeasuredBy(heartbeat_rtt_count', total_heartbeat_rtt_ms', Measured')
  BY <1>1, <1>4, Zenon DEF CountInv
<1>14. ASSUME NEW k \in Registered
       PROVE  StandsFor(req_count'[k], Len(OfType(handled, k)') + IF k = "ChatReq" THEN Chats' ELSE 0, Half)
  <2>1. StandsFor(req_count[k], Len(OfType(handled, k)) + IF k = "ChatReq" THEN c ELSE 0, Half)
    BY <1>n, Zenon DEF CountInv
  <2>2. PICK t \in Nat : t = Len(OfType(handled, k))
    BY KindType DEF CountTypes
  <2>3. CASE k = "ChatReq"
    <3>1. req_count'[k] = Metrics!Wrapped(req_count[k] + 1, Half)
      BY <1>m, <2>3
    <3>2. StandsFor(req_count[k], t + c, Half)
      BY <2>1, <2>2, <2>3, Zenon
    <3>3. t + (c + 1) = (t + c) + 1 /\ t + c \in Int
      BY SMT
    <3>4. StandsFor(req_count'[k], t + (c + 1), Half)
      BY <3>1, <3>2, <3>3, <1>7, CountsTo, HalfAssumption, Zenon
    <3> QED BY <3>4, <2>2, <2>3, <1>3, <1>5, <1>n, Zenon
  <2>4. CASE k # "ChatReq"
    <3>1. req_count'[k] = req_count[k]
      BY <1>m, <2>4
    <3> QED BY <3>1, <2>1, <2>4, <1>5, Zenon
  <2> QED BY <2>3, <2>4
<1> QED BY <1>11, <1>12, <1>13, <1>14, Zenon DEF CountInv, MeasuredBy, StandsFor, Reported, OfType

\* The round trip of a heartbeat is recorded when it is positive.
LEMMA RttCounts ==
  ASSUME NEW ms \in Seq(Message), NEW m \in Message, RecordRtt(m),
         MeasuredBy(heartbeat_rtt_count, total_heartbeat_rtt_ms, Positive(ToldBy(ms)))
  PROVE  MeasuredBy(heartbeat_rtt_count', total_heartbeat_rtt_ms', Positive(ToldBy(Append(ms, m))))
<1>1. PICK told \in Seq(Int) : told = ToldBy(ms)
  BY ToldAppend
<1>2. PICK kept \in Seq(Int) : kept = Positive(told)
  BY PositiveAppend
<1>3. PICK rtt \in Int : rtt = Parse(HeartbeatReqFields, m.body).last_rtt_ms
  <2>1. m.body \in Seq(Byte)
    BY MessageParts
  <2> QED BY <2>1, RttType
<1>4. ToldBy(Append(ms, m)) = IF m.msg_id = Ids["HeartbeatReq"] THEN Append(told, rtt) ELSE told
  BY <1>1, <1>3, ToldAppend
<1>5. Positive(Append(told, rtt)) = IF rtt > 0 THEN Append(kept, rtt) ELSE kept
  BY <1>2, PositiveAppend
<1>6. CASE m.msg_id = Ids["HeartbeatReq"] /\ rtt > 0
  <2>1. RecordedRtt(m) = {rtt}
    BY <1>3, <1>6, Zenon DEF RecordedRtt
  <2>2. Metrics!record_heartbeat(rtt)
    BY <2>1, Zenon DEF RecordRtt
  <2>3. ~(rtt < 0)
    BY <1>6, SMT
  <2>4. /\ heartbeat_rtt_count' = Metrics!Wrapped(heartbeat_rtt_count + 1, HalfMs)
        /\ total_heartbeat_rtt_ms' = Metrics!Wrapped(total_heartbeat_rtt_ms + rtt, HalfMs)
    BY <2>2, <2>3, Zenon DEF Metrics!record_heartbeat
  <2>5. Positive(ToldBy(Append(ms, m))) = Append(kept, rtt)
    BY <1>4, <1>5, <1>6, Zenon
  <2>6. Len(Append(kept, rtt)) = Len(kept) + 1
    BY AppendProperties
  <2>7. Total(Append(kept, rtt)) = Total(kept) + rtt
    <3>1. TotalOf(Append(kept, rtt), Total(kept) + rtt)
      BY TotalAppend
    <3> QED BY <3>1 DEF TotalOf
  <2>8. MeasuredBy(heartbeat_rtt_count, total_heartbeat_rtt_ms, kept)
    BY <1>1, <1>2, Zenon
  <2>9. PICK l \in Nat, t \in Nat : l = Len(kept) /\ t = Total(kept)
    BY <2>8, Zenon DEF MeasuredBy
  <2>10. l + 1 \in Nat /\ t + rtt \in Nat /\ l \in Int /\ t \in Int /\ 1 \in Int
    BY <1>6, SMT
  <2>11. StandsFor(heartbeat_rtt_count, l, HalfMs) /\ StandsFor(total_heartbeat_rtt_ms, t, HalfMs)
    BY <2>8, <2>9, Zenon DEF MeasuredBy
  <2>12. /\ StandsFor(heartbeat_rtt_count', l + 1, HalfMs)
         /\ StandsFor(total_heartbeat_rtt_ms', t + rtt, HalfMs)
    BY <2>4, <2>10, <2>11, CountsOn, HalfAssumption, Zenon
  <2> QED BY <2>5, <2>6, <2>7, <2>9, <2>10, <2>12, Zenon DEF MeasuredBy
<1>7. CASE ~(m.msg_id = Ids["HeartbeatReq"] /\ rtt > 0)
  <2>1. RecordedRtt(m) = {}
    BY <1>3, <1>7, Zenon DEF RecordedRtt
  <2>2. heartbeat_rtt_count' = heartbeat_rtt_count /\ total_heartbeat_rtt_ms' = total_heartbeat_rtt_ms
    BY <2>1, Zenon DEF RecordRtt
  <2>3. Positive(ToldBy(Append(ms, m))) = kept
    BY <1>2, <1>4, <1>5, <1>7, Zenon
  <2> QED BY <1>1, <1>2, <2>2, <2>3, Zenon
<1> QED BY <1>6, <1>7

\* A handled request is a packet received, and its answers are packets sent.
LEMMA HandleCounts ==
  ASSUME CountTypes, CountTypes', CountInv, Handle
  PROVE  CountInv'
<1>0. PICK m \in Message : m = Decoded(recv_buffer)
  <2>1. recv_buffer \in Seq(Byte) /\ Complete(recv_buffer)
    BY Zenon DEF CountTypes, Handle, HandlePacket
  <2> QED BY <2>1, DecodedType
<1>1. /\ scores' = scores /\ handled' = Append(handled, m)
      /\ last_recv_packets' = last_recv_packets /\ last_send_packets' = last_send_packets
      /\ recv_reported' = recv_reported /\ send_reported' = send_reported
  BY <1>0, Zenon DEF Handle, HandlePacket
<1>m. /\ total_recv_packets' = Metrics!Wrapped(total_recv_packets + 1, Half)
      /\ total_send_packets' = Metrics!Wrapped(total_send_packets + (Len(replies') - Len(replies)), Half)
      /\ req_count' = [k \in Registered |-> IF k \in {j \in Registered : Ids[j] = m.msg_id}
                                            THEN Metrics!Wrapped(req_count[k] + 1, Half) ELSE req_count[k]]
      /\ RecordRtt(m)
  BY <1>0, Zenon DEF Handle, Metrics!incr_recv_packet, Metrics!incr_send_packet, Metrics!incr_req
<1>2. Chats' = Chats
  BY <1>1, Zenon DEF Chats
<1>h. handled \in Seq(Message)
  BY DEF CountTypes
<1>3. Len(handled') = Len(handled) + 1
  BY <1>1, <1>h, AppendProperties
<1>l. Len(replies) \in Nat /\ Len(replies') \in Nat /\ Len(replies) <= Len(replies')
  BY AnswersSent
<1>n. PICK h \in Nat, l \in Nat, k \in Nat, c \in Nat :
        h = Len(handled) /\ l = Len(replies) /\ k = Len(replies') /\ c = Chats
  <2>1. Len(handled) \in Nat /\ Len(replies) \in Nat /\ Len(replies') \in Nat /\ Chats \in Nat
    BY <1>h, <1>l, LenProperties DEF CountInv
  <2> QED BY <2>1, Zenon
<1>7. /\ h + c \in Nat /\ l + c \in Nat /\ (h + 1) + c \in Nat /\ k + c \in Nat
      /\ (h + 1) + c = (h + c) + 1 /\ k + c = (l + c) + (k - l)
      /\ h + c <= (h + 1) + c /\ l + c <= k + c
      /\ h + c \in Int /\ l + c \in Int /\ 1 \in Int /\ k - l \in Int
  <2>1. l <= k
    BY <1>l, <1>n
  <2> QED BY <2>1, SMT
<1>8. StandsFor(total_recv_packets', (h + 1) + c, Half) /\ StandsFor(total_send_packets', k + c, Half)
  <2>1. StandsFor(total_recv_packets, h + c, Half) /\ StandsFor(total_send_packets, l + c, Half)
    BY <1>n, Zenon DEF CountInv
  <2>2. StandsFor(total_recv_packets', (h + 1) + c, Half)
    BY <2>1, <1>7, <1>m, CountsTo, HalfAssumption, Zenon
  <2>3. StandsFor(Metrics!Wrapped(total_send_packets + (k - l), Half), k + c, Half)
    BY <2>1, <1>7, CountsTo, HalfAssumption, Zenon
  <2> QED BY <2>2, <2>3, <1>m, <1>n, Zenon
<1>9. /\ \E n : Reported(last_recv_packets, recv_reported, n) /\ n <= (h + 1) + c
      /\ \E n : Reported(last_send_packets, send_reported, n) /\ n <= k + c
  <2>1. /\ \E n : Reported(last_recv_packets, recv_reported, n) /\ n <= h + c
        /\ \E n : Reported(last_send_packets, send_reported, n) /\ n <= l + c
    BY <1>n, Zenon DEF CountInv
  <2> QED BY <2>1, <1>7, StillReported, Zenon
<1>10. Len(handled') + Chats' = (h + 1) + c /\ Len(replies') + Chats' = k + c
  BY <1>2, <1>3, <1>n, Zenon
<1>11. /\ scores' \in [Others \cup {Self} -> Int] /\ Chats' \in Nat
       /\ StandsFor(total_recv_packets', Len(handled') + Chats', Half)
       /\ StandsFor(total_send_packets', Len(replies') + Chats', Half)
  BY <1>1, <1>2, <1>8, <1>10, Zenon DEF CountInv
<1>12. /\ \E n : Reported(last_recv_packets', recv_reported', n) /\ n <= Len(handled') + Chats'
       /\ \E n : Reported(last_send_packets', send_reported', n) /\ n <= Len(replies') + Chats'
  BY <1>1, <1>9, <1>10, Zenon
<1>13. MeasuredBy(heartbeat_rtt_count', total_heartbeat_rtt_ms', Measured')
  <2>1. MeasuredBy(heartbeat_rtt_count, total_heartbeat_rtt_ms, Positive(ToldBy(handled)))
    BY MeasuredIs, Zenon DEF CountInv
  <2>2. MeasuredBy(heartbeat_rtt_count', total_heartbeat_rtt_ms', Positive(ToldBy(Append(handled, m))))
    BY <2>1, <1>h, <1>m, RttCounts
  <2>3. Measured' = Positive(ToldBy(handled'))
    BY Zenon DEF Measured, Told, Positive, ToldBy, OfType
  <2> QED BY <2>2, <2>3, <1>1, Zenon
<1>14. ASSUME NEW j \in Registered
       PROVE  StandsFor(req_count'[j], Len(OfType(handled, j)') + IF j = "ChatReq" THEN Chats' ELSE 0, Half)
  <2>1. StandsFor(req_count[j], Len(OfType(handled, j)) + IF j = "ChatReq" THEN c ELSE 0, Half)
    BY <1>n, Zenon DEF CountInv
  <2>2. PICK t \in Nat : t = Len(OfType(handled, j)) /\ OfType(handled, j) \in Seq(Message)
    BY <1>h, KindType
  <2>c. PICK d \in Nat : d = IF j = "ChatReq" THEN c ELSE 0
    OBVIOUS
  <2>s. StandsFor(req_count[j], t + d, Half)
    BY <2>1, <2>2, <2>c, Zenon
  <2>k. OfType(handled, j)' =
           IF m.msg_id = Ids[j] THEN Append(OfType(handled, j), m) ELSE OfType(handled, j)
    <3>1. KindAppended(handled, m, j)
      BY <1>h, KindAppends
    <3>2. OfType(handled, j)' = OfType(handled', j)
      BY Zenon DEF OfType
    <3> QED BY <3>1, <3>2, <1>1, Zenon DEF KindAppended
  <2>3. CASE m.msg_id = Ids[j]
    <3>1. req_count'[j] = Metrics!Wrapped(req_count[j] + 1, Half)
      BY <1>m, <2>3
    <3>2. Len(OfType(handled, j)') = t + 1
      BY <2>2, <2>3, <2>k, AppendProperties
    <3>3. (t + 1) + d = (t + d) + 1 /\ t + d \in Int /\ 1 \in Int
      BY SMT
    <3>4. StandsFor(req_count'[j], (t + 1) + d, Half)
      BY <3>1, <2>s, <3>3, CountsTo, HalfAssumption, Zenon
    <3> QED BY <3>4, <3>2, <2>c, <1>2, <1>n, Zenon
  <2>4. CASE m.msg_id # Ids[j]
    <3>1. req_count'[j] = req_count[j]
      BY <1>m, <2>4
    <3> QED BY <3>1, <2>s, <2>2, <2>4, <2>k, <2>c, <1>2, <1>n, Zenon
  <2> QED BY <2>3, <2>4
<1> QED BY <1>11, <1>12, <1>13, <1>14, Zenon DEF CountInv, MeasuredBy, StandsFor, Reported, OfType

\* Every step keeps the counters right.
LEMMA CountInductive ==
  ASSUME CountTypes, CountTypes', CountInv, [ProtocolNext]_protocol_vars
  PROVE  CountInv'
<1>1. CASE Transport \/ UNCHANGED protocol_vars
  BY <1>1, TransportQuiet, CountQuiet
<1>2. CASE Handle
  BY <1>2, HandleCounts
<1>3. ASSUME NEW p \in Others, NEW text \in Texts, Chat(p, text) PROVE CountInv'
  BY <1>3, ChatCounts
<1>4. CASE Report
  BY <1>4, ReportCounts
<1> QED BY <1>1, <1>2, <1>3, <1>4, Zenon DEF ProtocolNext

LEMMA ProtocolCounts == ProtocolSpec => [](PacketsCounted /\ AverageRtt)
<1>1. ProtocolInit => CountTypes /\ CountInv
  BY InitTypes, InitCount
<1>2. CountTypes /\ CountInv /\ [ProtocolNext]_protocol_vars => CountTypes' /\ CountInv'
  BY TypesInductive, CountInductive
<1>3. CountTypes /\ CountInv => PacketsCounted /\ AverageRtt
  BY CountImplies
<1> QED BY <1>1, <1>2, <1>3, PTL DEF ProtocolSpec

\* The rates that MetricsReporter reports add up to the packets handled and sent, and
\* the counters of ServerMetrics to the requests of each kind, up to whole turns of the
\* counters, whenever the reporter's timer runs: nothing is counted twice or missed,
\* also when a short write has put the stream out of step.
THEOREM PacketsAreCounted == ProtocolSpec => []PacketsCounted
<1>1. PacketsCounted /\ AverageRtt => PacketsCounted
  OBVIOUS
<1> QED BY <1>1, ProtocolCounts, PTL

\* The number and the sum of the round trips that a report divides are those of the
\* positive ones that the handled heartbeats have told (HeartbeatService), up to whole
\* turns of their 64 bits and exactly before the first, whatever else they carry.
THEOREM AverageIsMeasured == ProtocolSpec => []AverageRtt
<1>1. PacketsCounted /\ AverageRtt => AverageRtt
  OBVIOUS
<1> QED BY <1>1, ProtocolCounts, PTL

-------------------------------------------------------------------------------
(***************************************************************************)
(* The generated classes, over the sample values.                          *)
(***************************************************************************)
LEMMA SamplesAreExact ==
  ASSUME NEW sample \in SampleMessages
  PROVE  /\ Parses(Serialize(sample[1], sample[2]))
         /\ Parse(sample[1], Serialize(sample[1], sample[2])) = sample[2]
         /\ ByteSize(sample[1], sample[2]) = Len(Serialize(sample[1], sample[2]))
<1>1. MessageOf(sample[1], sample[2])
  BY SamplesAssumption, MessagesAreMessages DEF SampleMessages
<1>2. /\ Parses(Serialize(sample[1], sample[2]))
      /\ Parse(sample[1], Serialize(sample[1], sample[2])) = sample[2]
  BY <1>1, ParseSerialize
<1>3. ByteSize(sample[1], sample[2]) = Len(Serialize(sample[1], sample[2]))
  BY <1>1, SizeIsLength
<1> QED BY <1>2, <1>3

\* The generated classes read back what they write, for every message of the program
\* with values among the samples, and the samples may be any numbers of 64 bits, any
\* strings shorter than a length can tell and any short lists of numbers.
THEOREM MessagesRoundTrip == ProtocolSpec => []RoundTrip
<1>1. RoundTrip
  BY SamplesAreExact, Zenon DEF RoundTrip
<1> QED BY <1>1, PTL

\* ByteSizeLong announces the length of what _InternalSerialize writes, for the same
\* messages.
THEOREM SizesAreExact == ProtocolSpec => []SizeExact
<1>1. SizeExact
  BY SamplesAreExact, Zenon DEF SizeExact
<1> QED BY <1>1, PTL

-------------------------------------------------------------------------------
(***************************************************************************)
(* What the client was given is the beginning of what was sent to it, also *)
(* of the messages of one kind.                                            *)
(***************************************************************************)
Starts(s, t) == Len(s) <= Len(t) /\ \A i \in 1..Len(s) : s[i] = t[i]

\* The rest of a sequence after its beginning.
LEMMA StartsSplits ==
  ASSUME NEW S, NEW s \in Seq(S), NEW t \in Seq(S), Starts(s, t)
  PROVE  \E rest \in Seq(S) : t = s \o rest
<1>1. Len(s) <= Len(t) /\ \A i \in 1..Len(s) : s[i] = t[i]
  BY DEF Starts
<1>2. PICK rest : rest = SubSeq(t, Len(s) + 1, Len(t))
  OBVIOUS
<1>3. PICK n \in Nat, k \in Nat : n = Len(s) /\ k = Len(t)
  BY LenProperties
<1>4. /\ rest \in Seq(S) /\ Len(rest) = k - n
      /\ \A i \in 1..(k - n) : rest[i] = t[n + i]
  BY <1>1, <1>2, <1>3, SMT
<1>5. PICK both : both = s \o rest
  OBVIOUS
<1>6. /\ both \in Seq(S) /\ Len(both) = k
      /\ \A i \in 1..n : both[i] = s[i]
      /\ \A i \in 1..(k - n) : both[n + i] = rest[i]
  <2>1. both \in Seq(S) /\ Len(both) = Len(s) + Len(rest)
        /\ (\A i \in 1..Len(s) : both[i] = s[i])
        /\ \A i \in 1..Len(rest) : both[Len(s) + i] = rest[i]
    <3>1. rest \in Seq(S)
      BY <1>4
    <3>2. /\ s \o rest \in Seq(S) /\ Len(s \o rest) = Len(s) + Len(rest)
          /\ (\A i \in 1..Len(s) : (s \o rest)[i] = s[i])
          /\ \A i \in 1..Len(rest) : (s \o rest)[Len(s) + i] = rest[i]
      BY <3>1, SeqFacts
    <3> QED BY <3>2, <1>5, Zenon
  <2>2. n + (k - n) = k
    BY <1>3, SMT
  <2> QED BY <2>1, <2>2, <1>3, <1>4, Zenon
<1>7. \A i \in 1..k : both[i] = t[i]
  <2> TAKE i \in 1..k
  <2>1. CASE i \in 1..n
    BY <2>1, <1>1, <1>3, <1>6, Zenon
  <2>2. CASE i \notin 1..n
    <3>1. i - n \in 1..(k - n) /\ n + (i - n) = i
      BY <2>2, <1>3, SMT
    <3> QED BY <3>1, <1>4, <1>6, Zenon
  <2> QED BY <2>1, <2>2
<1>8. both = t
  BY <1>3, <1>6, <1>7, SMT
<1> QED BY <1>4, <1>5, <1>8, Zenon

LEMMA SplitStarts ==
  ASSUME NEW S, NEW s \in Seq(S), NEW rest \in Seq(S)
  PROVE  Starts(s, s \o rest)
<1>1. Len(s \o rest) = Len(s) + Len(rest) /\ \A k \in 1..Len(s) : (s \o rest)[k] = s[k]
  BY SeqFacts
<1>2. Len(s) \in Nat /\ Len(rest) \in Nat
  BY LenProperties
<1> QED BY <1>1, <1>2, SMT DEF Starts

KindOfConcat(ms, ns, type) == OfType(ms \o ns, type) = OfType(ms, type) \o OfType(ns, type)
LEMMA KindConcat ==
  ASSUME NEW ms \in Seq(Message), NEW ns \in Seq(Message), NEW type
  PROVE  KindOfConcat(ms, ns, type)
<1> DEFINE all == ms \o ns
           Is(m) == m.msg_id = Ids[type]
           I == {i \in DOMAIN ms : Is(ms[i])}
           J == {i \in DOMAIN ns : Is(ns[i])}
           K == {i \in DOMAIN all : Is(all[i])}
<1>0. OfType(ms \o ns, type) = Selected(all, K) /\ OfType(ms, type) = Selected(ms, I)
      /\ OfType(ns, type) = Selected(ns, J)
  BY Zenon DEF OfType
<1> HIDE DEF Is
<1>1. /\ Len(ms) \in Nat /\ Len(ns) \in Nat /\ DOMAIN ms = 1..Len(ms) /\ DOMAIN ns = 1..Len(ns)
      /\ DOMAIN all = 1..(Len(ms) + Len(ns))
      /\ \A k \in 1..Len(ms) : all[k] = ms[k]
      /\ \A k \in 1..Len(ns) : all[Len(ms) + k] = ns[k]
  BY SMT
<1>2. \A k \in 1..Len(ms) : k \in I <=> k \in K
  BY <1>1, SMT
<1>3. \A k \in 1..Len(ns) : k \in J <=> Len(ms) + k \in K
  BY <1>1, SMT
<1> HIDE DEF I, J, K
<1>4. SelectedTogether(ms, ns, I, J, K)
  BY <1>2, <1>3, SelectedConcat, Zenon
<1> QED BY <1>0, <1>4, Zenon DEF SelectedTogether, KindOfConcat

\* Of one kind, too, what comes first comes first.
LEMMA KindStarts ==
  ASSUME NEW ms \in Seq(Message), NEW ns \in Seq(Message), NEW type, Starts(ms, ns)
  PROVE  Starts(OfType(ms, type), OfType(ns, type))
<1>1. PICK rest \in Seq(Message) : ns = ms \o rest
  BY StartsSplits
<1>2. KindOfConcat(ms, rest, type)
  BY KindConcat
<1>3. OfType(ms, type) \in Seq(Message) /\ OfType(rest, type) \in Seq(Message)
  BY KindType
<1>4. Starts(OfType(ms, type), OfType(ms, type) \o OfType(rest, type))
  BY <1>3, SplitStarts
<1> QED BY <1>1, <1>2, <1>4, Zenon DEF KindOfConcat

\* The requests that were handled, and the answers that arrived.
LEMMA HandledStarts ==
  ASSUME ConnInv
  PROVE  Starts(handled, requests)
BY Zenon DEF ConnInv, Framed, HandledFirst, Starts

LEMMA ReceivedStarts ==
  ASSUME ConnInv, Answered
  PROVE  Starts(received, Fitting(replies)) /\ Fitting(replies) \in Seq(Message)
<1>1. PICK written \in Seq(Message), waiting \in Seq(Message) : Streamed(written, waiting)
  BY DEF Answered
<1>2. PICK out \in Seq(Message), later \in Seq(Message) : out = Fitting(written) /\ later = Fitting(waiting)
  BY FittingType
<1>3. Fitting(replies) = out \o later
  <2>1. FittingOfConcat(written, waiting)
    BY FittingConcat, Zenon
  <2> QED BY <2>1, <1>1, <1>2, Zenon DEF FittingOfConcat, Streamed
<1>4. Starts(received, out)
  BY <1>1, <1>2, Zenon DEF Streamed, ReceivedFirst, Starts
<1>5. received \in Seq(Message)
  BY DEF ConnInv, TypeOK
<1>6. PICK rest \in Seq(Message) : out = received \o rest
  BY <1>4, <1>5, StartsSplits
<1>7. out \o later = received \o (rest \o later) /\ rest \o later \in Seq(Message)
  BY <1>5, <1>6, ConcatAssociative, ConcatProperties
<1>8. Starts(received, received \o (rest \o later))
  BY <1>5, <1>7, SplitStarts
<1>9. out \o later \in Seq(Message)
  BY ConcatProperties
<1> QED BY <1>3, <1>7, <1>8, <1>9, Zenon

\* What the connection guarantees of the answers.
LEMMA ProtocolConnects == ~ShortWrites => (ProtocolSpec => [](ConnInv /\ Answered))
<1> SUFFICES ASSUME ~ShortWrites PROVE ProtocolSpec => [](ConnInv /\ Answered)
  OBVIOUS
<1>1. Init => ConnInv /\ Answered
  BY InitConn, InitAnswered
<1>2. ConnInv /\ Answered /\ [Next]_vars => (ConnInv /\ Answered)'
  BY ConnInductive, AnsweredInductive
<1>3. Spec => [](ConnInv /\ Answered)
  BY <1>1, <1>2, PTL DEF Spec
<1> QED BY <1>3, ProtocolIsConnection

-------------------------------------------------------------------------------
(***************************************************************************)
(* What the handlers send.                                                 *)
(***************************************************************************)
SentMore(ms, w, type) ==
  OfType(Fitting(Append(ms, w)), type) =
     IF Fits(w) /\ w.msg_id = Ids[type] THEN Append(OfType(Fitting(ms), type), w)
     ELSE OfType(Fitting(ms), type)

LEMMA SendsOne ==
  ASSUME NEW ms \in Seq(Message), NEW w \in Message, NEW type
  PROVE  SentMore(ms, w, type)
<1>1. FittingOfAppend(ms, w)
  BY FittingAppended
<1>2. Fitting(ms) \in Seq(Message)
  BY FittingType
<1>3. KindAppended(Fitting(ms), w, type)
  BY <1>2, KindAppends
<1>4. CASE Fits(w)
  <2>1. Fitting(Append(ms, w)) = Append(Fitting(ms), w)
    BY <1>1, <1>4, Zenon DEF FittingOfAppend
  <2> QED BY <2>1, <1>3, <1>4, Zenon DEF KindAppended, SentMore
<1>5. CASE ~Fits(w)
  <2>1. Fitting(Append(ms, w)) = Fitting(ms)
    BY <1>1, <1>5, Zenon DEF FittingOfAppend
  <2> QED BY <2>1, <1>5, Zenon DEF SentMore
<1> QED BY <1>4, <1>5

LEMMA LastIsMessage ==
  ASSUME NEW ms \in Seq(Message), NEW w, ms \o <<w>> \in Seq(Message)
  PROVE  w \in Message /\ ms \o <<w>> = Append(ms, w)
<1>1. Len(ms \o <<w>>) = Len(ms) + 1 /\ (ms \o <<w>>)[Len(ms) + 1] = w /\ Len(ms) \in Nat
  BY SMT
<1>2. Len(ms) + 1 \in 1..(Len(ms) + 1)
  BY <1>1, SMT
<1>3. w \in Message
  BY <1>1, <1>2, ElementOfSeq
<1>4. Append(ms, w) = ms \o <<w>>
  BY <1>3, AppendIsConcat
<1> QED BY <1>3, <1>4

Beat(m) ==
  Wire("HeartbeatResp", HeartbeatRespFields,
       HeartbeatResp(Parse(HeartbeatReqFields, m.body).client_time_ms, ServerTime))
Rank(resp) == Wire("RankingResp", RankingRespFields, resp)
RanksFor(m, score) == Rankings(score, Narrowed(Parse(RankingReqFields, m.body).top_n))

IdsDiffer ==
  /\ Ids["HeartbeatReq"] # Ids["RankingReq"] /\ Ids["HeartbeatResp"] # Ids["RankingResp"]
  /\ Ids["ChatNotify"] # Ids["HeartbeatResp"] /\ Ids["ChatNotify"] # Ids["RankingResp"]

LEMMA DifferentIds == IdsDiffer
BY SMT DEF Ids, IdsDiffer

\* One of three: a heartbeat and its answer, a ranking and its answer, no answer.
HandledWith(m) ==
  \/ /\ m.msg_id = Ids["HeartbeatReq"]
     /\ Beat(m) \in Message /\ replies' = Append(replies, Beat(m))
  \/ /\ m.msg_id = Ids["RankingReq"]
     /\ \E resp \in RanksFor(m, scores) : Rank(resp) \in Message /\ replies' = Append(replies, Rank(resp))
  \/ /\ m.msg_id # Ids["HeartbeatReq"] /\ m.msg_id # Ids["RankingReq"]
     /\ replies' = replies

\* Every handler does one of the three.
LEMMA HandleSends ==
  ASSUME TypeOK, TypeOK', Handle
  PROVE  /\ scores' = scores
         /\ \E m \in Message : handled' = Append(handled, m) /\ HandledWith(m)
<1>0. PICK m \in Message : m = Decoded(recv_buffer)
  <2>1. recv_buffer \in Seq(Byte) /\ Complete(recv_buffer)
    BY Zenon DEF TypeOK, Handle, HandlePacket
  <2> QED BY <2>1, DecodedType
<1>1. handled' = Append(handled, m) /\ scores' = scores
  BY <1>0, Zenon DEF Handle, HandlePacket
<1>2. replies \in Seq(Message) /\ replies' \in Seq(Message)
  BY DEF TypeOK
<1>3. PICK ms \in Answers(m, scores) : replies' = replies \o ms
  BY <1>0, Zenon DEF Handle
<1>4. ASSUME m.msg_id = Ids["HeartbeatReq"] PROVE HandledWith(m)
  <2>1. m.msg_id # Ids["RankingReq"]
    BY <1>4, DifferentIds, Zenon DEF IdsDiffer
  <2>2. Answers(m, scores) = HeartbeatAnswers(m.body)
    BY <1>4, <2>1, Zenon DEF Answers
  <2>3. HeartbeatAnswers(m.body) = {<<Beat(m)>>}
    BY Zenon DEF HeartbeatAnswers, Beat
  <2>4. replies' = replies \o <<Beat(m)>>
    BY <1>3, <2>2, <2>3
  <2>5. Beat(m) \in Message /\ replies' = Append(replies, Beat(m))
    BY <1>2, <2>4, LastIsMessage
  <2> QED BY <1>4, <2>5, Zenon DEF HandledWith
<1>5. ASSUME m.msg_id = Ids["RankingReq"] PROVE HandledWith(m)
  <2>1. m.msg_id # Ids["HeartbeatReq"]
    BY <1>5, DifferentIds, Zenon DEF IdsDiffer
  <2>2. Answers(m, scores) = RankingAnswers(m.body, scores)
    BY <1>5, <2>1, Zenon DEF Answers
  <2>3. RankingAnswers(m.body, scores) = {<<Rank(resp)>> : resp \in RanksFor(m, scores)}
    BY Zenon DEF RankingAnswers, Rank, RanksFor
  <2>4. PICK resp \in RanksFor(m, scores) : ms = <<Rank(resp)>>
    BY <1>3, <2>2, <2>3
  <2>5. Rank(resp) \in Message /\ replies' = Append(replies, Rank(resp))
    BY <1>2, <1>3, <2>4, LastIsMessage
  <2> QED BY <1>5, <2>5, Zenon DEF HandledWith
<1>6. ASSUME m.msg_id # Ids["HeartbeatReq"], m.msg_id # Ids["RankingReq"] PROVE HandledWith(m)
  <2>1. Answers(m, scores) = {<<>>}
    BY <1>6, Zenon DEF Answers
  <2>2. replies' = replies \o <<>>
    BY <1>3, <2>1
  <2>3. replies \o <<>> = replies
    BY <1>2, ConcatEmptySeq
  <2> QED BY <1>6, <2>2, <2>3, Zenon DEF HandledWith
<1> QED BY <1>1, <1>4, <1>5, <1>6, Zenon

\* The notices are of neither kind.
LEMMA ChatSends ==
  ASSUME TypeOK, TypeOK', NEW p \in Others, NEW text \in Texts, Chat(p, text)
  PROVE  /\ handled' = handled
         /\ \A type \in {"HeartbeatResp", "RankingResp"} :
               OfType(Fitting(replies'), type) = OfType(Fitting(replies), type)
<1> DEFINE w == ChatNotice(p, text)
<1>1. replies' = replies \o <<w>> /\ handled' = handled
  BY Zenon DEF Chat, Notify, SendAll, reading_vars
<1>2. w.msg_id = Ids["ChatNotify"]
  BY DEF ChatNotice, Wire
<1> HIDE DEF w
<1>3. replies \in Seq(Message) /\ replies' \in Seq(Message)
  BY DEF TypeOK
<1>4. w \in Message /\ replies' = Append(replies, w)
  BY <1>1, <1>3, LastIsMessage
<1>5. ASSUME NEW type \in {"HeartbeatResp", "RankingResp"}
      PROVE  OfType(Fitting(replies'), type) = OfType(Fitting(replies), type)
  <2>1. SentMore(replies, w, type)
    BY <1>3, <1>4, SendsOne
  <2>2. w.msg_id # Ids[type]
    BY <1>2, DifferentIds, Zenon DEF IdsDiffer
  <2> QED BY <2>1, <2>2, <1>4, Zenon DEF SentMore
<1> QED BY <1>1, <1>5

\* No other step sends anything.
LEMMA OthersSendNothing ==
  ASSUME Transport \/ Report \/ UNCHANGED protocol_vars
  PROVE  UNCHANGED <<handled, replies, scores>>
<1>1. CASE Transport \/ UNCHANGED protocol_vars
  BY <1>1, TransportQuiet
<1>2. CASE Report
  BY <1>2, Zenon DEF Report, connection_vars, reading_vars, writing_vars
<1> QED BY <1>1, <1>2

-------------------------------------------------------------------------------
(***************************************************************************)
(* Heartbeats.  The k-th answer sent is that of the k-th handled.          *)
(***************************************************************************)
\* The time that a heartbeat tells is a number of 64 bits, whatever its bytes.
LEMMA TimeType ==
  ASSUME NEW body \in Seq(Byte)
  PROVE  Parse(HeartbeatReqFields, body).client_time_ms \in Int64s
<1>1. DOMAIN HeartbeatReqFields = 1..2
  BY DEF HeartbeatReqFields
<1>2. HeartbeatReqFields[1] = Int64("client_time_ms") /\ HeartbeatReqFields[2] = Int64("last_rtt_ms")
  BY DEF HeartbeatReqFields
<1>3. /\ HeartbeatReqFields[1].name = "client_time_ms" /\ HeartbeatReqFields[2].name = "last_rtt_ms"
      /\ HeartbeatReqFields[1].kind = "int"
  BY <1>2 DEF Int64
<1>4. 1 \in 1..2 /\ 2 \in 1..2 /\ \A n \in 1..2 : n = 1 \/ n = 2
  BY SMT
<1>5. "client_time_ms" \in Names(HeartbeatReqFields)
  BY <1>1, <1>3, <1>4, Zenon DEF Names
<1>6. NumberOf(HeartbeatReqFields, "client_time_ms") = 1
  <2>1. \A n \in DOMAIN HeartbeatReqFields : HeartbeatReqFields[n].name = "client_time_ms" <=> n = 1
    BY <1>1, <1>3, <1>4
  <2>2. 1 \in DOMAIN HeartbeatReqFields
    BY <1>1, <1>4
  <2> QED BY <2>1, <2>2 DEF NumberOf
<1>7. Field(HeartbeatReqFields, "client_time_ms").kind = "int"
  BY <1>3, <1>6, Zenon DEF Field
<1>8. Parse(HeartbeatReqFields, body)["client_time_ms"] \in Int64s
  BY <1>5, <1>7, NumberType
<1> QED BY <1>8

\* The answer to a heartbeat makes a packet, and is read back with its time.
EchoBody(body) ==
  Serialize(HeartbeatRespFields, HeartbeatResp(Parse(HeartbeatReqFields, body).client_time_ms, ServerTime))
Echoed(body) ==
  Parse(HeartbeatRespFields, EchoBody(body)).client_time_ms =
     Parse(HeartbeatReqFields, body).client_time_ms

LEMMA EchoIsRead ==
  ASSUME NEW body \in Seq(Byte)
  PROVE  Echoed(body) /\ Len(EchoBody(body)) <= 22
<1>1. PICK t \in Int64s : t = Parse(HeartbeatReqFields, body).client_time_ms
  BY TimeType
<1>2. PICK resp : resp = HeartbeatResp(t, ServerTime)
  OBVIOUS
<1>3. MessageOf(HeartbeatRespFields, resp)
  BY <1>2, NumbersAssumption, HeartbeatRespIs, Zenon
<1>4. EchoBody(body) = Serialize(HeartbeatRespFields, resp)
  BY <1>1, <1>2, Zenon DEF EchoBody
<1>5. Parse(HeartbeatRespFields, EchoBody(body)) = resp
  BY <1>3, <1>4, ParseSerialize
<1>6. resp.client_time_ms = t
  BY <1>2 DEF HeartbeatResp
<1>7. /\ DOMAIN HeartbeatRespFields = 1..2
      /\ HeartbeatRespFields[1].kind = "int" /\ HeartbeatRespFields[2].kind = "int"
  BY SMT DEF HeartbeatRespFields, Int64
<1>8. Len(EchoBody(body)) <= 22
  BY <1>3, <1>4, <1>7, TwoNumbers
<1> QED BY <1>1, <1>5, <1>6, <1>8, Zenon DEF Echoed

Echoes(asked, answered) ==
  Len(answered) = Len(asked) /\ \A k \in 1..Len(asked) : answered[k].body = EchoBody(asked[k].body)
EchoInv == Echoes(OfType(handled, "HeartbeatReq"), OfType(Fitting(replies), "HeartbeatResp"))

LEMMA EchoesMore ==
  ASSUME NEW asked \in Seq(Message), NEW answered \in Seq(Message), Echoes(asked, answered),
         NEW m \in Message, NEW w \in Message, w.body = EchoBody(m.body)
  PROVE  Echoes(Append(asked, m), Append(answered, w))
<1>1. PICK n \in Nat : n = Len(asked) /\ n = Len(answered)
  BY LenProperties DEF Echoes
<1>2. PICK a, b : a = Append(asked, m) /\ b = Append(answered, w)
  OBVIOUS
<1>3. /\ Len(a) = n + 1 /\ a[n + 1] = m /\ \A k \in 1..n : a[k] = asked[k]
      /\ Len(b) = n + 1 /\ b[n + 1] = w /\ \A k \in 1..n : b[k] = answered[k]
  <2>1. /\ Len(Append(asked, m)) = Len(asked) + 1 /\ Append(asked, m)[Len(asked) + 1] = m
        /\ \A k \in 1..Len(asked) : Append(asked, m)[k] = asked[k]
    BY AppendProperties
  <2>2. /\ Len(Append(answered, w)) = Len(answered) + 1 /\ Append(answered, w)[Len(answered) + 1] = w
        /\ \A k \in 1..Len(answered) : Append(answered, w)[k] = answered[k]
    BY AppendProperties
  <2> QED BY <2>1, <2>2, <1>1, <1>2, Zenon
<1>4. \A k \in 1..(n + 1) : k \in 1..n \/ k = n + 1
  BY SMT
<1>5. \A k \in 1..n : answered[k].body = EchoBody(asked[k].body)
  BY <1>1, Zenon DEF Echoes
<1>6. \A k \in 1..(n + 1) : b[k].body = EchoBody(a[k].body)
  BY <1>3, <1>4, <1>5, Zenon
<1> QED BY <1>2, <1>3, <1>6, Zenon DEF Echoes

LEMMA HandleEchoes ==
  ASSUME TypeOK, TypeOK', EchoInv, Handle
  PROVE  EchoInv'
<1>1. PICK m \in Message : handled' = Append(handled, m) /\ HandledWith(m)
  BY HandleSends
<1>2. PICK asked \in Seq(Message), answered \in Seq(Message) :
        asked = OfType(handled, "HeartbeatReq") /\ answered = OfType(Fitting(replies), "HeartbeatResp")
  BY KindType, FittingType DEF TypeOK
<1>3. Echoes(asked, answered)
  BY <1>2, Zenon DEF EchoInv
<1>4. OfType(handled', "HeartbeatReq") =
         IF m.msg_id = Ids["HeartbeatReq"] THEN Append(asked, m) ELSE asked
  <2>1. KindAppended(handled, m, "HeartbeatReq")
    BY KindAppends DEF TypeOK
  <2> QED BY <2>1, <1>1, <1>2, Zenon DEF KindAppended
<1>5. \A w \in Message : SentMore(replies, w, "HeartbeatResp")
  BY SendsOne DEF TypeOK
<1>6. CASE m.msg_id = Ids["HeartbeatReq"]
  <2>1. Beat(m) \in Message /\ replies' = Append(replies, Beat(m))
    BY <1>1, <1>6, DifferentIds, Zenon DEF HandledWith, IdsDiffer
  <2>2. Beat(m).msg_id = Ids["HeartbeatResp"] /\ Beat(m).body = EchoBody(m.body)
    BY DEF Beat, Wire, EchoBody
  <2>3. Fits(Beat(m))
    <3>1. m.body \in Seq(Byte)
      BY MessageParts
    <3>2. Len(EchoBody(m.body)) <= 22
      BY <3>1, EchoIsRead
    <3>3. PICK l \in Nat : l = Len(Beat(m).body)
      BY <2>1, MessageParts
    <3>4. l <= MAX_BODY_SIZE
      BY <2>2, <3>2, <3>3, NumbersAssumption, MaxBodySizeAssumption, SMT
    <3> QED BY <3>3, <3>4, Zenon DEF Fits
  <2>4. OfType(Fitting(replies'), "HeartbeatResp") = Append(answered, Beat(m))
    BY <1>2, <1>5, <2>1, <2>2, <2>3, Zenon DEF SentMore
  <2>5. Echoes(Append(asked, m), Append(answered, Beat(m)))
    BY <1>3, <2>1, <2>2, EchoesMore
  <2>6. Echoes(OfType(handled', "HeartbeatReq"), OfType(Fitting(replies'), "HeartbeatResp"))
    BY <1>4, <1>6, <2>4, <2>5, Zenon
  <2> QED BY <2>6, Zenon DEF EchoInv, Echoes, OfType, Fitting
<1>7. CASE m.msg_id # Ids["HeartbeatReq"]
  <2>1. OfType(Fitting(replies'), "HeartbeatResp") = answered
    <3>1. CASE replies' = replies
      BY <3>1, <1>2, Zenon
    <3>2. ASSUME NEW resp, Rank(resp) \in Message, replies' = Append(replies, Rank(resp))
          PROVE  OfType(Fitting(replies'), "HeartbeatResp") = answered
      <4>1. Rank(resp).msg_id = Ids["RankingResp"]
        BY DEF Rank, Wire
      <4> QED BY <4>1, <3>2, <1>2, <1>5, DifferentIds, Zenon DEF SentMore, IdsDiffer
    <3> QED BY <3>1, <3>2, <1>1, <1>7, Zenon DEF HandledWith
  <2>2. Echoes(OfType(handled', "HeartbeatReq"), OfType(Fitting(replies'), "HeartbeatResp"))
    BY <1>3, <1>4, <1>7, <2>1, Zenon
  <2> QED BY <2>2, Zenon DEF EchoInv, Echoes, OfType, Fitting
<1> QED BY <1>6, <1>7

\* Every step answers the heartbeats that it handles.
LEMMA EchoInductive ==
  ASSUME TypeOK, TypeOK', EchoInv, [ProtocolNext]_protocol_vars
  PROVE  EchoInv'
<1>1. CASE Transport \/ Report \/ UNCHANGED protocol_vars
  <2>1. UNCHANGED <<handled, replies>>
    BY <1>1, OthersSendNothing
  <2> QED BY <2>1, Zenon DEF EchoInv, Echoes, OfType, Fitting
<1>2. CASE Handle
  BY <1>2, HandleEchoes
<1>3. ASSUME NEW p \in Others, NEW text \in Texts, Chat(p, text) PROVE EchoInv'
  <2>1. handled' = handled
        /\ OfType(Fitting(replies'), "HeartbeatResp") = OfType(Fitting(replies), "HeartbeatResp")
    BY <1>3, ChatSends
  <2>2. Echoes(OfType(handled', "HeartbeatReq"), OfType(Fitting(replies'), "HeartbeatResp"))
    BY <2>1, Zenon DEF EchoInv
  <2> QED BY <2>2, Zenon DEF EchoInv, Echoes, OfType, Fitting
<1> QED BY <1>1, <1>2, <1>3, Zenon DEF ProtocolNext

\* What the client reads are the first of the answers sent.
LEMMA EchoImplies ==
  ASSUME ConnInv, Answered, EchoInv
  PROVE  HeartbeatEcho
<1>1. /\ handled \in Seq(Message) /\ requests \in Seq(Message) /\ received \in Seq(Message)
      /\ Starts(handled, requests)
      /\ Starts(received, Fitting(replies)) /\ Fitting(replies) \in Seq(Message)
  <2>1. handled \in Seq(Message) /\ requests \in Seq(Requests) /\ received \in Seq(Message)
    BY DEF ConnInv, TypeOK
  <2>2. requests \in Seq(Message)
    BY <2>1, RequestsAssumption, WiderSeq
  <2> QED BY <2>1, <2>2, HandledStarts, ReceivedStarts
<1>2. PICK asked \in Seq(Message), beats \in Seq(Message), sent \in Seq(Message), answered \in Seq(Message) :
        /\ asked = OfType(requests, "HeartbeatReq") /\ beats = OfType(handled, "HeartbeatReq")
        /\ sent = OfType(Fitting(replies), "HeartbeatResp") /\ answered = OfType(received, "HeartbeatResp")
  BY <1>1, KindType
<1>3. Starts(beats, asked) /\ Starts(answered, sent)
  BY <1>1, <1>2, KindStarts
<1>4. Echoes(beats, sent)
  BY <1>2, Zenon DEF EchoInv
<1>5. PICK a \in Nat, b \in Nat, c \in Nat : a = Len(answered) /\ b = Len(beats) /\ c = Len(asked)
  BY LenProperties
<1>6. a <= b /\ b <= c
  BY <1>3, <1>4, <1>5, Zenon DEF Starts, Echoes
<1>7. ASSUME NEW k \in 1..a
      PROVE  Parse(HeartbeatRespFields, answered[k].body).client_time_ms =
                Parse(HeartbeatReqFields, asked[k].body).client_time_ms
  <2>1. k \in 1..b /\ k \in 1..c
    BY <1>6, SMT
  <2>2. answered[k] = sent[k] /\ beats[k] = asked[k] /\ sent[k].body = EchoBody(beats[k].body)
    BY <2>1, <1>3, <1>4, <1>5, Zenon DEF Starts, Echoes
  <2>3. asked[k] \in Message
    BY <2>1, <1>5, ElementOfSeq
  <2>4. asked[k].body \in Seq(Byte)
    BY <2>3, MessageParts
  <2>5. Echoed(asked[k].body)
    BY <2>4, EchoIsRead
  <2> QED BY <2>2, <2>5, Zenon DEF Echoed
<1>8. DOMAIN answered = 1..a /\ a <= c
  BY <1>5, <1>6, LenProperties, SMT
<1> QED BY <1>2, <1>5, <1>7, <1>8, Zenon DEF HeartbeatEcho

\* The k-th answer to a heartbeat that the client reads carries the time of its k-th
\* heartbeat (HeartbeatService's answer, encoded, queued, written, read and decoded),
\* for every interleaving with the other requests, the pushes and the reports.
THEOREM HeartbeatsAreEchoed == ~ShortWrites => (ProtocolSpec => []HeartbeatEcho)
<1> SUFFICES ASSUME ~ShortWrites PROVE ProtocolSpec => []HeartbeatEcho
  OBVIOUS
<1>1. ProtocolSpec => [](ConnInv /\ Answered)
  BY ProtocolConnects
<1>2. ProtocolInit => EchoInv
  <2> SUFFICES ASSUME ProtocolInit PROVE EchoInv
    OBVIOUS
  <2>1. handled = <<>> /\ replies = <<>>
    BY Zenon DEF ProtocolInit, Init
  <2>2. Fitting(<<>>) = <<>>
    BY SelectedEmpty, Zenon DEF Fitting
  <2>3. OfType(<<>>, "HeartbeatReq") = <<>> /\ OfType(<<>>, "HeartbeatResp") = <<>>
    BY NoneOfKind
  <2>4. Echoes(<<>>, <<>>)
    BY SMT DEF Echoes
  <2> QED BY <2>1, <2>2, <2>3, <2>4, Zenon DEF EchoInv
<1>3. TypeOK /\ TypeOK' /\ EchoInv /\ [ProtocolNext]_protocol_vars => EchoInv'
  BY EchoInductive
<1>4. ConnInv /\ Answered /\ EchoInv => HeartbeatEcho
  BY EchoImplies
<1>5. ConnInv => TypeOK
  BY DEF ConnInv
<1> QED BY <1>1, <1>2, <1>3, <1>4, <1>5, PTL DEF ProtocolSpec

-------------------------------------------------------------------------------
(***************************************************************************)
(* Rankings.  What one says of the scores it was made of.                  *)
(***************************************************************************)
Players == Others \cup {Self}
Snapshot == [Players -> 0..MaxScore]

LEMMA PlayersAreFinite == IsFiniteSet(Players) /\ Cardinality(Players) \in Nat
<1>1. IsFiniteSet({Self})
  BY FS_Singleton
<1> QED BY <1>1, OthersAssumption, FS_Union, FS_CardinalityType DEF Players

\* Every player has a place in the order.
LEMMA OrdersAreWhole ==
  ASSUME NEW score \in Snapshot, NEW order \in Sorted(score), NEW p \in Players
  PROVE  \E j \in 1..Cardinality(Players) : order[j] = p
<1>1. PICK n \in Nat : n = Cardinality(Players)
  BY PlayersAreFinite
<1>2. DOMAIN score = Players
  BY DEF Snapshot
<1>3. /\ order \in [1..n -> Players]
      /\ \A i, j \in DOMAIN order : i < j => order[i] # order[j]
  BY <1>1, <1>2 DEF Sorted
<1>4. DOMAIN order = 1..n
  BY <1>3
<1>5. ASSUME NEW i \in DOMAIN order, NEW j \in DOMAIN order, order[i] = order[j] PROVE i = j
  <2>1. i < j \/ j < i \/ i = j
    BY <1>4, SMT
  <2> QED BY <2>1, <1>3, <1>5, Zenon
<1>6. order \in Injection(1..n, Players)
  BY <1>3, <1>5, Zenon DEF Injection, IsInjective
<1>7. Cardinality(1..n) = n
  <2>1. 1 \in Int /\ n \in Int
    BY SMT
  <2>2. Cardinality(1..n) = IF 1 > n THEN 0 ELSE n - 1 + 1
    BY <2>1, FS_Interval
  <2> QED BY <2>2, SMT
<1>8. order \in Surjection(1..n, Players)
  BY <1>1, <1>6, <1>7, PlayersAreFinite, FS_Injection
<1> QED BY <1>1, <1>8 DEF Surjection

\* The items are those of the first players of an order.
ListedBy(items, order, size, score) ==
  items = [i \in 1..size |-> RankingItem(order[i], score[order[i]])]

\* A ranking lists the first players of an order.
LEMMA RankingLists ==
  ASSUME NEW score \in Snapshot, NEW top \in Int, NEW resp \in Rankings(score, top)
  PROVE  /\ resp = RankingResp(resp.items)
         /\ \E order \in Sorted(score), size \in 0..Cardinality(Players) :
               ListedBy(resp.items, order, size, score)
<1>1. PICK n \in Nat : n = Cardinality(Players)
  BY PlayersAreFinite
<1>2. DOMAIN score = Players
  BY DEF Snapshot
<1>3. PICK order \in Sorted(score) :
        resp = RankingResp([i \in 1..RankingSize(top, n) |-> RankingItem(order[i], score[order[i]])])
  BY <1>1, <1>2, Zenon DEF Rankings
<1>4. PICK items : items = [i \in 1..RankingSize(top, n) |-> RankingItem(order[i], score[order[i]])]
  OBVIOUS
<1>5. resp = RankingResp(items)
  BY <1>3, <1>4, Zenon
<1>6. resp.items = items
  BY <1>5 DEF RankingResp
<1>7. PICK size \in 0..n : 1..RankingSize(top, n) = 1..size
  <2>1. CASE top >= 0 /\ top < n
    <3>1. RankingSize(top, n) \in 0..n
      BY <2>1, SMT DEF RankingSize
    <3> QED BY <3>1
  <2>2. CASE top >= n
    <3>1. RankingSize(top, n) \in 0..n
      BY <2>2, SMT DEF RankingSize
    <3> QED BY <3>1
  <2>3. CASE top < 0
    <3>1. 1..RankingSize(top, n) = 1..0 /\ 0 \in 0..n
      BY <2>3, SMT DEF RankingSize
    <3> QED BY <3>1
  <2> QED BY <2>1, <2>2, <2>3, SMT
<1>8. ListedBy(items, order, size, score)
  BY <1>4, <1>7, Zenon DEF ListedBy
<1> QED BY <1>1, <1>5, <1>6, <1>8, Zenon

\* Sorted, nobody twice; of everybody it lists, the score; and nobody left out has more
\* than the last.
Truly(items, score) ==
  /\ \A i, j \in DOMAIN items :
        i < j => items[i].player_id # items[j].player_id /\ items[i].score >= items[j].score
  /\ \A p \in Listed(items) : p \in Players /\ ScoreIn(items, p) = score[p]
  /\ \A p \in Players \ Listed(items) : items # <<>> => score[p] <= Last(items).score

\* A ranking is true of the scores that it was made of.
LEMMA RankingsAreTrue ==
  ASSUME NEW score \in Snapshot, NEW order \in Sorted(score),
         NEW size \in 0..Cardinality(Players), NEW items, ListedBy(items, order, size, score)
  PROVE  Truly(items, score) /\ items \in Seq(Items)
<1>1. PICK n \in Nat : n = Cardinality(Players)
  BY PlayersAreFinite
<1>2. DOMAIN score = Players /\ \A p \in Players : score[p] \in 0..MaxScore
  BY DEF Snapshot
<1>3. /\ order \in [1..n -> Players]
      /\ \A i, j \in DOMAIN order : i < j => order[i] # order[j] /\ score[order[i]] >= score[order[j]]
  BY <1>1, <1>2 DEF Sorted
<1>4. DOMAIN order = 1..n /\ \A i \in 1..n : order[i] \in Players
  BY <1>3
<1>s. size \in 0..n /\ size \in Nat
  BY <1>1, SMT
<1>5. \A i \in 1..size : i \in 1..n
  BY <1>s, SMT
<1> DEFINE item(i) == RankingItem(order[i], score[order[i]])
<1>6. ASSUME NEW i \in 1..size PROVE item(i) \in Items
  <2>1. order[i] \in Players /\ score[order[i]] \in 0..MaxScore
    BY <1>2, <1>4, <1>5
  <2>2. order[i] \in Int64s /\ score[order[i]] \in Int64s
    BY <2>1, NumbersAssumption DEF Players
  <2> QED BY <2>2 DEF Items
<1>7. \A i \in 1..size : item(i).player_id = order[i] /\ item(i).score = score[order[i]]
  BY DEF RankingItem
<1>8. items = [i \in 1..size |-> item(i)]
  BY Zenon DEF ListedBy
<1> HIDE DEF item
<1>9. items \in Seq(Items) /\ Len(items) = size /\ DOMAIN items = 1..size
  BY <1>s, <1>6, <1>8
<1>10. \A i \in 1..size : items[i].player_id = order[i] /\ items[i].score = score[order[i]]
  BY <1>7, <1>8
<1>11. ASSUME NEW i \in DOMAIN items, NEW j \in DOMAIN items, i < j
       PROVE  items[i].player_id # items[j].player_id /\ items[i].score >= items[j].score
  <2>1. i \in DOMAIN order /\ j \in DOMAIN order
    BY <1>4, <1>5, <1>9, Zenon
  <2>2. order[i] # order[j] /\ score[order[i]] >= score[order[j]]
    BY <2>1, <1>3, <1>11, Zenon
  <2>3. /\ items[i].player_id = order[i] /\ items[i].score = score[order[i]]
        /\ items[j].player_id = order[j] /\ items[j].score = score[order[j]]
    BY <1>9, <1>10, Zenon
  <2> QED BY <2>2, <2>3
<1>12. ASSUME NEW p \in Listed(items)
       PROVE  p \in Players /\ ScoreIn(items, p) = score[p]
  <2>1. PICK i \in 1..size : p = items[i].player_id
    BY <1>9 DEF Listed
  <2>2. p = order[i] /\ p \in Players
    BY <2>1, <1>4, <1>5, <1>10
  <2>3. PICK k : k = CHOOSE j \in DOMAIN items : items[j].player_id = p
    OBVIOUS
  <2>4. k \in DOMAIN items /\ items[k].player_id = p
    BY <2>1, <2>3, <1>9
  <2>5. items[k].score = score[p]
    BY <2>4, <1>9, <1>10, Zenon
  <2> QED BY <2>2, <2>3, <2>5, Zenon DEF ScoreIn
<1>13. ASSUME NEW p \in Players \ Listed(items), items # <<>>
       PROVE  score[p] <= Last(items).score
  <2>1. PICK j \in 1..n : order[j] = p
    BY <1>1, OrdersAreWhole
  <2>2. j \notin 1..size
    <3>1. ASSUME j \in 1..size PROVE FALSE
      <4>1. items[j].player_id = p /\ j \in DOMAIN items
        BY <2>1, <3>1, <1>9, <1>10
      <4> QED BY <4>1, <1>13 DEF Listed
    <3> QED BY <3>1
  <2>3. size # 0
    <3>1. ASSUME size = 0 PROVE items = <<>>
      BY <3>1, <1>9
    <3> QED BY <3>1, <1>13
  <2>4. size \in 1..n /\ size < j /\ size \in 1..size
    BY <2>2, <2>3, <1>s, SMT
  <2>5. score[order[size]] >= score[order[j]]
    BY <2>4, <1>3, <1>4, Zenon
  <2>6. Last(items).score = score[order[size]]
    BY <2>4, <1>9, <1>10, Zenon DEF Last
  <2>7. score[order[size]] \in 0..MaxScore /\ score[p] \in 0..MaxScore
    BY <2>4, <1>2, <1>4
  <2> QED BY <2>1, <2>5, <2>6, <2>7, NumbersAssumption, SMT
<1>14. (\A p \in Listed(items) : p \in Players /\ ScoreIn(items, p) = score[p])
       /\ \A p \in Players \ Listed(items) : items # <<>> => score[p] <= Last(items).score
  BY <1>12, <1>13
<1>15. Truly(items, score)
  BY <1>11, <1>14, Zenon DEF Truly
<1> QED BY <1>9, <1>15

-------------------------------------------------------------------------------
(***************************************************************************)
(* Each ranking sent is that of the scores at its time, and the scores     *)
(* only rise.                                                              *)
(***************************************************************************)
AtMost(f, g) == \A p \in Players : f[p] <= g[p]

RankedOf(m, score) ==
  \E top \in Int : \E resp \in Rankings(score, top) : m.body = Serialize(RankingRespFields, resp)

RankedBy(sent, snaps, present) ==
  /\ snaps \in Seq(Snapshot) /\ Len(snaps) = Len(sent)
  /\ \A k \in 1..Len(sent) : RankedOf(sent[k], snaps[k]) /\ AtMost(snaps[k], present)
  /\ \A j, k \in 1..Len(sent) : j <= k => AtMost(snaps[j], snaps[k])

RankInv ==
  /\ scores \in Snapshot
  /\ \E snaps : RankedBy(OfType(Fitting(replies), "RankingResp"), snaps, scores)

LEMMA AtMostFacts ==
  ASSUME NEW f \in Snapshot, NEW g \in Snapshot, NEW h \in Snapshot
  PROVE  AtMost(f, f) /\ (AtMost(f, g) /\ AtMost(g, h) => AtMost(f, h))
<1>1. \A p \in Players : f[p] \in Int /\ g[p] \in Int /\ h[p] \in Int
  BY NumbersAssumption, SMT DEF Snapshot
<1> HIDE DEF Snapshot
<1>2. \A a \in Int : a <= a
  BY SMT
<1>3. \A a, b, c \in Int : a <= b /\ b <= c => a <= c
  BY SMT
<1> QED BY <1>1, <1>2, <1>3, Zenon DEF AtMost

\* Scores only rise.
LEMMA ScoresRise ==
  ASSUME NEW sent, NEW snaps, NEW f \in Snapshot, NEW g \in Snapshot,
         RankedBy(sent, snaps, f), AtMost(f, g)
  PROVE  RankedBy(sent, snaps, g)
<1>1. \A k \in 1..Len(sent) : snaps[k] \in Snapshot
  BY ElementOfSeq, Zenon DEF RankedBy
<1>2. \A k \in 1..Len(sent) : AtMost(snaps[k], g)
  BY <1>1, AtMostFacts, Zenon DEF RankedBy
<1> QED BY <1>2, Zenon DEF RankedBy

\* One more ranking, of the present scores.
LEMMA RanksMore ==
  ASSUME NEW sent \in Seq(Message), NEW snaps, NEW f \in Snapshot, RankedBy(sent, snaps, f),
         NEW w \in Message, RankedOf(w, f)
  PROVE  RankedBy(Append(sent, w), Append(snaps, f), f)
<1>1. snaps \in Seq(Snapshot)
  BY DEF RankedBy
<1>2. PICK n \in Nat : n = Len(sent) /\ n = Len(snaps)
  BY LenProperties DEF RankedBy
<1>3. PICK a, b : a = Append(sent, w) /\ b = Append(snaps, f)
  OBVIOUS
<1>4. /\ Len(a) = n + 1 /\ a[n + 1] = w /\ \A k \in 1..n : a[k] = sent[k]
      /\ b \in Seq(Snapshot) /\ Len(b) = n + 1 /\ b[n + 1] = f /\ \A k \in 1..n : b[k] = snaps[k]
  <2>1. /\ Len(Append(sent, w)) = Len(sent) + 1 /\ Append(sent, w)[Len(sent) + 1] = w
        /\ \A k \in 1..Len(sent) : Append(sent, w)[k] = sent[k]
    BY AppendProperties
  <2>2. /\ Append(snaps, f) \in Seq(Snapshot)
        /\ Len(Append(snaps, f)) = Len(snaps) + 1 /\ Append(snaps, f)[Len(snaps) + 1] = f
        /\ \A k \in 1..Len(snaps) : Append(snaps, f)[k] = snaps[k]
    BY <1>1, AppendProperties
  <2> QED BY <2>1, <2>2, <1>2, <1>3, Zenon
<1>5. /\ \A k \in 1..(n + 1) : k \in 1..n \/ k = n + 1
      /\ \A k \in 1..n : ~(n + 1 <= k)
  BY SMT
<1>6. /\ \A k \in 1..n : RankedOf(sent[k], snaps[k]) /\ AtMost(snaps[k], f)
      /\ \A j, k \in 1..n : j <= k => AtMost(snaps[j], snaps[k])
  BY <1>2, Zenon DEF RankedBy
<1>7. AtMost(f, f)
  BY AtMostFacts
<1>8. \A k \in 1..(n + 1) : RankedOf(a[k], b[k]) /\ AtMost(b[k], f)
  BY <1>4, <1>5, <1>6, <1>7, Zenon
<1>9. \A j, k \in 1..(n + 1) : j <= k => AtMost(b[j], b[k])
  BY <1>4, <1>5, <1>6, <1>7, Zenon
<1> QED BY <1>3, <1>4, <1>8, <1>9, Zenon DEF RankedBy

LEMMA TopType ==
  ASSUME NEW body \in Seq(Byte)
  PROVE  Narrowed(Parse(RankingReqFields, body).top_n) \in Int
<1>1. DOMAIN RankingReqFields = 1..1 /\ RankingReqFields[1] = Int64("top_n")
  BY DEF RankingReqFields
<1>2. RankingReqFields[1].name = "top_n" /\ RankingReqFields[1].kind = "int"
  BY <1>1 DEF Int64
<1>3. 1 \in 1..1 /\ \A n \in 1..1 : n = 1
  BY SMT
<1>4. "top_n" \in Names(RankingReqFields)
  BY <1>1, <1>2, <1>3, Zenon DEF Names
<1>5. NumberOf(RankingReqFields, "top_n") = 1
  BY <1>1, <1>2, <1>3 DEF NumberOf
<1>6. Field(RankingReqFields, "top_n").kind = "int"
  BY <1>2, <1>5, Zenon DEF Field
<1>7. Parse(RankingReqFields, body)["top_n"] \in Int64s
  BY <1>4, <1>6, NumberType
<1>8. Narrowed(Parse(RankingReqFields, body).top_n) \in Int32s
  <2>1. PICK top \in Int : top = Parse(RankingReqFields, body).top_n
    BY <1>7 DEF Int64s
  <2> QED BY <2>1, NarrowedFacts
<1> QED BY <1>8 DEF Int32s, Int64s

LEMMA HandleRanks ==
  ASSUME TypeOK, TypeOK', RankInv, Handle
  PROVE  RankInv'
<1>1. PICK m \in Message : handled' = Append(handled, m) /\ HandledWith(m) /\ scores' = scores
  BY HandleSends
<1>2. PICK sent \in Seq(Message) : sent = OfType(Fitting(replies), "RankingResp")
  BY KindType, FittingType DEF TypeOK
<1>3. PICK snaps : RankedBy(sent, snaps, scores)
  BY <1>2, Zenon DEF RankInv
<1>4. \A w \in Message : SentMore(replies, w, "RankingResp")
  BY SendsOne DEF TypeOK
<1>5. \E more : RankedBy(OfType(Fitting(replies'), "RankingResp"), more, scores)
  <2>1. CASE replies' = replies
    BY <2>1, <1>2, <1>3, Zenon
  <2>2. ASSUME Beat(m) \in Message, replies' = Append(replies, Beat(m))
        PROVE  OfType(Fitting(replies'), "RankingResp") = sent
    <3>1. Beat(m).msg_id = Ids["HeartbeatResp"]
      BY DEF Beat, Wire
    <3> QED BY <3>1, <2>2, <1>2, <1>4, DifferentIds, Zenon DEF SentMore, IdsDiffer
  <2>3. ASSUME NEW resp \in RanksFor(m, scores), Rank(resp) \in Message,
               replies' = Append(replies, Rank(resp))
        PROVE  \E more : RankedBy(OfType(Fitting(replies'), "RankingResp"), more, scores)
    <3>1. PICK w \in Message : w = Rank(resp)
      BY <2>3
    <3>2. CASE ~(Fits(w) /\ w.msg_id = Ids["RankingResp"])
      BY <3>1, <3>2, <2>3, <1>2, <1>3, <1>4, Zenon DEF SentMore
    <3>3. CASE Fits(w) /\ w.msg_id = Ids["RankingResp"]
      <4>1. OfType(Fitting(replies'), "RankingResp") = Append(sent, w)
        BY <3>1, <3>3, <2>3, <1>2, <1>4, Zenon DEF SentMore
      <4>2. w.body = Serialize(RankingRespFields, resp)
        BY <3>1 DEF Rank, Wire
      <4>3. PICK top \in Int : top = Narrowed(Parse(RankingReqFields, m.body).top_n)
        <5>1. m.body \in Seq(Byte)
          BY MessageParts
        <5> QED BY <5>1, TopType
      <4>4. RankedOf(w, scores)
        BY <4>2, <4>3, Zenon DEF RankedOf, RanksFor
      <4>5. RankedBy(Append(sent, w), Append(snaps, scores), scores)
        BY <4>4, <1>3, RanksMore DEF RankInv
      <4> QED BY <4>1, <4>5, Zenon
    <3> QED BY <3>2, <3>3
  <2> QED BY <2>1, <2>2, <2>3, <1>1, <1>3, Zenon DEF HandledWith
<1> QED BY <1>1, <1>5, Zenon DEF RankInv, RankedBy, AtMost, OfType, Fitting

LEMMA ChatRanks ==
  ASSUME TypeOK, TypeOK', RankInv, NEW p \in Others, NEW text \in Texts, Chat(p, text)
  PROVE  RankInv'
<1>1. OfType(Fitting(replies'), "RankingResp") = OfType(Fitting(replies), "RankingResp")
  BY ChatSends
<1>2. scores' = [scores EXCEPT ![p] = @ + 1] /\ scores[p] < MaxScore /\ scores \in [Players -> 0..MaxScore]
  BY Zenon DEF Chat, RankInv, Snapshot
<1>3. p \in Players
  BY DEF Players
<1>4. \A q \in Players : scores'[q] = IF q = p THEN scores[p] + 1 ELSE scores[q]
  BY <1>2, <1>3
<1>5. \A q \in Players : scores[q] \in 0..MaxScore
  BY <1>2
<1>6. ASSUME NEW q \in Players PROVE scores'[q] \in 0..MaxScore /\ scores[q] <= scores'[q]
  <2>1. PICK a \in 0..MaxScore, b \in 0..MaxScore : a = scores[q] /\ b = scores[p]
    BY <1>3, <1>5
  <2>2. b < MaxScore /\ (q = p => a = b)
    BY <2>1, <1>2
  <2>3. b + 1 \in 0..MaxScore /\ b <= b + 1 /\ a <= a
    BY <2>2, NumbersAssumption, SMT
  <2>4. CASE q = p
    BY <2>1, <2>2, <2>3, <2>4, <1>4
  <2>5. CASE q # p
    BY <2>1, <2>3, <2>5, <1>4
  <2> QED BY <2>4, <2>5
<1>7. scores' \in Snapshot
  <2>1. scores' = [q \in Players |-> scores'[q]]
    BY <1>2
  <2> QED BY <2>1, <1>6 DEF Snapshot
<1>8. AtMost(scores, scores')
  BY <1>6, Zenon DEF AtMost
<1>9. PICK snaps : RankedBy(OfType(Fitting(replies), "RankingResp"), snaps, scores)
  BY DEF RankInv
<1>10. RankedBy(OfType(Fitting(replies'), "RankingResp"), snaps, scores')
  BY <1>1, <1>7, <1>8, <1>9, ScoresRise DEF RankInv
<1> QED BY <1>7, <1>10, Zenon DEF RankInv, RankedBy, AtMost, OfType, Fitting

\* Every step keeps the rankings true.
LEMMA RankInductive ==
  ASSUME TypeOK, TypeOK', RankInv, [ProtocolNext]_protocol_vars
  PROVE  RankInv'
<1>1. CASE Transport \/ Report \/ UNCHANGED protocol_vars
  <2>1. UNCHANGED <<handled, replies, scores>>
    BY <1>1, OthersSendNothing
  <2>2. PICK snaps : RankedBy(OfType(Fitting(replies), "RankingResp"), snaps, scores)
    BY DEF RankInv
  <2>3. RankedBy(OfType(Fitting(replies'), "RankingResp"), snaps, scores') /\ scores' \in Snapshot
    BY <2>1, <2>2, Zenon DEF RankInv
  <2> QED BY <2>3, Zenon DEF RankInv, RankedBy, AtMost, OfType, Fitting
<1>2. CASE Handle
  BY <1>2, HandleRanks
<1>3. ASSUME NEW p \in Others, NEW text \in Texts, Chat(p, text) PROVE RankInv'
  BY <1>3, ChatRanks
<1> QED BY <1>1, <1>2, <1>3, Zenon DEF ProtocolNext

LEMMA InitRank ==
  ASSUME ProtocolInit
  PROVE  RankInv
<1>1. replies = <<>> /\ scores = [p \in Players |-> 0]
  BY DEF ProtocolInit, Init, Players
<1>2. scores \in Snapshot
  <2>1. 0 \in 0..MaxScore
    BY NumbersAssumption, SMT
  <2> QED BY <2>1, <1>1 DEF Snapshot
<1>3. Fitting(<<>>) = <<>>
  BY SelectedEmpty, Zenon DEF Fitting
<1>4. OfType(<<>>, "RankingResp") = <<>>
  BY NoneOfKind
<1>5. RankedBy(<<>>, <<>>, scores)
  <2>1. <<>> \in Seq(Snapshot) /\ Len(<<>>) = 0 /\ 1..0 = {}
    BY EmptySeq, SMT
  <2> QED BY <2>1, Zenon DEF RankedBy
<1> QED BY <1>1, <1>2, <1>3, <1>4, <1>5, Zenon DEF RankInv

\* What the client reads in a ranking of some scores.
LEMMA RankIsRead ==
  ASSUME NEW m, NEW score \in Snapshot, RankedOf(m, score)
  PROVE  /\ Truly(Parse(RankingRespFields, m.body).items, score)
         /\ Parse(RankingRespFields, m.body).items \in Seq(Items)
<1>1. PICK top \in Int : \E resp \in Rankings(score, top) : m.body = Serialize(RankingRespFields, resp)
  BY DEF RankedOf
<1>2. PICK resp \in Rankings(score, top) : m.body = Serialize(RankingRespFields, resp)
  BY <1>1
<1>3. /\ resp = RankingResp(resp.items)
      /\ \E order \in Sorted(score), size \in 0..Cardinality(Players) :
            ListedBy(resp.items, order, size, score)
  BY RankingLists
<1>4. Truly(resp.items, score) /\ resp.items \in Seq(Items)
  BY <1>3, RankingsAreTrue
<1>5. MessageOf(RankingRespFields, resp)
  BY <1>3, <1>4, RankingRespIs, Zenon
<1>6. Parse(RankingRespFields, m.body) = resp
  BY <1>2, <1>5, ParseSerialize
<1> QED BY <1>4, <1>6, Zenon

LEMMA LastIsNumber ==
  ASSUME NEW items \in Seq(Items), items # <<>>
  PROVE  Last(items).score \in Int
<1>1. Len(items) \in 1..Len(items)
  BY LenProperties, EmptySeq, SMT
<1>2. items[Len(items)] \in Items
  BY <1>1, ElementOfSeq
<1>3. PICK p \in Int64s, score \in Int64s : items[Len(items)] = RankingItem(p, score)
  BY <1>2 DEF Items
<1>4. RankingItem(p, score).score = score /\ score \in Int
  BY DEF RankingItem, Int64s
<1> QED BY <1>3, <1>4, Zenon DEF Last

LEMMA RankImplies ==
  ASSUME ConnInv, Answered, RankInv
  PROVE  RankingsTrue
<1>1. received \in Seq(Message) /\ Starts(received, Fitting(replies)) /\ Fitting(replies) \in Seq(Message)
  BY ReceivedStarts DEF ConnInv, TypeOK
<1>2. PICK sent \in Seq(Message), resps \in Seq(Message) :
        sent = OfType(Fitting(replies), "RankingResp") /\ resps = OfType(received, "RankingResp")
  BY <1>1, KindType
<1>3. Starts(resps, sent)
  BY <1>1, <1>2, KindStarts
<1>4. PICK snaps : RankedBy(sent, snaps, scores)
  BY <1>2, Zenon DEF RankInv
<1>5. PICK n \in Nat, s \in Nat : n = Len(resps) /\ s = Len(sent)
  BY LenProperties
<1>6. n <= s /\ \A k \in 1..n : resps[k] = sent[k]
  BY <1>3, <1>5, Zenon DEF Starts
<1>7. \A k \in 1..n : k \in 1..s
  BY <1>6, SMT
<1>8. \A k \in 1..n : snaps[k] \in Snapshot
  <2>1. snaps \in Seq(Snapshot) /\ Len(snaps) = s
    BY <1>4, <1>5, Zenon DEF RankedBy
  <2>2. \A k \in 1..s : snaps[k] \in Snapshot
    BY <2>1, ElementOfSeq
  <2> QED BY <2>2, <1>7, Zenon
<1> DEFINE items(k) == Parse(RankingRespFields, resps[k].body).items
<1>9. ASSUME NEW k \in 1..n PROVE Truly(items(k), snaps[k]) /\ items(k) \in Seq(Items)
  <2>1. RankedOf(resps[k], snaps[k])
    BY <1>4, <1>5, <1>6, <1>7, Zenon DEF RankedBy
  <2> QED BY <2>1, <1>8, RankIsRead
<1>10. RankingsSeen = [k \in 1..n |-> items(k)]
  <2>1. DOMAIN resps = 1..n
    BY <1>5, LenProperties
  <2> QED BY <2>1, <1>2, Zenon DEF RankingsSeen
<1> HIDE DEF items
<1>11. DOMAIN RankingsSeen = 1..n /\ \A k \in 1..n : RankingsSeen[k] = items(k)
  BY <1>10
<1>12. \A k \in 1..n : \A p \in Players : snaps[k][p] <= scores[p]
  BY <1>4, <1>5, <1>7, Zenon DEF RankedBy, AtMost
<1>13. \A j, k \in 1..n : j <= k => \A p \in Players : snaps[j][p] <= snaps[k][p]
  BY <1>4, <1>5, <1>7, Zenon DEF RankedBy, AtMost
<1>t. \A k \in 1..n : \A p \in Players : snaps[k][p] \in Int
  BY <1>8, NumbersAssumption, SMT DEF Snapshot
<1>s. \A k \in 1..n : Truly(RankingsSeen[k], snaps[k]) /\ RankingsSeen[k] \in Seq(Items)
  BY <1>9, <1>11, Zenon
<1>14. ASSUME NEW k \in 1..n
       PROVE  /\ \A i, j \in DOMAIN RankingsSeen[k] :
                    i < j => /\ RankingsSeen[k][i].player_id # RankingsSeen[k][j].player_id
                             /\ RankingsSeen[k][i].score >= RankingsSeen[k][j].score
              /\ \A p \in Listed(RankingsSeen[k]) : ScoreIn(RankingsSeen[k], p) <= scores[p]
  <2>1. \A p \in Listed(RankingsSeen[k]) : ScoreIn(RankingsSeen[k], p) <= scores[p]
    <3> SUFFICES ASSUME NEW p \in Listed(RankingsSeen[k])
                 PROVE  ScoreIn(RankingsSeen[k], p) <= scores[p]
      OBVIOUS
    <3>1. p \in Players /\ ScoreIn(RankingsSeen[k], p) = snaps[k][p]
      BY <1>s, Zenon DEF Truly
    <3> QED BY <3>1, <1>12, Zenon
  <2> QED BY <2>1, <1>s, Zenon DEF Truly
<1>15. ASSUME NEW k \in 1..n, NEW j \in 1..(k - 1)
       PROVE  /\ \A p \in Listed(RankingsSeen[k]) \cap Listed(RankingsSeen[j]) :
                    ScoreIn(RankingsSeen[j], p) <= ScoreIn(RankingsSeen[k], p)
              /\ \A p \in Listed(RankingsSeen[j]) \ Listed(RankingsSeen[k]) :
                    RankingsSeen[k] # <<>> => ScoreIn(RankingsSeen[j], p) <= Last(RankingsSeen[k]).score
  <2>1. j \in 1..n /\ j <= k
    BY SMT
  <2>2. /\ Truly(RankingsSeen[j], snaps[j]) /\ Truly(RankingsSeen[k], snaps[k])
        /\ RankingsSeen[k] \in Seq(Items)
    BY <2>1, <1>s
  <2>3. \A p \in Players : snaps[j][p] <= snaps[k][p]
    BY <2>1, <1>13
  <2>4. ASSUME NEW p \in Listed(RankingsSeen[k]) \cap Listed(RankingsSeen[j])
        PROVE  ScoreIn(RankingsSeen[j], p) <= ScoreIn(RankingsSeen[k], p)
    <3>1. p \in Players /\ ScoreIn(RankingsSeen[j], p) = snaps[j][p] /\ ScoreIn(RankingsSeen[k], p) = snaps[k][p]
      BY <2>2, Zenon DEF Truly
    <3> QED BY <3>1, <2>3, Zenon
  <2>5. ASSUME NEW p \in Listed(RankingsSeen[j]) \ Listed(RankingsSeen[k]), RankingsSeen[k] # <<>>
        PROVE  ScoreIn(RankingsSeen[j], p) <= Last(RankingsSeen[k]).score
    <3>1. p \in Players /\ ScoreIn(RankingsSeen[j], p) = snaps[j][p]
      BY <2>2, Zenon DEF Truly
    <3>2. snaps[k][p] <= Last(RankingsSeen[k]).score
      BY <2>2, <2>5, <3>1, Zenon DEF Truly
    <3>3. Last(RankingsSeen[k]).score \in Int
      BY <2>2, <2>5, LastIsNumber
    <3>4. snaps[j][p] \in Int /\ snaps[k][p] \in Int /\ snaps[j][p] <= snaps[k][p]
      BY <3>1, <2>1, <2>3, <1>t, Zenon
    <3> QED BY <3>1, <3>2, <3>3, <3>4, SMT
  <2> QED BY <2>4, <2>5
<1>16. \A k \in DOMAIN RankingsSeen : \A j \in 1..(k - 1) : j \in 1..n
  BY <1>11, SMT
<1> QED BY <1>11, <1>14, <1>15, <1>16, Zenon DEF RankingsTrue

\* Each ranking that the client reads (RankingService's get_top, sorted and cut) is
\* sorted, lists nobody twice, shows no score above the present one, none below that of
\* an earlier ranking, and leaves out only who had no more than its last one.
THEOREM RankingsStayTrue == ~ShortWrites => (ProtocolSpec => []RankingsTrue)
<1> SUFFICES ASSUME ~ShortWrites PROVE ProtocolSpec => []RankingsTrue
  OBVIOUS
<1>1. ProtocolSpec => [](ConnInv /\ Answered)
  BY ProtocolConnects
<1>2. ProtocolInit => RankInv
  BY InitRank
<1>3. TypeOK /\ TypeOK' /\ RankInv /\ [ProtocolNext]_protocol_vars => RankInv'
  BY RankInductive
<1>4. ConnInv /\ Answered /\ RankInv => RankingsTrue
  BY RankImplies
<1>5. ConnInv => TypeOK
  BY DEF ConnInv
<1> QED BY <1>1, <1>2, <1>3, <1>4, <1>5, PTL DEF ProtocolSpec
===============================================================================
