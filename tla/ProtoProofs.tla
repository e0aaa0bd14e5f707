----------------------------- MODULE ProtoProofs -----------------------------
(***************************************************************************)
(* What the encoder writes the decoder reads, whatever the fields and the  *)
(* width of a byte, and of what was cut short it reads the first fields.   *)
(***************************************************************************)
EXTENDS Proto, Integers, SequenceTheorems, WellFoundedInduction, TLAPS

-----------------------------------------------------------------------------
(***************************************************************************)
(* Induction and recursion                                                 *)
(***************************************************************************)
LEMMA Least ==
  ASSUME NEW T \in SUBSET Nat, T # {}
  PROVE  \E x \in T : \A y \in T : x <= y
<1> DEFINE R == OpToRel(<, Nat)
<1>1. IsWellFoundedOn(R, Nat)
  BY NatLessThanWellFounded
<1> HIDE DEF R
<1>2. PICK x \in T : \A y \in T : ~(<<y, x>> \in R)
  BY <1>1, WFMin
<1>3. ASSUME NEW y \in T PROVE x <= y
  <2>1. ~(<<y, x>> \in R)
    BY <1>2
  <2>2. ~(y < x)
    BY <2>1 DEF R, OpToRel
  <2> QED BY <2>2
<1> QED BY <1>3

\* The parts of a recursion over S: where it stops, with what, where it goes on,
\* and what it makes of the value there; the rank falls on the way.
Recursive(S, V, Stop, base, next, step, rank) ==
  /\ Stop \in SUBSET S
  /\ base \in [Stop -> V]
  /\ next \in [S \ Stop -> S]
  /\ step \in [S \ Stop -> [V -> V]]
  /\ rank \in [S -> Nat]
  /\ \A x \in S \ Stop : rank[next[x]] < rank[x]

\* A function defined from its values at points of lower rank exists.
LEMMA Recursion ==
  ASSUME NEW S, NEW V, NEW Stop, NEW base, NEW next, NEW step, NEW rank,
         Recursive(S, V, Stop, base, next, step, rank)
  PROVE  \E f \in [S -> V] :
           f = [x \in S |-> IF x \in Stop THEN base[x] ELSE step[x][f[next[x]]]]
<1> USE DEF Recursive
<1> DEFINE Below(n) == {x \in S : rank[x] < n}
           Value(g, x) == IF x \in Stop THEN base[x] ELSE step[x][g[next[x]]]
           Good(n) == {g \in [Below(n) -> V] : \A x \in Below(n) : g[x] = Value(g, x)}
<1>1. ASSUME NEW n \in Nat, NEW x \in Below(n), x \notin Stop
      PROVE  x \in S \ Stop /\ next[x] \in S /\ next[x] \in Below(n) /\ rank[next[x]] < rank[x]
             /\ rank[x] \in Nat /\ rank[next[x]] \in Nat
  <2>1. x \in S \ Stop /\ rank[x] < n
    BY <1>1
  <2>2. next[x] \in S /\ rank[next[x]] < rank[x]
    BY <2>1
  <2>3. rank[x] \in Nat /\ rank[next[x]] \in Nat
    BY <2>1, <2>2
  <2> QED BY <2>1, <2>2, <2>3
<1>2. ASSUME NEW m \in Nat, NEW n \in Nat, NEW g \in Good(m), NEW h \in Good(n),
             NEW z \in Below(m) \cap Below(n), g[z] # h[z]
      PROVE  FALSE
  <2> DEFINE T == {k \in Nat : \E x \in Below(m) \cap Below(n) : rank[x] = k /\ g[x] # h[x]}
  <2>1. rank[z] \in T
    <3>1. rank[z] \in Nat
      OBVIOUS
    <3> HIDE DEF Below, Good
    <3> QED BY <3>1, <1>2
  <2>2. PICK k \in T : \A l \in T : k <= l
    <3>1. T \in SUBSET Nat
      OBVIOUS
    <3> HIDE DEF T
    <3> QED BY <2>1, <3>1, Least
  <2>3. PICK x \in Below(m) \cap Below(n) : rank[x] = k /\ g[x] # h[x]
    BY <2>2
  <2>4. g[x] = Value(g, x) /\ h[x] = Value(h, x)
    BY <2>3
  <2>5. x \notin Stop
    BY <2>3, <2>4
  <2>6. next[x] \in Below(m) \cap Below(n) /\ rank[next[x]] < k /\ rank[next[x]] \in Nat /\ k \in Nat
    BY <1>1, <2>3, <2>5
  <2>7. g[next[x]] = h[next[x]]
    <3> SUFFICES ASSUME g[next[x]] # h[next[x]] PROVE FALSE
      OBVIOUS
    <3>1. rank[next[x]] \in T
      BY <2>6
    <3>2. k <= rank[next[x]]
      BY <2>2, <3>1
    <3> QED BY <2>6, <3>2
  <2> QED BY <2>3, <2>4, <2>5, <2>7
<1>3. ASSUME NEW n \in Nat PROVE Good(n) # {}
  <2> SUFFICES ASSUME Good(n) = {} PROVE FALSE
    OBVIOUS
  <2> DEFINE T == {k \in Nat : Good(k) = {}}
  <2>1. PICK k \in T : \A l \in T : k <= l
    <3>1. T \in SUBSET Nat /\ T # {}
      OBVIOUS
    <3> HIDE DEF T
    <3> QED BY <3>1, Least
  <2>2. k \in Nat /\ Good(k) = {}
    OBVIOUS
  <2>3. CASE k = 0
    <3>1. Below(0) = {}
      <4>1. \A x \in S : ~(rank[x] < 0)
        <5> TAKE x \in S
        <5>1. rank[x] \in Nat
          OBVIOUS
        <5> QED BY <5>1
      <4> QED BY <4>1
    <3>2. [x \in {} |-> 0] \in Good(0)
      BY <3>1
    <3> QED BY <2>2, <2>3, <3>2
  <2>4. CASE k # 0
    <3>1. k - 1 \in Nat
      BY <2>2, <2>4
    <3>2. k - 1 \notin T
      <4> SUFFICES ASSUME k - 1 \in T PROVE FALSE
        OBVIOUS
      <4>1. k <= k - 1
        BY <2>1
      <4> QED BY <4>1, <2>2
    <3>3. PICK g : g \in Good(k - 1)
      BY <3>1, <3>2
    <3> DEFINE h == [x \in Below(k) |-> Value(g, x)]
    <3>4. ASSUME NEW x \in Below(k), x \notin Stop
          PROVE  next[x] \in Below(k - 1) /\ next[x] \in Below(k)
      <4>1. rank[next[x]] < rank[x] /\ rank[x] < k /\ rank[x] \in Nat /\ rank[next[x]] \in Nat /\ next[x] \in S
        BY <2>2, <1>1, <3>4
      <4>2. rank[next[x]] < k - 1 /\ rank[next[x]] < k
        BY <4>1, <2>2
      <4> QED BY <4>1, <4>2
    <3>5. h \in [Below(k) -> V]
      <4> SUFFICES ASSUME NEW x \in Below(k) PROVE Value(g, x) \in V
        OBVIOUS
      <4>1. CASE x \in Stop
        BY <4>1
      <4>2. CASE x \notin Stop
        <5>1. g[next[x]] \in V
          BY <3>3, <3>4, <4>2
        <5>2. step[x] \in [V -> V]
          BY <4>2
        <5> QED BY <5>1, <5>2, <4>2
      <4> QED BY <4>1, <4>2
    <3>6. ASSUME NEW x \in Below(k) PROVE h[x] = Value(h, x)
      <4>1. CASE x \in Stop
        BY <4>1
      <4>2. CASE x \notin Stop
        <5>1. h[next[x]] = Value(g, next[x])
          BY <3>4, <4>2
        <5>2. g[next[x]] = Value(g, next[x])
          BY <3>3, <3>4, <4>2
        <5> QED BY <5>1, <5>2, <4>2
      <4> QED BY <4>1, <4>2
    <3>7. h \in Good(k)
      <4> HIDE DEF h
      <4> QED BY <3>5, <3>6
    <3> QED BY <3>7, <2>2
  <2> QED BY <2>3, <2>4
<1> DEFINE G(n) == CHOOSE g : g \in Good(n)
           f == [x \in S |-> G(rank[x] + 1)[x]]
<1>4. ASSUME NEW n \in Nat PROVE G(n) \in Good(n)
  BY <1>3
<1> HIDE DEF G
<1>5. ASSUME NEW x \in S
      PROVE  f[x] \in V /\ f[x] = Value(f, x)
  <2>1. rank[x] \in Nat /\ rank[x] + 1 \in Nat /\ x \in Below(rank[x] + 1)
    OBVIOUS
  <2>2. G(rank[x] + 1) \in Good(rank[x] + 1)
    BY <1>4, <2>1
  <2>3. f[x] \in V /\ f[x] = Value(G(rank[x] + 1), x)
    BY <2>1, <2>2
  <2>4. CASE x \in Stop
    BY <2>3, <2>4
  <2>5. CASE x \notin Stop
    <3>1. next[x] \in S /\ next[x] \in Below(rank[x] + 1) /\ rank[next[x]] \in Nat
      BY <1>1, <2>1, <2>5
    <3>2. next[x] \in Below(rank[next[x]] + 1) /\ rank[next[x]] + 1 \in Nat
      BY <3>1
    <3>3. G(rank[next[x]] + 1) \in Good(rank[next[x]] + 1)
      BY <1>4, <3>2
    <3> HIDE DEF Good, Below, Value
    <3>4. G(rank[next[x]] + 1)[next[x]] = G(rank[x] + 1)[next[x]]
      BY <1>2, <2>1, <2>2, <3>1, <3>2, <3>3
    <3>5. f[next[x]] = G(rank[x] + 1)[next[x]]
      BY <3>1, <3>4
    <3> QED BY <2>3, <2>5, <3>5 DEF Value
  <2> QED BY <2>3, <2>4, <2>5
<1>6. f \in [S -> V] /\ f = [x \in S |-> Value(f, x)]
  <2>1. f = [x \in S |-> f[x]]
    OBVIOUS
  <2> HIDE DEF f, Value
  <2> QED BY <2>1, <1>5
<1> QED BY <1>6

LEMMA Induction ==
  ASSUME NEW T, 0 \in T, \A n \in Nat : n \in T => n + 1 \in T
  PROVE  \A n \in Nat : n \in T
<1> DEFINE U == {n \in Nat : n \notin T}
<1> SUFFICES ASSUME U # {} PROVE FALSE
  OBVIOUS
<1>1. U \in SUBSET Nat
  OBVIOUS
<1> HIDE DEF U
<1>2. PICK k \in U : \A l \in U : k <= l
  BY <1>1, Least
<1>3. k \in Nat /\ k \notin T
  BY DEF U
<1>4. k - 1 \in Nat
  BY <1>3
<1>5. k - 1 \notin U
  <2> SUFFICES ASSUME k - 1 \in U PROVE FALSE
    OBVIOUS
  <2>1. k <= k - 1
    BY <1>2
  <2> QED BY <1>3, <2>1
<1>6. k - 1 \in T
  BY <1>4, <1>5 DEF U
<1>7. (k - 1) + 1 \in T
  BY <1>4, <1>6
<1> QED BY <1>3, <1>7

LEMMA StrongInduction ==
  ASSUME NEW T, \A n \in Nat : (\A k \in Nat : k < n => k \in T) => n \in T
  PROVE  \A n \in Nat : n \in T
<1> DEFINE U == {n \in Nat : n \notin T}
<1> SUFFICES ASSUME U # {} PROVE FALSE
  OBVIOUS
<1>1. U \in SUBSET Nat
  OBVIOUS
<1> HIDE DEF U
<1>2. PICK k \in U : \A l \in U : k <= l
  BY <1>1, Least
<1>3. k \in Nat /\ k \notin T
  BY DEF U
<1>4. ASSUME NEW l \in Nat, l < k PROVE l \in T
  <2> SUFFICES ASSUME l \in U PROVE FALSE
    BY DEF U
  <2> QED BY <1>2, <1>3, <1>4
<1> QED BY <1>3, <1>4

-----------------------------------------------------------------------------
(***************************************************************************)
(* Powers of two                                                           *)
(***************************************************************************)
LEMMA Pow2Defined ==
  /\ Pow2 \in [Nat -> Nat]
  /\ Pow2[0] = 1
  /\ \A n \in Nat : Pow2[n + 1] = 2 * Pow2[n]
<1> DEFINE stop == {0}
           base == [x \in stop |-> 1]
           next == [x \in Nat \ stop |-> x - 1]
           step == [x \in Nat \ stop |-> [y \in Nat |-> 2 * y]]
           rank == [x \in Nat |-> x]
<1>1. Recursive(Nat, Nat, stop, base, next, step, rank)
  BY DEF Recursive
<1> HIDE DEF stop, base, next, step, rank
<1>2. PICK f \in [Nat -> Nat] :
        f = [x \in Nat |-> IF x \in stop THEN base[x] ELSE step[x][f[next[x]]]]
  BY <1>1, Recursion
<1>3. ASSUME NEW n \in Nat
      PROVE  (IF n \in stop THEN base[n] ELSE step[n][f[next[n]]])
               = (IF n = 0 THEN 1 ELSE 2 * f[n - 1])
  <2>1. CASE n = 0
    BY <2>1 DEF stop, base
  <2>2. CASE n # 0
    <3>1. next[n] = n - 1 /\ n - 1 \in Nat /\ n \in Nat \ stop
      BY <2>2 DEF next, stop
    <3>2. f[n - 1] \in Nat
      BY <3>1
    <3> QED BY <2>2, <3>1, <3>2 DEF step
  <2> QED BY <2>1, <2>2
<1>4. f = [n \in Nat |-> IF n = 0 THEN 1 ELSE 2 * f[n - 1]]
  BY <1>2, <1>3
<1>5. \E g : g = [n \in Nat |-> IF n = 0 THEN 1 ELSE 2 * g[n - 1]]
  BY <1>4
<1>6. Pow2 = [n \in Nat |-> IF n = 0 THEN 1 ELSE 2 * Pow2[n - 1]]
  BY <1>5, Zenon DEF Pow2
<1>7. Pow2[0] = 1
  BY <1>6
<1>8. ASSUME NEW n \in Nat PROVE Pow2[n + 1] = 2 * Pow2[n]
  <2>1. n + 1 \in Nat /\ n + 1 # 0 /\ (n + 1) - 1 = n
    OBVIOUS
  <2>2. Pow2[n + 1] = IF n + 1 = 0 THEN 1 ELSE 2 * Pow2[(n + 1) - 1]
    BY <1>6, <2>1
  <2> QED BY <2>1, <2>2
<1>9. \A n \in Nat : Pow2[n] \in Nat
  <2> DEFINE T == {n \in Nat : Pow2[n] \in Nat}
  <2>1. 0 \in T
    BY <1>7
  <2>2. ASSUME NEW n \in Nat, n \in T PROVE n + 1 \in T
    BY <1>8, <2>2
  <2>3. \A n \in Nat : n \in T
    <3> HIDE DEF T
    <3> QED BY <2>1, <2>2, Induction
  <2> QED BY <2>3
<1>10. Pow2 = [n \in Nat |-> Pow2[n]]
  BY <1>6
<1> QED BY <1>7, <1>8, <1>9, <1>10

LEMMA Pow2Nat == ASSUME NEW n \in Nat PROVE Pow2[n] \in Nat
BY Pow2Defined

LEMMA Pow2Positive == \A n \in Nat : Pow2[n] >= 1
<1> DEFINE T == {n \in Nat : Pow2[n] >= 1}
<1>1. 0 \in T
  BY Pow2Defined
<1>2. ASSUME NEW n \in Nat, n \in T PROVE n + 1 \in T
  <2>1. Pow2[n] \in Nat /\ Pow2[n + 1] = 2 * Pow2[n]
    BY Pow2Defined
  <2> QED BY <1>2, <2>1
<1>3. \A n \in Nat : n \in T
  <2> HIDE DEF T
  <2> QED BY <1>1, <1>2, Induction
<1> QED BY <1>3

LEMMA Pow2Add == \A m \in Nat : \A n \in Nat : Pow2[m + n] = Pow2[m] * Pow2[n]
<1> TAKE m \in Nat
<1> DEFINE T == {n \in Nat : Pow2[m + n] = Pow2[m] * Pow2[n]}
<1>1. 0 \in T
  BY Pow2Defined
<1>2. ASSUME NEW n \in Nat, n \in T PROVE n + 1 \in T
  <2>1. Pow2[n] \in Nat /\ Pow2[m] \in Nat /\ Pow2[n + 1] = 2 * Pow2[n]
    BY Pow2Defined
  <2>2. m + n \in Nat /\ m + (n + 1) = (m + n) + 1
    OBVIOUS
  <2>3. Pow2[m + (n + 1)] = 2 * Pow2[m + n]
    BY <2>2, Pow2Defined
  <2>4. \A a, b \in Nat : 2 * (a * b) = a * (2 * b)
    OBVIOUS
  <2> QED BY <1>2, <2>1, <2>3, <2>4
<1>3. \A n \in Nat : n \in T
  <2> HIDE DEF T
  <2> QED BY <1>1, <1>2, Induction
<1> QED BY <1>3

LEMMA Pow2Monotone ==
  ASSUME NEW m \in Nat, NEW n \in Nat, m <= n
  PROVE  Pow2[m] <= Pow2[n]
<1>1. n - m \in Nat /\ n = m + (n - m)
  OBVIOUS
<1>2. Pow2[n] = Pow2[m] * Pow2[n - m]
  BY <1>1, Pow2Add
<1>3. Pow2[m] \in Nat /\ Pow2[n - m] \in Nat /\ Pow2[n - m] >= 1
  BY <1>1, Pow2Defined, Pow2Positive
<1>4. \A a, b \in Nat : b >= 1 => a <= a * b
  OBVIOUS
<1> QED BY <1>2, <1>3, <1>4

LEMMA Division ==
  ASSUME NEW a \in Nat, NEW b \in Nat \ {0}
  PROVE  a \div b \in Nat /\ a % b \in 0..(b - 1) /\ a = b * (a \div b) + (a % b)
OBVIOUS

LEMMA Divided ==
  ASSUME NEW q \in Nat, NEW b \in Nat \ {0}, NEW r \in 0..(b - 1)
  PROVE  (b * q + r) \div b = q /\ (b * q + r) % b = r
OBVIOUS

Byte == 0..(Base - 1)

LEMMA Bases == Half \in Nat /\ Half >= 2 /\ Base \in Nat /\ Base = 2 * Half /\ Base >= 4
               /\ Byte \subseteq Nat /\ 0 \in Byte /\ 1 \in Byte
<1>1. Half \in Nat
  BY Pow2Defined, ProtoAssumption DEF Half
<1>2. Pow2[1] = 2
  <2>1. Pow2[0 + 1] = 2 * Pow2[0] /\ Pow2[0] = 1
    BY Pow2Defined
  <2> QED BY <2>1
<1>3. Half >= 2
  <2>1. Pow2[1] <= Pow2[Bits]
    BY Pow2Monotone, ProtoAssumption
  <2> QED BY <1>2, <2>1 DEF Half
<1> QED BY <1>1, <1>3 DEF Base, Byte

-----------------------------------------------------------------------------
(***************************************************************************)
(* Sequences                                                               *)
(***************************************************************************)
\* A concatenation, place by place.
LEMMA Joined ==
  ASSUME NEW S, NEW s \in Seq(S), NEW t \in Seq(S)
  PROVE  /\ s \o t \in Seq(S) /\ Len(s \o t) = Len(s) + Len(t)
         /\ \A x \in 1..Len(s) : (s \o t)[x] = s[x]
         /\ \A x \in 1..Len(t) : (s \o t)[Len(s) + x] = t[x]
<1> DEFINE c == s \o t
           m == Len(s)
           n == Len(t)
<1>1. m \in Nat /\ n \in Nat
  OBVIOUS
<1>2. /\ c \in Seq(S) /\ Len(c) = m + n
      /\ \A x \in 1..(m + n) : c[x] = IF x <= m THEN s[x] ELSE t[x - m]
  BY ConcatProperties
<1> HIDE DEF c, m, n
<1>3. ASSUME NEW x \in 1..m PROVE c[x] = s[x]
  BY <1>1, <1>2
<1>4. ASSUME NEW x \in 1..n PROVE c[m + x] = t[x]
  <2>1. m + x \in 1..(m + n) /\ ~(m + x <= m) /\ (m + x) - m = x
    BY <1>1
  <2> QED BY <1>2, <2>1
<1> QED BY <1>1, <1>2, <1>3, <1>4 DEF c, m, n

LEMMA JoinedThree ==
  ASSUME NEW S, NEW s \in Seq(S), NEW t \in Seq(S), NEW u \in Seq(S)
  PROVE  (s \o t) \o u = s \o (t \o u)
BY ConcatAssociative

\* One element in front of a sequence.
LEMMA Prefixed ==
  ASSUME NEW S, NEW a \in S, NEW t \in Seq(S)
  PROVE  /\ <<a>> \o t \in Seq(S) /\ Len(<<a>> \o t) = Len(t) + 1
         /\ (<<a>> \o t)[1] = a
         /\ \A x \in 1..Len(t) : (<<a>> \o t)[x + 1] = t[x]
<1>1. <<a>> \in Seq(S) /\ Len(<<a>>) = 1 /\ <<a>>[1] = a
  OBVIOUS
<1> DEFINE s == <<a>>
<1> HIDE DEF s
<1>2. s \in Seq(S) /\ Len(s) = 1 /\ s[1] = a
  BY <1>1 DEF s
<1>3. /\ s \o t \in Seq(S) /\ Len(s \o t) = Len(s) + Len(t)
      /\ \A x \in 1..Len(s) : (s \o t)[x] = s[x]
      /\ \A x \in 1..Len(t) : (s \o t)[Len(s) + x] = t[x]
  BY <1>2, Joined
<1> DEFINE c == s \o t
<1> HIDE DEF c
<1>4. /\ c \in Seq(S) /\ Len(c) = 1 + Len(t) /\ c[1] = a
      /\ \A x \in 1..Len(t) : c[1 + x] = t[x]
  BY <1>2, <1>3 DEF c
<1>5. \A x \in 1..Len(t) : c[x + 1] = t[x]
  <2> TAKE x \in 1..Len(t)
  <2>1. x + 1 = 1 + x
    OBVIOUS
  <2> QED BY <1>4, <2>1
<1>6. Len(c) = Len(t) + 1
  <2>1. Len(t) \in Nat
    OBVIOUS
  <2> QED BY <1>4, <2>1
<1> QED BY <1>4, <1>5, <1>6 DEF c, s

-----------------------------------------------------------------------------
(***************************************************************************)
(* What is written                                                         *)
(***************************************************************************)
LEMMA WriteVarint ==
  /\ writeVarint \in [Nat -> Seq(Byte)]
  /\ \A v \in Nat : v < Half => writeVarint[v] = <<v>>
  /\ \A v \in Nat : v >= Half =>
       /\ v \div Half \in Nat /\ v \div Half < v /\ Half + (v % Half) \in Byte
       /\ writeVarint[v] = <<Half + (v % Half)>> \o writeVarint[v \div Half]
<1> DEFINE stop == 0..(Half - 1)
           base == [x \in stop |-> <<x>>]
           next == [x \in Nat \ stop |-> x \div Half]
           step == [x \in Nat \ stop |-> [y \in Seq(Byte) |-> <<Half + (x % Half)>> \o y]]
           rank == [x \in Nat |-> x]
<1>1. stop \in SUBSET Nat /\ \A x \in Nat : x \in stop <=> x < Half
  BY Bases
<1>2. ASSUME NEW x \in Nat, x \notin stop
      PROVE  x >= Half /\ x \div Half \in Nat /\ x \div Half < x /\ Half + (x % Half) \in Byte
  <2>1. x >= Half
    BY <1>2, Bases
  <2>2. x \div Half \in Nat /\ x % Half \in 0..(Half - 1)
    <3>1. Half \in Nat \ {0}
      BY Bases
    <3> QED BY <3>1, Division
  <2>3. x \div Half < x
    BY <2>1, Bases
  <2>4. Half + (x % Half) \in Byte
    BY <2>2, Bases DEF Byte
  <2> QED BY <2>1, <2>2, <2>3, <2>4
<1>3. base \in [stop -> Seq(Byte)]
  <2> SUFFICES ASSUME NEW x \in stop PROVE <<x>> \in Seq(Byte)
    OBVIOUS
  <2>1. x \in Byte
    BY Bases DEF Byte
  <2> QED BY <2>1
<1>4. next \in [Nat \ stop -> Nat]
  BY <1>2
<1>5. step \in [Nat \ stop -> [Seq(Byte) -> Seq(Byte)]]
  <2> SUFFICES ASSUME NEW x \in Nat \ stop, NEW y \in Seq(Byte)
               PROVE  <<Half + (x % Half)>> \o y \in Seq(Byte)
    OBVIOUS
  <2>1. Half + (x % Half) \in Byte
    BY <1>2
  <2> QED BY <2>1, Prefixed
<1>6. rank \in [Nat -> Nat] /\ \A x \in Nat \ stop : rank[next[x]] < rank[x]
  BY <1>2
<1>7. Recursive(Nat, Seq(Byte), stop, base, next, step, rank)
  <2> HIDE DEF stop, base, next, step, rank
  <2> QED BY <1>1, <1>3, <1>4, <1>5, <1>6 DEF Recursive
<1>8. PICK f \in [Nat -> Seq(Byte)] :
        f = [x \in Nat |-> IF x \in stop THEN base[x] ELSE step[x][f[next[x]]]]
  <2> HIDE DEF stop, base, next, step, rank
  <2> QED BY <1>7, Recursion
<1>9. ASSUME NEW v \in Nat
      PROVE  (IF v \in stop THEN base[v] ELSE step[v][f[next[v]]])
               = (IF v >= Half THEN <<Half + (v % Half)>> \o f[v \div Half] ELSE <<v>>)
  <2>1. CASE v \in stop
    <3>1. base[v] = <<v>>
      BY <2>1
    <3>2. ~(v >= Half)
      BY <2>1, Bases
    <3> QED BY <2>1, <3>1, <3>2
  <2>2. CASE v \notin stop
    <3>1. v >= Half /\ v \div Half \in Nat
      BY <1>2, <2>2
    <3>2. next[v] = v \div Half
      BY <2>2
    <3>3. f[v \div Half] \in Seq(Byte)
      BY <3>1
    <3>4. step[v][f[v \div Half]] = <<Half + (v % Half)>> \o f[v \div Half]
      BY <2>2, <3>3
    <3> HIDE DEF base, next, step
    <3> QED BY <2>2, <3>1, <3>2, <3>4
  <2> QED BY <2>1, <2>2
<1>10. f = [v \in Nat |-> IF v >= Half THEN <<Half + (v % Half)>> \o f[v \div Half] ELSE <<v>>]
  <2> HIDE DEF stop, base, next, step
  <2> QED BY <1>8, <1>9
<1>11. \E g : g = [v \in Nat |-> IF v >= Half THEN <<Half + (v % Half)>> \o g[v \div Half] ELSE <<v>>]
  BY <1>10
<1>12. writeVarint = [v \in Nat |-> IF v >= Half THEN <<Half + (v % Half)>> \o writeVarint[v \div Half] ELSE <<v>>]
  BY <1>11, Zenon DEF writeVarint
<1>13. ASSUME NEW v \in Nat, v < Half PROVE writeVarint[v] = <<v>>
  <2>1. ~(v >= Half)
    BY <1>13, Bases
  <2> QED BY <1>12, <2>1
<1>14. ASSUME NEW v \in Nat, v >= Half
       PROVE  /\ v \div Half \in Nat /\ v \div Half < v /\ Half + (v % Half) \in Byte
              /\ writeVarint[v] = <<Half + (v % Half)>> \o writeVarint[v \div Half]
  <2>1. v \notin stop
    BY <1>14, Bases
  <2> QED BY <1>2, <1>12, <1>14, <2>1
<1>15. \A v \in Nat : writeVarint[v] \in Seq(Byte)
  <2> DEFINE T == {v \in Nat : writeVarint[v] \in Seq(Byte)}
  <2>1. ASSUME NEW v \in Nat, \A k \in Nat : k < v => k \in T PROVE v \in T
    <3>1. CASE v < Half
      <4>1. v \in Byte
        BY <3>1, Bases DEF Byte
      <4>2. <<v>> \in Seq(Byte)
        BY <4>1
      <4> QED BY <1>13, <3>1, <4>2
    <3>2. CASE v >= Half
      <4>1. writeVarint[v \div Half] \in Seq(Byte)
        BY <1>14, <2>1, <3>2
      <4>2. <<Half + (v % Half)>> \o writeVarint[v \div Half] \in Seq(Byte)
        BY <1>14, <3>2, <4>1, Prefixed
      <4> QED BY <1>14, <3>2, <4>2
    <3> QED BY <3>1, <3>2, Bases
  <2>2. \A v \in Nat : v \in T
    <3> HIDE DEF T
    <3> QED BY <2>1, StrongInduction
  <2> QED BY <2>2
<1>16. writeVarint = [v \in Nat |-> writeVarint[v]]
  BY <1>12
<1>17. writeVarint \in [Nat -> Seq(Byte)]
  BY <1>15, <1>16
<1> QED BY <1>13, <1>14, <1>17

\* The groups of a number: all but the last have the flag, and there are no more
\* than the number needs.
LEMMA Groups ==
  \A v \in Nat :
    LET w == writeVarint[v]
    IN /\ Len(w) >= 1 /\ w[Len(w)] < Half
       /\ \A i \in 1..(Len(w) - 1) : w[i] >= Half
       /\ Len(w) > 1 => Pow2[(Len(w) - 1) * Bits] <= v
<1> DEFINE w(v) == writeVarint[v]
           Shape(v) == /\ Len(w(v)) >= 1 /\ w(v)[Len(w(v))] < Half
                       /\ \A i \in 1..(Len(w(v)) - 1) : w(v)[i] >= Half
                       /\ Len(w(v)) > 1 => Pow2[(Len(w(v)) - 1) * Bits] <= v
           T == {v \in Nat : Shape(v)}
<1>1. ASSUME NEW v \in Nat, \A k \in Nat : k < v => k \in T PROVE v \in T
  <2>1. CASE v < Half
    <3>1. w(v) = <<v>>
      BY <2>1, WriteVarint
    <3>2. Len(<<v>>) = 1 /\ <<v>>[1] = v
      OBVIOUS
    <3>3. Shape(v)
      <4> HIDE DEF w
      <4>1. Len(w(v)) = 1 /\ w(v)[1] = v
        BY <3>1, <3>2
      <4> QED BY <4>1, <2>1
    <3> QED BY <3>3
  <2>2. CASE v >= Half
    <3> DEFINE u == v \div Half
               a == Half + (v % Half)
               s == w(u)
               t == w(v)
               n == Len(s)
    <3>1. u \in Nat /\ u < v /\ a \in Byte /\ s \in Seq(Byte) /\ t = <<a>> \o s
      BY <2>2, WriteVarint
    <3>2. Shape(u)
      BY <1>1, <3>1
    <3>3. a >= Half /\ u * Half <= v
      <4>1. Half \in Nat \ {0}
        BY Bases
      <4>2. v % Half \in 0..(Half - 1) /\ v = Half * (v \div Half) + (v % Half)
        BY <4>1, Division
      <4>3. v % Half \in Nat /\ v \div Half \in Nat
        BY <4>1, Division
      <4>4. a >= Half
        BY <4>1, <4>3
      <4>5. \A x, y, z \in Nat : y * x <= x * y + z
        OBVIOUS
      <4>6. (v \div Half) * Half <= Half * (v \div Half) + (v % Half)
        BY <4>1, <4>3, <4>5
      <4> QED BY <4>2, <4>4, <4>6
    <3> HIDE DEF a
    <3>4. /\ Len(<<a>> \o s) = Len(s) + 1 /\ (<<a>> \o s)[1] = a
          /\ \A x \in 1..Len(s) : (<<a>> \o s)[x + 1] = s[x]
      BY <3>1, Prefixed
    <3>5. /\ n \in Nat /\ n >= 1 /\ s[n] < Half /\ \A i \in 1..(n - 1) : s[i] >= Half
          /\ n > 1 => Pow2[(n - 1) * Bits] <= u
      BY <3>1, <3>2
    <3>6. Len(t) = n + 1 /\ t[1] = a /\ \A x \in 1..n : t[x + 1] = s[x]
      BY <3>1, <3>4
    <3> HIDE DEF w, u, s, t, n
    <3>7. t[n + 1] < Half
      BY <3>5, <3>6
    <3>8. ASSUME NEW i \in 1..((n + 1) - 1) PROVE t[i] >= Half
      <4>1. CASE i = 1
        BY <4>1, <3>3, <3>6
      <4>2. CASE i # 1
        <5>1. i - 1 \in 1..n /\ i - 1 \in 1..(n - 1) /\ (i - 1) + 1 = i
          BY <4>2, <3>5
        <5>2. t[(i - 1) + 1] = s[i - 1] /\ s[i - 1] >= Half
          BY <5>1, <3>5, <3>6
        <5> QED BY <5>1, <5>2
      <4> QED BY <4>1, <4>2
    <3>9. Pow2[n * Bits] <= v
      <4>1. CASE n = 1
        <5>1. n * Bits = Bits
          BY <4>1, ProtoAssumption
        <5> QED BY <5>1, <2>2, Bases DEF Half
      <4>2. CASE n # 1
        <5>1. n > 1 /\ n - 1 \in Nat /\ Bits \in Nat
          BY <4>2, <3>5, ProtoAssumption
        <5>2. (n - 1) * Bits \in Nat /\ n * Bits = (n - 1) * Bits + Bits
          BY <5>1, <3>5
        <5>3. Pow2[n * Bits] = Pow2[(n - 1) * Bits] * Half
          BY <5>1, <5>2, Pow2Add DEF Half
        <5>4. Pow2[(n - 1) * Bits] \in Nat /\ Pow2[(n - 1) * Bits] <= u
          BY <5>1, <5>2, <3>5, Pow2Nat
        <5>5. \A x, y, z \in Nat : x <= y => x * z <= y * z
          OBVIOUS
        <5>6. Pow2[(n - 1) * Bits] * Half <= u * Half
          BY <5>4, <5>5, <3>1, Bases
        <5>7. Pow2[(n - 1) * Bits] * Half \in Nat /\ u * Half \in Nat
          BY <5>4, <3>1, Bases
        <5> DEFINE x == Pow2[(n - 1) * Bits] * Half
                   y == u * Half
        <5>8. x \in Nat /\ y \in Nat /\ x <= y /\ y <= v /\ Pow2[n * Bits] = x
          BY <5>3, <5>6, <5>7, <3>3
        <5> HIDE DEF x, y
        <5> QED BY <5>8
      <4> QED BY <4>1, <4>2
    <3>10. (n + 1) - 1 = n /\ n + 1 >= 1
      BY <3>5
    <3>11. Shape(v)
      BY <3>6, <3>7, <3>8, <3>9, <3>10 DEF t
    <3> QED BY <3>11
  <2> QED BY <2>1, <2>2, Bases
<1>2. \A v \in Nat : v \in T
  <2> HIDE DEF T
  <2> QED BY <1>1, StrongInduction
<1>3. \A v \in Nat : Shape(v)
  BY <1>2
<1> QED BY <1>3

-----------------------------------------------------------------------------
(***************************************************************************)
(* Numbers that are read                                                   *)
(***************************************************************************)
\* The places where a number that starts at pos may end, and its value so far.
Ends(data, pos) ==
  {p \in pos..Len(data) : data[p] < Half /\ (p - pos) * Bits < Width
                          /\ \A q \in pos..(p - 1) : data[q] >= Half}

Sum(data, pos) ==
  LET sum[p \in (pos - 1)..Len(data)] ==
        IF p < pos THEN 0 ELSE sum[p - 1] + (data[p] % Half) * Pow2[(p - pos) * Bits]
  IN sum

LEMMA ReadVarint ==
  ASSUME NEW data, NEW pos
  PROVE  readVarint(data, pos) =
           IF Ends(data, pos) = {} THEN Failed
           ELSE LET p == CHOOSE p \in Ends(data, pos) : TRUE
                IN [ok |-> TRUE, value |-> Sum(data, pos)[p] % Pow2[Width], next |-> p + 1]
BY DEF readVarint, Ends, Sum

LEMMA Summed ==
  ASSUME NEW data \in Seq(Byte), NEW pos \in 1..(Len(data) + 1)
  PROVE  /\ Sum(data, pos)[pos - 1] = 0
         /\ \A p \in (pos - 1)..Len(data) : Sum(data, pos)[p] \in Nat
         /\ \A p \in pos..Len(data) :
              Sum(data, pos)[p] = Sum(data, pos)[p - 1] + (data[p] % Half) * Pow2[(p - pos) * Bits]
<1> DEFINE S == (pos - 1)..Len(data)
           gain(p) == (data[p] % Half) * Pow2[(p - pos) * Bits]
           stop == {pos - 1}
           base == [p \in stop |-> 0]
           next == [p \in S \ stop |-> p - 1]
           step == [p \in S \ stop |-> [y \in Nat |-> y + gain(p)]]
           rank == [p \in S |-> p - (pos - 1)]
           sum == Sum(data, pos)
<1>1. pos \in Nat \ {0} /\ Len(data) \in Nat /\ pos - 1 \in S /\ S \subseteq Nat
  OBVIOUS
<1>2. ASSUME NEW p \in S, p # pos - 1
      PROVE  p \in pos..Len(data) /\ p - 1 \in S /\ gain(p) \in Nat
  <2>1. p \in pos..Len(data) /\ p - 1 \in S /\ p - pos \in Nat /\ p \in DOMAIN data
    BY <1>1, <1>2
  <2>2. data[p] \in Nat
    <3>1. data[p] \in Byte
      BY <2>1
    <3> QED BY <3>1, Bases
  <2>3. data[p] % Half \in Nat
    BY <2>2, Bases
  <2>4. (p - pos) * Bits \in Nat
    BY <2>1, ProtoAssumption
  <2>5. Pow2[(p - pos) * Bits] \in Nat
    BY <2>4, Pow2Nat
  <2>6. \A a, b \in Nat : a * b \in Nat
    OBVIOUS
  <2> QED BY <2>1, <2>3, <2>5, <2>6
<1>3. Recursive(S, Nat, stop, base, next, step, rank)
  <2>1. stop \in SUBSET S /\ base \in [stop -> Nat]
    BY <1>1
  <2>2. next \in [S \ stop -> S] /\ rank \in [S -> Nat]
    BY <1>1, <1>2
  <2>3. step \in [S \ stop -> [Nat -> Nat]]
    <3> HIDE DEF gain, S
    <3> QED BY <1>2
  <2>4. \A x \in S \ stop : rank[next[x]] < rank[x]
    BY <1>1, <1>2
  <2> HIDE DEF S, stop, base, next, step, rank
  <2> QED BY <2>1, <2>2, <2>3, <2>4 DEF Recursive
<1>4. PICK f \in [S -> Nat] :
        f = [x \in S |-> IF x \in stop THEN base[x] ELSE step[x][f[next[x]]]]
  <2> HIDE DEF S, stop, base, next, step, rank
  <2> QED BY <1>3, Recursion
<1>5. ASSUME NEW p \in S
      PROVE  (IF p \in stop THEN base[p] ELSE step[p][f[next[p]]])
               = (IF p < pos THEN 0 ELSE f[p - 1] + gain(p))
  <2>1. CASE p = pos - 1
    BY <2>1, <1>1
  <2>2. CASE p # pos - 1
    <3>1. p \in S \ stop /\ ~(p < pos) /\ p - 1 \in S
      BY <2>2, <1>1, <1>2
    <3> HIDE DEF gain, S
    <3>2. f[p - 1] \in Nat
      BY <3>1
    <3>3. next[p] = p - 1 /\ step[p][f[p - 1]] = f[p - 1] + gain(p)
      BY <3>1, <3>2
    <3> HIDE DEF stop, step, next
    <3> QED BY <3>1, <3>3
  <2> QED BY <2>1, <2>2
<1>6. f = [p \in S |-> IF p < pos THEN 0 ELSE f[p - 1] + gain(p)]
  <2> HIDE DEF S, stop, base, next, step, gain
  <2> QED BY <1>4, <1>5
<1>7. sum = [p \in S |-> IF p < pos THEN 0 ELSE sum[p - 1] + gain(p)]
  <2> DEFINE g[p \in (pos - 1)..Len(data)] ==
               IF p < pos THEN 0 ELSE g[p - 1] + (data[p] % Half) * Pow2[(p - pos) * Bits]
  <2>1. \E h : h = [p \in (pos - 1)..Len(data) |->
                      IF p < pos THEN 0 ELSE h[p - 1] + (data[p] % Half) * Pow2[(p - pos) * Bits]]
    BY <1>6
  <2>2. g = [p \in (pos - 1)..Len(data) |->
               IF p < pos THEN 0 ELSE g[p - 1] + (data[p] % Half) * Pow2[(p - pos) * Bits]]
    BY <2>1, Zenon
  <2>3. sum = g
    BY DEF Sum
  <2> QED BY <2>2, <2>3
<1>8. sum[pos - 1] = 0
  <2>1. pos - 1 < pos /\ pos - 1 \in S
    BY <1>1
  <2> HIDE DEF S, sum, gain
  <2> QED BY <1>7, <2>1
<1>9. ASSUME NEW p \in pos..Len(data) PROVE p \in S /\ sum[p] = sum[p - 1] + gain(p)
  <2>1. ~(p < pos) /\ p \in S
    BY <1>1
  <2> HIDE DEF S, sum, gain
  <2> QED BY <1>7, <2>1
<1>10. \A p \in S : sum[p] \in Nat
  <2> DEFINE T == {k \in Nat : pos - 1 + k <= Len(data) => sum[pos - 1 + k] \in Nat}
  <2>1. 0 \in T
    <3>1. pos - 1 + 0 = pos - 1
      BY <1>1
    <3> HIDE DEF sum
    <3> QED BY <3>1, <1>8
  <2>2. ASSUME NEW k \in Nat, k \in T PROVE k + 1 \in T
    <3> HIDE DEF sum, gain
    <3> SUFFICES ASSUME pos - 1 + (k + 1) <= Len(data) PROVE sum[pos - 1 + (k + 1)] \in Nat
      OBVIOUS
    <3> DEFINE p == pos - 1 + (k + 1)
    <3>1. p \in pos..Len(data) /\ p - 1 = pos - 1 + k /\ pos - 1 + k <= Len(data) /\ p # pos - 1
      BY <1>1
    <3>2. sum[p] = sum[p - 1] + gain(p) /\ p \in S
      BY <3>1, <1>9
    <3>3. sum[p - 1] \in Nat
      BY <2>2, <3>1
    <3>4. gain(p) \in Nat
      BY <3>1, <3>2, <1>2
    <3> HIDE DEF p
    <3>5. sum[p] \in Nat
      BY <3>2, <3>3, <3>4
    <3> QED BY <3>5 DEF p
  <2>3. \A k \in Nat : k \in T
    <3> HIDE DEF T
    <3> QED BY <2>1, <2>2, Induction
  <2> TAKE p \in S
  <2>4. p - (pos - 1) \in Nat /\ pos - 1 + (p - (pos - 1)) = p /\ p <= Len(data)
    BY <1>1
  <2> HIDE DEF sum
  <2> QED BY <2>3, <2>4
<1> QED BY <1>8, <1>9, <1>10

\* data holds w from the place pos on, as far as data goes.
Holds(data, pos, w) == \A i \in 1..Len(w) : pos + i - 1 <= Len(data) => data[pos + i - 1] = w[i]

\* The groups of v from the place at on add v, shifted to where they are.
LEMMA Added ==
  ASSUME NEW data \in Seq(Byte), NEW pos \in 1..(Len(data) + 1)
  PROVE  \A v \in Nat : \A at \in pos..Len(data) :
           (Holds(data, at, writeVarint[v]) /\ at + Len(writeVarint[v]) <= Len(data) + 1) =>
             Sum(data, pos)[at + Len(writeVarint[v]) - 1]
               = Sum(data, pos)[at - 1] + v * Pow2[(at - pos) * Bits]
<1> DEFINE sum == Sum(data, pos)
           w(v) == writeVarint[v]
           Adds(v, at) == (Holds(data, at, w(v)) /\ at + Len(w(v)) <= Len(data) + 1) =>
                            sum[at + Len(w(v)) - 1] = sum[at - 1] + v * Pow2[(at - pos) * Bits]
           T == {v \in Nat : \A at \in pos..Len(data) : Adds(v, at)}
<1>1. Len(data) \in Nat /\ pos \in Nat \ {0}
  OBVIOUS
<1>2. ASSUME NEW v \in Nat, \A k \in Nat : k < v => k \in T PROVE v \in T
  <2> SUFFICES ASSUME NEW at \in pos..Len(data), Holds(data, at, w(v)), at + Len(w(v)) <= Len(data) + 1
               PROVE  sum[at + Len(w(v)) - 1] = sum[at - 1] + v * Pow2[(at - pos) * Bits]
    OBVIOUS
  <2> DEFINE P == Pow2[(at - pos) * Bits]
  <2>1. at \in Nat /\ at - pos \in Nat /\ at - 1 \in (pos - 1)..Len(data)
    BY <1>1
  <2>2. (at - pos) * Bits \in Nat
    BY <2>1, ProtoAssumption
  <2>3. P \in Nat
    BY <2>2, Pow2Nat
  <2>4. sum[at] = sum[at - 1] + (data[at] % Half) * P /\ sum[at - 1] \in Nat
    BY <2>1, Summed
  <2>5. CASE v < Half
    <3>1. w(v) = <<v>> /\ Len(<<v>>) = 1 /\ <<v>>[1] = v
      BY <2>5, WriteVarint
    <3>2. Len(w(v)) = 1 /\ w(v)[1] = v
      BY <3>1
    <3> HIDE DEF w
    <3>3. data[at] = v
      <4>1. 1 \in 1..Len(w(v)) /\ at + 1 - 1 = at
        BY <2>1, <3>2
      <4> QED BY <4>1, <3>2 DEF Holds
    <3>4. data[at] % Half = v
      BY <3>3, <2>5, Bases
    <3>5. at + Len(w(v)) - 1 = at
      BY <3>2, <2>1
    <3> QED BY <2>4, <3>4, <3>5
  <2>6. CASE v >= Half
    <3> DEFINE u == v \div Half
               r == v % Half
               a == Half + r
               s == w(u)
    <3>1. u \in Nat /\ u < v /\ a \in Byte /\ s \in Seq(Byte) /\ w(v) = <<a>> \o s
      BY <2>6, WriteVarint
    <3>2. r \in 0..(Half - 1) /\ v = Half * u + r
      <4>1. Half \in Nat \ {0}
        BY Bases
      <4> QED BY <4>1, Division
    <3>3. a % Half = r
      <4>1. \A h, x \in Nat : h > 0 /\ x < h => (h + x) % h = x
        OBVIOUS
      <4>2. r \in Nat /\ r < Half
        BY <3>2, Bases
      <4> QED BY <4>1, <4>2, Bases
    <3> HIDE DEF a
    <3>4. /\ Len(<<a>> \o s) = Len(s) + 1 /\ (<<a>> \o s)[1] = a
          /\ \A x \in 1..Len(s) : (<<a>> \o s)[x + 1] = s[x]
      BY <3>1, Prefixed
    <3>5. Len(w(v)) = Len(s) + 1 /\ w(v)[1] = a /\ \A x \in 1..Len(s) : w(v)[x + 1] = s[x]
      BY <3>1, <3>4
    <3>6. Len(s) \in Nat /\ Len(s) >= 1
      BY <3>1, Groups
    <3> HIDE DEF w, u, r, s
    <3>7. data[at] = a
      <4>1. 1 \in 1..Len(w(v)) /\ at + 1 - 1 = at
        BY <2>1, <3>5, <3>6
      <4> QED BY <4>1, <3>5 DEF Holds
    <3>8. at + 1 \in pos..Len(data) /\ (at + 1) + Len(s) <= Len(data) + 1
      BY <2>1, <1>1, <3>5, <3>6
    <3>9. Holds(data, at + 1, s)
      <4> SUFFICES ASSUME NEW i \in 1..Len(s), (at + 1) + i - 1 <= Len(data)
                   PROVE  data[(at + 1) + i - 1] = s[i]
        BY DEF Holds
      <4>1. i + 1 \in 1..Len(w(v)) /\ at + (i + 1) - 1 = (at + 1) + i - 1
        BY <2>1, <3>5, <3>6
      <4>2. data[at + (i + 1) - 1] = w(v)[i + 1]
        BY <4>1 DEF Holds
      <4> QED BY <4>1, <4>2, <3>5
    <3>10. sum[(at + 1) + Len(s) - 1] = sum[(at + 1) - 1] + u * Pow2[((at + 1) - pos) * Bits]
      <4>1. u \in T
        BY <1>2, <3>1
      <4>2. Adds(u, at + 1)
        BY <4>1, <3>8
      <4> QED BY <4>2, <3>8, <3>9 DEF s
    <3>11. Pow2[((at + 1) - pos) * Bits] = P * Half
      <4>1. \A d \in Nat : ((d + 1) * Bits) = d * Bits + Bits
        BY ProtoAssumption
      <4>2. (at + 1) - pos = (at - pos) + 1
        BY <2>1
      <4>3. ((at + 1) - pos) * Bits = (at - pos) * Bits + Bits
        BY <4>1, <4>2, <2>1
      <4> QED BY <4>3, <2>2, Pow2Add, ProtoAssumption DEF Half
    <3>12. at + Len(w(v)) - 1 = (at + 1) + Len(s) - 1 /\ (at + 1) - 1 = at
      BY <2>1, <3>5, <3>6
    <3>13. sum[at + Len(w(v)) - 1] = (sum[at - 1] + r * P) + u * (P * Half)
      BY <2>4, <3>3, <3>7, <3>10, <3>11, <3>12
    <3>14. \A b, c, d, e, h \in Nat : (b + c * d) + e * (d * h) = b + (h * e + c) * d
      OBVIOUS
    <3>15. r \in Nat /\ Half \in Nat
      BY <3>2, Bases
    <3>16. (sum[at - 1] + r * P) + u * (P * Half) = sum[at - 1] + (Half * u + r) * P
      <4> HIDE DEF P, sum
      <4> QED BY <2>3, <2>4, <3>1, <3>14, <3>15
    <3> HIDE DEF P, sum
    <3>17. sum[at + Len(w(v)) - 1] = sum[at - 1] + v * P
      BY <3>2, <3>13, <3>16
    <3> QED BY <3>17 DEF P
  <2> QED BY <2>5, <2>6, Bases
<1>3. \A v \in Nat : v \in T
  <2> HIDE DEF T
  <2> QED BY <1>2, StrongInduction
<1> QED BY <1>3

\* A number is read back where it was written, and not at all if it was cut.
LEMMA ReadBack ==
  ASSUME NEW data \in Seq(Byte), NEW pos \in Nat \ {0}, NEW v \in Nat, v < Pow2[Width],
         Holds(data, pos, writeVarint[v])
  PROVE  readVarint(data, pos) =
           IF pos + Len(writeVarint[v]) <= Len(data) + 1
             THEN [ok |-> TRUE, value |-> v, next |-> pos + Len(writeVarint[v])] ELSE Failed
<1> DEFINE w == writeVarint[v]
           n == Len(w)
           e == pos + n - 1
<1>1. w \in Seq(Byte)
  BY WriteVarint
<1>2. /\ n \in Nat /\ n >= 1 /\ w[n] < Half /\ \A i \in 1..(n - 1) : w[i] >= Half
      /\ n > 1 => Pow2[(n - 1) * Bits] <= v
  BY <1>1, Groups
<1>3. Len(data) \in Nat /\ e \in Nat
  BY <1>2
<1>4. \A i \in 1..n : pos + i - 1 <= Len(data) => data[pos + i - 1] = w[i]
  BY DEF Holds
<1> HIDE DEF w, n, e
<1>5. ASSUME NEW q \in pos..(e - 1), q <= Len(data) PROVE data[q] >= Half
  <2>1. q - pos + 1 \in 1..n /\ q - pos + 1 \in 1..(n - 1) /\ pos + (q - pos + 1) - 1 = q
    BY <1>2, <1>3 DEF e
  <2>2. data[q] = w[q - pos + 1]
    BY <1>4, <1>5, <2>1
  <2> QED BY <1>2, <2>1, <2>2
<1>6. \A q \in 1..Len(data) : data[q] \in Nat
  <2> TAKE q \in 1..Len(data)
  <2>1. data[q] \in Byte
    OBVIOUS
  <2> QED BY <2>1, Bases
<1>7. CASE pos + n <= Len(data) + 1
  <2>1. e \in pos..Len(data) /\ e - pos = n - 1
    BY <1>2, <1>3, <1>7 DEF e
  <2>2. data[e] < Half
    <3>1. n \in 1..n /\ pos + n - 1 = e
      BY <1>2 DEF e
    <3>2. data[e] = w[n]
      BY <1>4, <2>1, <3>1
    <3> QED BY <1>2, <3>2
  <2>3. (e - pos) * Bits < Width
    <3>1. CASE n = 1
      <4>1. e - pos = 0
        BY <2>1, <3>1
      <4>2. 0 * Bits = 0 /\ 0 < Width
        BY ProtoAssumption
      <4> QED BY <4>1, <4>2
    <3>2. CASE n # 1
      <4>1. n - 1 \in Nat /\ Pow2[(n - 1) * Bits] <= v /\ Bits \in Nat /\ Width \in Nat
        BY <3>2, <1>2, ProtoAssumption
      <4>2. (n - 1) * Bits \in Nat
        BY <4>1
      <4>3. Pow2[(n - 1) * Bits] \in Nat /\ Pow2[Width] \in Nat
        BY <4>1, <4>2, Pow2Nat
      <4>4. SUFFICES ASSUME Width <= (n - 1) * Bits PROVE FALSE
        BY <4>1, <4>2, <2>1
      <4>5. Pow2[Width] <= Pow2[(n - 1) * Bits]
        BY <4>1, <4>2, <4>4, Pow2Monotone
      <4> QED BY <4>1, <4>3, <4>5
    <3> QED BY <3>1, <3>2
  <2>4. e \in Ends(data, pos)
    <3>1. \A q \in pos..(e - 1) : data[q] >= Half
      BY <1>5, <1>3, <2>1
    <3> QED BY <2>1, <2>2, <2>3, <3>1 DEF Ends
  <2>5. ASSUME NEW p \in Ends(data, pos) PROVE p = e
    <3>1. p \in pos..Len(data) /\ data[p] < Half /\ \A q \in pos..(p - 1) : data[q] >= Half
      BY DEF Ends
    <3>2. data[p] \in Nat /\ data[e] \in Nat
      BY <1>3, <1>6, <2>1, <3>1
    <3>3. ~(p < e)
      BY <1>3, <1>5, <3>1, <3>2, Bases
    <3>4. ~(e < p)
      BY <1>3, <2>1, <2>2, <3>1, <3>2, Bases
    <3> QED BY <1>3, <3>1, <3>3, <3>4
  <2>6. (CHOOSE p \in Ends(data, pos) : TRUE) = e /\ Ends(data, pos) # {}
    BY <2>4, <2>5
  <2>7. Sum(data, pos)[e] = v
    <3>1. pos \in 1..(Len(data) + 1) /\ pos \in pos..Len(data)
      BY <1>3, <2>1
    <3>2. Sum(data, pos)[pos + Len(writeVarint[v]) - 1]
            = Sum(data, pos)[pos - 1] + v * Pow2[(pos - pos) * Bits]
      BY <3>1, <1>7, Added DEF n, w
    <3>3. Sum(data, pos)[pos - 1] = 0
      BY <3>1, Summed
    <3>4. (pos - pos) * Bits = 0 /\ Pow2[0] = 1
      BY ProtoAssumption, Pow2Defined
    <3>5. v * 1 = v /\ 0 + v = v
      OBVIOUS
    <3>6. Sum(data, pos)[pos + Len(writeVarint[v]) - 1] = v
      BY <3>2, <3>3, <3>4, <3>5
    <3> QED BY <3>6 DEF e, n, w
  <2>8. v % Pow2[Width] = v
    <3>1. Pow2[Width] \in Nat
      BY Pow2Nat, ProtoAssumption
    <3> QED BY <3>1
  <2>9. e + 1 = pos + n
    BY <1>2 DEF e
  <2>10. readVarint(data, pos) = [ok |-> TRUE, value |-> v, next |-> pos + n]
    BY <2>6, <2>7, <2>8, <2>9, ReadVarint
  <2> QED BY <1>7, <2>10 DEF n, w
<1>8. CASE ~(pos + n <= Len(data) + 1)
  <2>1. ASSUME NEW p \in Ends(data, pos) PROVE FALSE
    <3>1. p \in pos..Len(data) /\ data[p] < Half
      BY DEF Ends
    <3>2. p \in pos..(e - 1) /\ p <= Len(data) /\ p \in 1..Len(data)
      BY <1>2, <1>3, <1>8, <3>1 DEF e
    <3>3. data[p] >= Half /\ data[p] \in Nat
      BY <1>5, <1>6, <3>2
    <3> QED BY <3>1, <3>3, Bases
  <2>2. readVarint(data, pos) = Failed
    BY <2>1, ReadVarint
  <2> QED BY <1>8, <2>2 DEF n, w
<1> QED BY <1>7, <1>8

LEMMA ReadOn ==
  ASSUME NEW data \in Seq(Byte), NEW pos \in 1..(Len(data) + 1), readVarint(data, pos).ok
  PROVE  /\ readVarint(data, pos).value \in Nat
         /\ readVarint(data, pos).next \in (pos + 1)..(Len(data) + 1)
<1> DEFINE p == CHOOSE p \in Ends(data, pos) : TRUE
<1>1. Ends(data, pos) # {}
  BY ReadVarint DEF Failed
<1>2. p \in pos..Len(data)
  BY <1>1 DEF Ends
<1> HIDE DEF p
<1>3. Sum(data, pos)[p] \in Nat
  <2>1. p \in (pos - 1)..Len(data)
    BY <1>2
  <2> QED BY <2>1, Summed
<1>4. readVarint(data, pos) = [ok |-> TRUE, value |-> Sum(data, pos)[p] % Pow2[Width], next |-> p + 1]
  BY <1>1, ReadVarint DEF p
<1>5. Sum(data, pos)[p] % Pow2[Width] \in Nat
  <2>1. Pow2[Width] \in Nat /\ Pow2[Width] >= 1
    BY Pow2Nat, Pow2Positive, ProtoAssumption
  <2>2. \A a, b \in Nat : b >= 1 => a % b \in Nat
    OBVIOUS
  <2> QED BY <1>3, <2>1, <2>2
<1> QED BY <1>2, <1>4, <1>5

-----------------------------------------------------------------------------
(***************************************************************************)
(* Fields                                                                  *)
(***************************************************************************)
\* What is made of a field by its wire type.
Read(tag, v, raw, next) ==
  [ok |-> TRUE, field |-> Field(tag.value \div 8, tag.value % 8, v, raw), next |-> next]

LEMMA ReadField ==
  ASSUME NEW data, NEW pos
  PROVE  LET tag == readVarint(data, pos)
             v   == readVarint(data, tag.next)
         IN /\ ~tag.ok => readField(data, pos) = Failed
            /\ tag.ok /\ tag.value % 8 = 0 =>
                 readField(data, pos) = IF v.ok THEN Read(tag, v.value, <<>>, v.next) ELSE Failed
            /\ tag.ok /\ tag.value % 8 = 1 =>
                 readField(data, pos) =
                   IF Fits(data, tag.next, 8) THEN Read(tag, 0, <<>>, tag.next + 8) ELSE Failed
            /\ tag.ok /\ tag.value % 8 = 2 =>
                 readField(data, pos) =
                   IF v.ok /\ Fits(data, v.next, v.value)
                     THEN Read(tag, 0, SubSeq(data, v.next, v.next + v.value - 1), v.next + v.value)
                     ELSE Failed
            /\ tag.ok /\ tag.value % 8 = 5 =>
                 readField(data, pos) =
                   IF Fits(data, tag.next, 4)
                     THEN Read(tag, data[tag.next] + Base * (data[tag.next + 1]
                                + Base * (data[tag.next + 2] + Base * data[tag.next + 3])), <<>>, tag.next + 4)
                     ELSE Failed
            /\ tag.ok /\ tag.value % 8 \notin {0, 1, 2, 5} => readField(data, pos) = Failed
BY DEF readField, Read

LEMMA ReadFieldOn ==
  ASSUME NEW data \in Seq(Byte), NEW pos \in 1..(Len(data) + 1), readField(data, pos).ok
  PROVE  readField(data, pos).next \in (pos + 1)..(Len(data) + 1)
<1> DEFINE tag == readVarint(data, pos)
           v == readVarint(data, tag.next)
           n == Len(data)
<1>1. tag.ok
  BY ReadField DEF Failed
<1>2. tag.value \in Nat /\ tag.next \in (pos + 1)..(n + 1) /\ n \in Nat /\ pos \in Nat \ {0}
  BY <1>1, ReadOn
<1>3. v.ok => v.value \in Nat /\ v.next \in (tag.next + 1)..(n + 1)
  <2>1. tag.next \in 1..(n + 1)
    BY <1>2
  <2> QED BY <2>1, ReadOn
<1> HIDE DEF tag, v
<1>4. CASE tag.value % 8 = 0
  <2>1. readField(data, pos) = IF v.ok THEN Read(tag, v.value, <<>>, v.next) ELSE Failed
    BY <1>1, <1>4, ReadField DEF tag, v
  <2>2. v.ok /\ readField(data, pos) = Read(tag, v.value, <<>>, v.next)
    BY <2>1 DEF Failed
  <2> QED BY <1>2, <1>3, <2>2 DEF Read
<1>5. CASE tag.value % 8 = 1
  <2>1. readField(data, pos) =
          IF Fits(data, tag.next, 8) THEN Read(tag, 0, <<>>, tag.next + 8) ELSE Failed
    BY <1>1, <1>5, ReadField DEF tag
  <2>2. Fits(data, tag.next, 8) /\ readField(data, pos) = Read(tag, 0, <<>>, tag.next + 8)
    BY <2>1 DEF Failed
  <2> QED BY <1>2, <2>2 DEF Read, Fits
<1>6. CASE tag.value % 8 = 2
  <2>1. readField(data, pos) =
          IF v.ok /\ Fits(data, v.next, v.value)
            THEN Read(tag, 0, SubSeq(data, v.next, v.next + v.value - 1), v.next + v.value) ELSE Failed
    BY <1>1, <1>6, ReadField DEF tag, v
  <2>2. /\ v.ok /\ Fits(data, v.next, v.value)
        /\ readField(data, pos) = Read(tag, 0, SubSeq(data, v.next, v.next + v.value - 1), v.next + v.value)
    BY <2>1 DEF Failed
  <2>3. readField(data, pos).next = v.next + v.value
    BY <2>2 DEF Read
  <2> QED BY <1>2, <1>3, <2>2, <2>3 DEF Fits
<1>7. CASE tag.value % 8 = 5
  <2> DEFINE x == data[tag.next] + Base * (data[tag.next + 1]
                    + Base * (data[tag.next + 2] + Base * data[tag.next + 3]))
  <2>1. readField(data, pos) = IF Fits(data, tag.next, 4) THEN Read(tag, x, <<>>, tag.next + 4) ELSE Failed
    BY <1>1, <1>7, ReadField DEF tag
  <2> HIDE DEF x
  <2>2. Fits(data, tag.next, 4) /\ readField(data, pos) = Read(tag, x, <<>>, tag.next + 4)
    BY <2>1 DEF Failed
  <2> QED BY <1>2, <2>2 DEF Read, Fits
<1>8. CASE tag.value % 8 \notin {0, 1, 2, 5}
  <2>1. readField(data, pos) = Failed
    BY <1>1, <1>8, ReadField DEF tag
  <2> QED BY <2>1 DEF Failed
<1> QED BY <1>4, <1>5, <1>6, <1>7, <1>8

\* The bytes of a field after its tag.
Body(f) ==
  CASE f.wireType = 0 -> writeVarint[f.varint]
    [] f.wireType = 1 -> [i \in 1..8 |-> 0]
    [] f.wireType = 2 -> writeVarint[Len(f.raw)] \o f.raw
    [] f.wireType = 5 -> <<f.varint % Base, (f.varint \div Base) % Base,
                           ((f.varint \div Base) \div Base) % Base,
                           (((f.varint \div Base) \div Base) \div Base) % Base>>

FieldBytes(f) == writeTag(f.field, f.wireType) \o Body(f)

LEMMA HoldsParts ==
  ASSUME NEW data \in Seq(Byte), NEW pos \in Nat \ {0}, NEW s \in Seq(Byte), NEW t \in Seq(Byte),
         Holds(data, pos, s \o t)
  PROVE  Holds(data, pos, s) /\ Holds(data, pos + Len(s), t)
<1> DEFINE c == s \o t
           m == Len(s)
           n == Len(t)
<1>1. Len(c) = m + n /\ \A x \in 1..m : c[x] = s[x]
  BY Joined
<1>2. m \in Nat /\ n \in Nat /\ Len(data) \in Nat
  OBVIOUS
<1>3. \A x \in 1..n : c[m + x] = t[x]
  BY Joined
<1>4. Holds(data, pos, c)
  OBVIOUS
<1> HIDE DEF c
<1>5. Holds(data, pos, s)
  <2> SUFFICES ASSUME NEW i \in 1..m, pos + i - 1 <= Len(data) PROVE data[pos + i - 1] = s[i]
    BY DEF Holds
  <2>1. i \in 1..Len(c)
    BY <1>1, <1>2
  <2> QED BY <2>1, <1>1, <1>4 DEF Holds
<1>6. Holds(data, pos + m, t)
  <2> SUFFICES ASSUME NEW i \in 1..n, (pos + m) + i - 1 <= Len(data) PROVE data[(pos + m) + i - 1] = t[i]
    BY DEF Holds
  <2> HIDE DEF m, n
  <2>1. m + i \in 1..Len(c) /\ pos + (m + i) - 1 = (pos + m) + i - 1
    BY <1>1, <1>2
  <2>2. data[pos + (m + i) - 1] = c[m + i]
    BY <2>1, <1>4 DEF Holds
  <2> QED BY <2>1, <2>2, <1>3
<1> QED BY <1>5, <1>6

LEMMA Fixed32 ==
  ASSUME NEW x \in Nat, NEW B \in Nat \ {0}, x < B * (B * (B * B))
  PROVE  /\ x % B \in 0..(B - 1) /\ (x \div B) % B \in 0..(B - 1)
         /\ ((x \div B) \div B) % B \in 0..(B - 1) /\ (((x \div B) \div B) \div B) % B \in 0..(B - 1)
         /\ (x % B) + B * (((x \div B) % B) + B * ((((x \div B) \div B) % B)
              + B * ((((x \div B) \div B) \div B) % B))) = x
<1> DEFINE y == x \div B
           z == y \div B
           u == z \div B
           a == x % B
           b == y % B
           c == z % B
           d == u % B
<1>1. y \in Nat /\ a \in 0..(B - 1) /\ x = B * y + a
  BY Division
<1> HIDE DEF y, a
<1>2. z \in Nat /\ b \in 0..(B - 1) /\ y = B * z + b
  BY <1>1, Division
<1> HIDE DEF z, b
<1>3. u \in Nat /\ c \in 0..(B - 1) /\ z = B * u + c
  BY <1>2, Division
<1> HIDE DEF u, c
<1>4. u < B
  <2> SUFFICES ASSUME u >= B PROVE FALSE
    BY <1>3
  <2>1. \A p, q, r \in Nat : p <= q => B * p <= B * q + r
    OBVIOUS
  <2>2. B * B \in Nat /\ B * (B * B) \in Nat
    OBVIOUS
  <2>3. B * B <= z
    BY <1>3, <2>1
  <2>4. B * (B * B) <= y
    BY <1>2, <2>1, <2>2, <2>3
  <2>5. B * (B * (B * B)) <= x
    BY <1>1, <2>1, <2>2, <2>4
  <2> DEFINE w == B * (B * (B * B))
  <2>6. w \in Nat /\ w <= x /\ x < w
    BY <2>2, <2>5
  <2> HIDE DEF w
  <2> QED BY <2>6
<1>5. d = u
  BY <1>3, <1>4
<1>6. d \in 0..(B - 1)
  BY <1>3, <1>4, <1>5
<1> HIDE DEF d
<1>7. c + B * d = z
  BY <1>3, <1>5, <1>6
<1>8. b + B * z = y
  BY <1>2
<1>9. a + B * y = x
  BY <1>1
<1>10. a + B * (b + B * (c + B * d)) = x
  BY <1>7, <1>8, <1>9
<1> QED BY <1>1, <1>2, <1>3, <1>6, <1>10 DEF a, b, c, d, u, z, y

\* What an encodable field consists of.
LEMMA FieldParts ==
  ASSUME NEW f \in Encodable
  PROVE  /\ f.field \in Nat /\ f.wireType \in {0, 1, 2, 5} /\ f.varint \in Nat /\ f.raw \in Seq(Byte)
         /\ f = Field(f.field, f.wireType, f.varint, f.raw)
         /\ 8 * f.field + f.wireType \in Nat /\ 8 * f.field + f.wireType < Pow2[Width]
         /\ (8 * f.field + f.wireType) \div 8 = f.field
         /\ (8 * f.field + f.wireType) % 8 = f.wireType
<1>1. f \in [field : Nat, wireType : {0, 1, 2, 5}, varint : Nat, raw : Seq(Byte)]
  BY DEF Encodable, Byte
<1>2. f.field \in Nat /\ f.wireType \in {0, 1, 2, 5} /\ f.varint \in Nat /\ f.raw \in Seq(Byte)
  BY <1>1
<1>3. f = Field(f.field, f.wireType, f.varint, f.raw)
  BY <1>1 DEF Field
<1>4. 8 * f.field + 7 < Pow2[Width] /\ Pow2[Width] \in Nat
  BY Pow2Nat, ProtoAssumption DEF Encodable
<1>5. f.wireType \in 0..7
  BY <1>2
<1>6. 8 * f.field + f.wireType \in Nat /\ 8 * f.field + f.wireType < Pow2[Width]
  BY <1>2, <1>4, <1>5
<1>7. (8 * f.field + f.wireType) \div 8 = f.field /\ (8 * f.field + f.wireType) % 8 = f.wireType
  <2>1. f.wireType \in 0..(8 - 1) /\ 8 \in Nat \ {0}
    BY <1>5
  <2> QED BY <1>2, <2>1, Divided
<1> QED BY <1>2, <1>3, <1>6, <1>7

LEMMA FieldBytesIn ==
  ASSUME NEW f \in Encodable
  PROVE  /\ writeTag(f.field, f.wireType) \in Seq(Byte) /\ Body(f) \in Seq(Byte)
         /\ FieldBytes(f) \in Seq(Byte)
         /\ Len(FieldBytes(f)) = Len(writeTag(f.field, f.wireType)) + Len(Body(f))
         /\ Len(writeTag(f.field, f.wireType)) >= 1
<1>1. f.field \in Nat /\ f.wireType \in {0, 1, 2, 5} /\ f.varint \in Nat /\ f.raw \in Seq(Byte)
      /\ 8 * f.field + f.wireType \in Nat
  BY FieldParts
<1>2. writeTag(f.field, f.wireType) \in Seq(Byte) /\ Len(writeTag(f.field, f.wireType)) >= 1
  BY <1>1, WriteVarint, Groups DEF writeTag
<1>3. Body(f) \in Seq(Byte)
  <2>1. CASE f.wireType = 0
    <3>1. Body(f) = writeVarint[f.varint]
      BY <2>1 DEF Body
    <3> QED BY <3>1, <1>1, WriteVarint
  <2>2. CASE f.wireType = 1
    <3>1. Body(f) = [i \in 1..8 |-> 0]
      BY <2>2 DEF Body
    <3>2. \A i \in 1..8 : 0 \in Byte
      BY Bases
    <3> QED BY <3>1, <3>2
  <2>3. CASE f.wireType = 2
    <3>1. Len(f.raw) \in Nat
      BY <1>1
    <3>2. writeVarint[Len(f.raw)] \in Seq(Byte)
      BY <3>1, WriteVarint
    <3>3. Body(f) = writeVarint[Len(f.raw)] \o f.raw
      <4>1. f.wireType # 0 /\ f.wireType # 1 /\ f.wireType # 5
        BY <2>3
      <4> QED BY <2>3, <4>1, Zenon DEF Body
    <3> QED BY <3>2, <3>3, <1>1, Joined
  <2>4. CASE f.wireType = 5
    <3> DEFINE a == f.varint % Base
               b == (f.varint \div Base) % Base
               c == ((f.varint \div Base) \div Base) % Base
               d == (((f.varint \div Base) \div Base) \div Base) % Base
    <3>1. Body(f) = <<a, b, c, d>>
      BY <2>4 DEF Body
    <3>2. f.varint < Base * (Base * (Base * Base)) /\ Base \in Nat \ {0}
      BY <2>4, Bases DEF Encodable
    <3>3. a \in Byte /\ b \in Byte /\ c \in Byte /\ d \in Byte
      BY <3>2, <1>1, Fixed32 DEF Byte
    <3> HIDE DEF a, b, c, d
    <3> QED BY <3>1, <3>3
  <2> QED BY <1>1, <2>1, <2>2, <2>3, <2>4
<1>4. FieldBytes(f) \in Seq(Byte)
      /\ Len(FieldBytes(f)) = Len(writeTag(f.field, f.wireType)) + Len(Body(f))
  BY <1>2, <1>3, Joined DEF FieldBytes
<1> QED BY <1>2, <1>3, <1>4

\* A field is read back where it was written, and not at all if it was cut.
LEMMA FieldReadBack ==
  ASSUME NEW data \in Seq(Byte), NEW pos \in Nat \ {0}, NEW f \in Encodable,
         Holds(data, pos, FieldBytes(f))
  PROVE  readField(data, pos) =
           IF pos + Len(FieldBytes(f)) <= Len(data) + 1
             THEN [ok |-> TRUE, field |-> f, next |-> pos + Len(FieldBytes(f))] ELSE Failed
<1> DEFINE t == 8 * f.field + f.wireType
           w == writeTag(f.field, f.wireType)
           b == Body(f)
           at == pos + Len(w)
           n == Len(data)
           tag == readVarint(data, pos)
           v == readVarint(data, tag.next)
<1>1. /\ f.field \in Nat /\ f.wireType \in {0, 1, 2, 5} /\ f.varint \in Nat /\ f.raw \in Seq(Byte)
      /\ f = Field(f.field, f.wireType, f.varint, f.raw)
      /\ t \in Nat /\ t < Pow2[Width] /\ t \div 8 = f.field /\ t % 8 = f.wireType
  BY FieldParts
<1>2. /\ w \in Seq(Byte) /\ b \in Seq(Byte) /\ Len(w) \in Nat /\ Len(b) \in Nat /\ Len(w) >= 1
      /\ Len(FieldBytes(f)) = Len(w) + Len(b)
  BY FieldBytesIn
<1>3. Holds(data, pos, w) /\ Holds(data, at, b)
  BY <1>2, HoldsParts DEF FieldBytes
<1>4. n \in Nat /\ at \in Nat \ {0} /\ pos + Len(FieldBytes(f)) = at + Len(b)
  <2> HIDE DEF w, b
  <2> QED BY <1>2
<1>5. tag = IF at <= n + 1 THEN [ok |-> TRUE, value |-> t, next |-> at] ELSE Failed
  <2>1. w = writeVarint[t]
    BY DEF writeTag
  <2>2. Holds(data, pos, writeVarint[t])
    BY <1>3, <2>1
  <2>3. readVarint(data, pos) =
          IF pos + Len(writeVarint[t]) <= Len(data) + 1
            THEN [ok |-> TRUE, value |-> t, next |-> pos + Len(writeVarint[t])] ELSE Failed
    BY <1>1, <2>2, ReadBack
  <2> QED BY <2>1, <2>3
<1> HIDE DEF t, w, b, at, tag, v
<1>6. CASE ~(at <= n + 1)
  <2>1. ~tag.ok
    BY <1>5, <1>6 DEF Failed
  <2>2. readField(data, pos) = Failed
    BY <2>1, ReadField DEF tag
  <2>3. ~(at + Len(b) <= n + 1)
    BY <1>2, <1>4, <1>6
  <2> QED BY <2>2, <2>3, <1>4
<1>7. CASE at <= n + 1
  <2>1. tag.ok /\ tag.value = t /\ tag.next = at
    BY <1>5, <1>7
  <2>2. tag.value % 8 = f.wireType /\ tag.value \div 8 = f.field
    BY <1>1, <2>1
  <2>3. ASSUME NEW x, NEW r, NEW e, f.varint = x, f.raw = r
        PROVE  Read(tag, x, r, e) = [ok |-> TRUE, field |-> f, next |-> e]
    BY <1>1, <2>2, <2>3 DEF Read
  <2>4. v = readVarint(data, at)
    BY <2>1 DEF v
  <2>5. CASE f.wireType = 0
    <3>1. b = writeVarint[f.varint] /\ f.varint < Pow2[Width] /\ f.raw = <<>>
      BY <2>5 DEF b, Body, Encodable
    <3>2. Holds(data, at, writeVarint[f.varint])
      BY <1>3, <3>1
    <3>3. readVarint(data, at) =
            IF at + Len(writeVarint[f.varint]) <= Len(data) + 1
              THEN [ok |-> TRUE, value |-> f.varint, next |-> at + Len(writeVarint[f.varint])] ELSE Failed
      BY <1>1, <1>4, <3>1, <3>2, ReadBack
    <3>4. v = IF at + Len(b) <= n + 1 THEN [ok |-> TRUE, value |-> f.varint, next |-> at + Len(b)] ELSE Failed
      BY <2>4, <3>1, <3>3
    <3>5. readField(data, pos) = IF v.ok THEN Read(tag, v.value, <<>>, v.next) ELSE Failed
      BY <2>1, <2>2, <2>5, ReadField DEF tag, v
    <3>6. CASE at + Len(b) <= n + 1
      <4>1. readField(data, pos) = Read(tag, f.varint, <<>>, at + Len(b))
        BY <3>4, <3>5, <3>6
      <4>2. readField(data, pos) = [ok |-> TRUE, field |-> f, next |-> at + Len(b)]
        BY <2>3, <3>1, <4>1
      <4> QED BY <1>4, <3>6, <4>2
    <3>7. CASE ~(at + Len(b) <= n + 1)
      BY <1>4, <3>4, <3>5, <3>7 DEF Failed
    <3> QED BY <3>6, <3>7
  <2>6. CASE f.wireType = 1
    <3>1. Len(b) = 8 /\ f.varint = 0 /\ f.raw = <<>>
      <4>1. b = [i \in 1..8 |-> 0]
        BY <2>6 DEF b, Body
      <4>2. Len([i \in 1..8 |-> 0]) = 8
        OBVIOUS
      <4> QED BY <2>6, <4>1, <4>2 DEF Encodable
    <3>2. readField(data, pos) =
            IF Fits(data, tag.next, 8) THEN Read(tag, 0, <<>>, tag.next + 8) ELSE Failed
      BY <2>1, <2>2, <2>6, ReadField DEF tag
    <3>3. readField(data, pos) = IF at + Len(b) <= n + 1 THEN Read(tag, 0, <<>>, at + Len(b)) ELSE Failed
      BY <2>1, <3>1, <3>2 DEF Fits
    <3>4. Read(tag, 0, <<>>, at + Len(b)) = [ok |-> TRUE, field |-> f, next |-> at + Len(b)]
      BY <2>3, <3>1
    <3> QED BY <1>4, <3>3, <3>4
  <2>7. CASE f.wireType = 2
    <3> DEFINE l == Len(f.raw)
               s == writeVarint[l]
               e == at + Len(s)
    <3>1. b = s \o f.raw /\ l < Pow2[Width] /\ l \in Nat /\ f.varint = 0
      BY <1>1, <2>7 DEF b, Body, Encodable
    <3>2. s \in Seq(Byte) /\ Len(s) \in Nat
      <4>1. s \in Seq(Byte)
        BY <3>1, WriteVarint
      <4> QED BY <4>1
    <3>3. Holds(data, at, s) /\ Holds(data, e, f.raw) /\ Len(b) = Len(s) + l
      <4>1. Holds(data, at, s \o f.raw)
        BY <1>3, <3>1
      <4>2. Len(s \o f.raw) = Len(s) + Len(f.raw)
        BY <1>1, <3>2, Joined
      <4> QED BY <4>1, <4>2, <1>1, <1>4, <3>1, <3>2, HoldsParts
    <3>4. readVarint(data, at) =
            IF at + Len(writeVarint[l]) <= Len(data) + 1
              THEN [ok |-> TRUE, value |-> l, next |-> at + Len(writeVarint[l])] ELSE Failed
      BY <1>4, <3>1, <3>3, ReadBack
    <3>5. v = IF e <= n + 1 THEN [ok |-> TRUE, value |-> l, next |-> e] ELSE Failed
      BY <2>4, <3>4
    <3>6. readField(data, pos) =
            IF v.ok /\ Fits(data, v.next, v.value)
              THEN Read(tag, 0, SubSeq(data, v.next, v.next + v.value - 1), v.next + v.value) ELSE Failed
      BY <2>1, <2>2, <2>7, ReadField DEF tag, v
    <3>7. at + Len(b) = e + l /\ e \in Nat \ {0}
      <4> DEFINE m == Len(s)
      <4>1. m \in Nat /\ Len(b) = m + l /\ e = at + m
        BY <3>2, <3>3
      <4> HIDE DEF m, l, e
      <4> QED BY <4>1, <1>4, <3>1
    <3>8. Holds(data, e, f.raw)
      BY <3>3
    <3> HIDE DEF l, s, e
    <3>9. CASE e + l <= n + 1
      <4>1. e <= n + 1
        BY <1>4, <3>1, <3>7, <3>9
      <4>2. v.ok /\ v.value = l /\ v.next = e
        BY <3>5, <4>1
      <4>3. Fits(data, v.next, v.value)
        BY <3>9, <4>2 DEF Fits
      <4>4. SubSeq(data, e, e + l - 1) = f.raw
        <5>1. \A i \in 1..l : data[e + i - 1] = f.raw[i]
          <6> TAKE i \in 1..l
          <6>1. e + i - 1 <= Len(data)
            BY <1>4, <3>1, <3>7, <3>9
          <6> QED BY <6>1, <3>8 DEF Holds, l
        <5> DEFINE r == SubSeq(data, e, e + l - 1)
        <5>2. \A i \in e..(e + l - 1) : data[i] \in Byte
          <6> TAKE i \in e..(e + l - 1)
          <6>1. i \in 1..Len(data)
            BY <1>4, <3>1, <3>7, <3>9
          <6> QED BY <6>1
        <5>3. r \in Seq(Byte) /\ Len(r) = l /\ \A i \in 1..l : r[i] = data[e + i - 1]
          <6>1. e \in Int /\ e + l - 1 \in Int /\ (e + l - 1) - e + 1 = l
            BY <3>1, <3>7
          <6>2. r = [i \in 1..((e + l - 1) - e + 1) |-> data[e + i - 1]]
            BY <6>1
          <6>3. r = [i \in 1..l |-> data[e + i - 1]]
            BY <6>1, <6>2
          <6>4. \A i \in 1..l : data[e + i - 1] \in Byte
            <7> TAKE i \in 1..l
            <7>1. e + i - 1 \in e..(e + l - 1)
              BY <3>1, <3>7
            <7> QED BY <5>2, <7>1
          <6> HIDE DEF r
          <6>5. r \in Seq(Byte)
            BY <3>1, <6>3, <6>4
          <6>6. Len(r) = l
            BY <3>1, <6>3
          <6> QED BY <6>3, <6>5, <6>6
        <5> HIDE DEF r
        <5>4. Len(f.raw) = l
          BY DEF l
        <5>5. r = f.raw
          <6>1. Len(r) = Len(f.raw) /\ \A i \in 1..Len(r) : r[i] = f.raw[i]
            BY <5>1, <5>3, <5>4
          <6> QED BY <1>1, <5>3, <6>1, SeqEqual
        <5> QED BY <5>5 DEF r
      <4>5. readField(data, pos) = Read(tag, 0, f.raw, e + l)
        BY <3>6, <4>2, <4>3, <4>4
      <4>6. readField(data, pos) = [ok |-> TRUE, field |-> f, next |-> e + l]
        BY <2>3, <3>1, <4>5
      <4> QED BY <1>4, <3>7, <3>9, <4>6
    <3>10. CASE ~(e + l <= n + 1)
      <4>1. ~(v.ok /\ Fits(data, v.next, v.value))
        BY <3>5, <3>10 DEF Fits, Failed
      <4> QED BY <1>4, <3>6, <3>7, <3>10, <4>1
    <3> QED BY <3>9, <3>10
  <2>8. CASE f.wireType = 5
    <3> DEFINE x == f.varint
               b1 == x % Base
               b2 == (x \div Base) % Base
               b3 == ((x \div Base) \div Base) % Base
               b4 == (((x \div Base) \div Base) \div Base) % Base
               y == data[tag.next] + Base * (data[tag.next + 1]
                      + Base * (data[tag.next + 2] + Base * data[tag.next + 3]))
    <3>1. b = <<b1, b2, b3, b4>> /\ f.raw = <<>> /\ x < Base * (Base * (Base * Base))
      BY <2>8 DEF b, Body, Encodable
    <3>2. b1 + Base * (b2 + Base * (b3 + Base * b4)) = x
      <4>1. Base \in Nat \ {0}
        BY Bases
      <4> QED BY <1>1, <3>1, <4>1, Fixed32
    <3>3. readField(data, pos) = IF Fits(data, tag.next, 4) THEN Read(tag, y, <<>>, tag.next + 4) ELSE Failed
      BY <2>1, <2>2, <2>8, ReadField DEF tag
    <3> HIDE DEF b1, b2, b3, b4
    <3>4. Len(b) = 4 /\ b[1] = b1 /\ b[2] = b2 /\ b[3] = b3 /\ b[4] = b4
      BY <3>1
    <3>5. CASE at + 4 <= n + 1
      <4>1. ASSUME NEW i \in 1..4 PROVE data[at + i - 1] = b[i]
        <5>1. at + i - 1 <= Len(data) /\ i \in 1..Len(b)
          BY <1>4, <3>4, <3>5
        <5> QED BY <5>1, <1>3 DEF Holds
      <4>2. at + 1 - 1 = at /\ at + 2 - 1 = at + 1 /\ at + 3 - 1 = at + 2 /\ at + 4 - 1 = at + 3
        BY <1>4
      <4>3. data[at] = b1 /\ data[at + 1] = b2 /\ data[at + 2] = b3 /\ data[at + 3] = b4
        BY <3>4, <4>1, <4>2
      <4>4. y = x
        BY <2>1, <3>2, <4>3
      <4>5. readField(data, pos) = Read(tag, x, <<>>, at + 4)
        BY <2>1, <3>3, <3>5, <4>4 DEF Fits
      <4>6. readField(data, pos) = [ok |-> TRUE, field |-> f, next |-> at + 4]
        BY <2>3, <3>1, <4>5
      <4> QED BY <1>4, <3>4, <3>5, <4>6
    <3>6. CASE ~(at + 4 <= n + 1)
      <4>1. readField(data, pos) = Failed
        BY <2>1, <3>3, <3>6 DEF Fits
      <4> QED BY <1>4, <3>4, <3>6, <4>1
    <3> QED BY <3>5, <3>6
  <2> QED BY <1>1, <2>5, <2>6, <2>7, <2>8
<1> QED BY <1>6, <1>7

-----------------------------------------------------------------------------
(***************************************************************************)
(* Messages                                                                *)
(***************************************************************************)
\* The bytes with those of one more field.
Extended(data, f) ==
  CASE f.wireType = 0 -> addVarint(data, f.field, f.varint)
    [] f.wireType = 1 -> addFixed64(data, f.field)
    [] f.wireType = 2 -> addBytes(data, f.field, f.raw)
    [] f.wireType = 5 -> addFixed32(data, f.field, f.varint)

LEMMA ExtendedBy ==
  ASSUME NEW data \in Seq(Byte), NEW f \in Encodable
  PROVE  Extended(data, f) = data \o FieldBytes(f) /\ Extended(data, f) \in Seq(Byte)
<1> DEFINE w == writeTag(f.field, f.wireType)
           b == Body(f)
<1>1. f.field \in Nat /\ f.wireType \in {0, 1, 2, 5} /\ f.varint \in Nat /\ f.raw \in Seq(Byte)
  BY FieldParts
<1>2. w \in Seq(Byte) /\ b \in Seq(Byte) /\ FieldBytes(f) \in Seq(Byte)
  BY FieldBytesIn
<1>3. (data \o w) \o b = data \o (w \o b)
  BY <1>2, JoinedThree
<1>4. Extended(data, f) = (data \o w) \o b
  <2>1. CASE f.wireType = 0
    <3>1. f.wireType # 1 /\ f.wireType # 2 /\ f.wireType # 5
      BY <2>1
    <3>2. b = writeVarint[f.varint]
      BY <2>1, <3>1, Zenon DEF Body
    <3>3. Extended(data, f) = addVarint(data, f.field, f.varint)
      BY <2>1, <3>1, Zenon DEF Extended
    <3>4. w = writeTag(f.field, 0)
      BY <2>1
    <3> HIDE DEF w, b
    <3> QED BY <3>2, <3>3, <3>4, Zenon DEF addVarint
  <2>2. CASE f.wireType = 1
    <3>1. f.wireType # 0 /\ f.wireType # 2 /\ f.wireType # 5
      BY <2>2
    <3>2. b = [i \in 1..8 |-> 0]
      BY <2>2, <3>1, Zenon DEF Body
    <3>3. Extended(data, f) = addFixed64(data, f.field)
      BY <2>2, <3>1, Zenon DEF Extended
    <3>4. w = writeTag(f.field, 1)
      BY <2>2
    <3> HIDE DEF w, b
    <3> QED BY <3>2, <3>3, <3>4, Zenon DEF addFixed64
  <2>3. CASE f.wireType = 2
    <3> DEFINE s == writeVarint[Len(f.raw)]
    <3>1. f.wireType # 0 /\ f.wireType # 1 /\ f.wireType # 5
      BY <2>3
    <3>2. b = s \o f.raw
      BY <2>3, <3>1, Zenon DEF Body
    <3>3. Extended(data, f) = addBytes(data, f.field, f.raw)
      BY <2>3, <3>1, Zenon DEF Extended
    <3>4. w = writeTag(f.field, 2)
      BY <2>3
    <3>5. s \in Seq(Byte)
      <4>1. Len(f.raw) \in Nat
        BY <1>1
      <4> QED BY <4>1, WriteVarint
    <3>6. data \o w \in Seq(Byte)
      BY <1>2, Joined
    <3>7. ((data \o w) \o s) \o f.raw = (data \o w) \o (s \o f.raw)
      <4> DEFINE x == data \o w
                 r == f.raw
      <4>1. x \in Seq(Byte) /\ s \in Seq(Byte) /\ r \in Seq(Byte)
        BY <1>1, <3>5, <3>6
      <4> HIDE DEF x, s, r
      <4>2. (x \o s) \o r = x \o (s \o r)
        BY <4>1, JoinedThree
      <4> QED BY <4>2, Zenon DEF x, r
    <3>8. Extended(data, f) = ((data \o w) \o s) \o f.raw
      <4> HIDE DEF w, b
      <4> QED BY <3>3, <3>4, Zenon DEF addBytes
    <3> HIDE DEF w, b, s
    <3> QED BY <3>2, <3>7, <3>8, Zenon
  <2>4. CASE f.wireType = 5
    <3> DEFINE q == <<f.varint % Base, (f.varint \div Base) % Base,
                      ((f.varint \div Base) \div Base) % Base,
                      (((f.varint \div Base) \div Base) \div Base) % Base>>
    <3>1. f.wireType # 0 /\ f.wireType # 1 /\ f.wireType # 2
      BY <2>4
    <3>2. b = q
      BY <2>4, <3>1, Zenon DEF Body
    <3>3. Extended(data, f) = addFixed32(data, f.field, f.varint)
      BY <2>4, <3>1, Zenon DEF Extended
    <3>4. w = writeTag(f.field, 5)
      BY <2>4
    <3>5. addFixed32(data, f.field, f.varint) = (data \o writeTag(f.field, 5)) \o q
      BY Zenon DEF addFixed32
    <3> HIDE DEF w, b, q
    <3> QED BY <3>2, <3>3, <3>4, <3>5, Zenon
  <2> QED BY <1>1, <2>1, <2>2, <2>3, <2>4
<1>5. data \o FieldBytes(f) \in Seq(Byte)
  BY <1>2, Joined
<1>6. FieldBytes(f) = w \o b
  BY DEF FieldBytes
<1> HIDE DEF w, b
<1> QED BY <1>3, <1>4, <1>5, <1>6, Zenon

\* The bytes of the first n fields.
Encoded(fields) ==
  LET data[n \in 0..Len(fields)] ==
        IF n = 0 THEN <<>>
        ELSE LET f == fields[n]
             IN CASE f.wireType = 0 -> addVarint(data[n - 1], f.field, f.varint)
                  [] f.wireType = 1 -> addFixed64(data[n - 1], f.field)
                  [] f.wireType = 2 -> addBytes(data[n - 1], f.field, f.raw)
                  [] f.wireType = 5 -> addFixed32(data[n - 1], f.field, f.varint)
  IN data

LEMMA EncodeSteps ==
  ASSUME NEW fields \in Seq(Encodable)
  PROVE  /\ Encoded(fields)[0] = <<>>
         /\ \A n \in 0..Len(fields) : Encoded(fields)[n] \in Seq(Byte)
         /\ \A n \in 1..Len(fields) :
              /\ Encoded(fields)[n] = Encoded(fields)[n - 1] \o FieldBytes(fields[n])
              /\ Len(Encoded(fields)[n]) = Len(Encoded(fields)[n - 1]) + Len(FieldBytes(fields[n]))
         /\ encode(fields) = Encoded(fields)[Len(fields)]
<1> DEFINE N == Len(fields)
           S == 0..N
           stop == {0}
           base == [n \in stop |-> <<>>]
           next == [n \in S \ stop |-> n - 1]
           step == [n \in S \ stop |-> [y \in Seq(Byte) |-> Extended(y, fields[n])]]
           rank == [n \in S |-> n]
           E == Encoded(fields)
<1>1. N \in Nat /\ 0 \in S /\ S \subseteq Nat
  OBVIOUS
<1>2. ASSUME NEW n \in S, n # 0 PROVE n \in 1..N /\ n - 1 \in S /\ fields[n] \in Encodable
  BY <1>2
<1>3. Recursive(S, Seq(Byte), stop, base, next, step, rank)
  <2>1. stop \in SUBSET S /\ base \in [stop -> Seq(Byte)]
    BY <1>1
  <2>2. next \in [S \ stop -> S] /\ rank \in [S -> Nat]
    BY <1>1, <1>2
  <2>3. step \in [S \ stop -> [Seq(Byte) -> Seq(Byte)]]
    <3> SUFFICES ASSUME NEW n \in S \ stop, NEW y \in Seq(Byte) PROVE Extended(y, fields[n]) \in Seq(Byte)
      OBVIOUS
    <3>1. fields[n] \in Encodable
      BY <1>2
    <3> QED BY <3>1, ExtendedBy
  <2>4. \A x \in S \ stop : rank[next[x]] < rank[x]
    BY <1>1, <1>2
  <2> HIDE DEF S, stop, base, next, step, rank
  <2> QED BY <2>1, <2>2, <2>3, <2>4 DEF Recursive
<1>4. PICK f \in [S -> Seq(Byte)] :
        f = [x \in S |-> IF x \in stop THEN base[x] ELSE step[x][f[next[x]]]]
  <2> HIDE DEF S, stop, base, next, step, rank
  <2> QED BY <1>3, Recursion
<1>5. ASSUME NEW n \in S
      PROVE  (IF n \in stop THEN base[n] ELSE step[n][f[next[n]]])
               = (IF n = 0 THEN <<>> ELSE Extended(f[n - 1], fields[n]))
  <2>1. CASE n = 0
    BY <2>1, <1>1
  <2>2. CASE n # 0
    <3>1. n \in S \ stop /\ n - 1 \in S
      BY <2>2, <1>2
    <3> HIDE DEF S
    <3>2. f[n - 1] \in Seq(Byte)
      BY <3>1
    <3>3. next[n] = n - 1 /\ step[n][f[n - 1]] = Extended(f[n - 1], fields[n])
      BY <3>1, <3>2
    <3> HIDE DEF step, next, base
    <3>4. n \notin stop
      BY <2>2
    <3> HIDE DEF stop
    <3> QED BY <2>2, <3>3, <3>4
  <2> QED BY <2>1, <2>2
<1>6. f = [n \in S |-> IF n = 0 THEN <<>> ELSE Extended(f[n - 1], fields[n])]
  <2> HIDE DEF S, stop, base, next, step
  <2> QED BY <1>4, <1>5
<1> DEFINE g[n \in 0..Len(fields)] ==
             IF n = 0 THEN <<>>
             ELSE LET h == fields[n]
                  IN CASE h.wireType = 0 -> addVarint(g[n - 1], h.field, h.varint)
                       [] h.wireType = 1 -> addFixed64(g[n - 1], h.field)
                       [] h.wireType = 2 -> addBytes(g[n - 1], h.field, h.raw)
                       [] h.wireType = 5 -> addFixed32(g[n - 1], h.field, h.varint)
<1>7. g = [n \in S |-> IF n = 0 THEN <<>> ELSE Extended(g[n - 1], fields[n])]
  <2>1. \E k : k = [n \in S |-> IF n = 0 THEN <<>> ELSE Extended(k[n - 1], fields[n])]
    BY <1>6
  <2>2. \E k : k = [n \in 0..Len(fields) |->
             IF n = 0 THEN <<>>
             ELSE LET h == fields[n]
                  IN CASE h.wireType = 0 -> addVarint(k[n - 1], h.field, h.varint)
                       [] h.wireType = 1 -> addFixed64(k[n - 1], h.field)
                       [] h.wireType = 2 -> addBytes(k[n - 1], h.field, h.raw)
                       [] h.wireType = 5 -> addFixed32(k[n - 1], h.field, h.varint)]
    BY <2>1, Zenon DEF Extended
  <2>3. g = [n \in 0..Len(fields) |->
             IF n = 0 THEN <<>>
             ELSE LET h == fields[n]
                  IN CASE h.wireType = 0 -> addVarint(g[n - 1], h.field, h.varint)
                       [] h.wireType = 1 -> addFixed64(g[n - 1], h.field)
                       [] h.wireType = 2 -> addBytes(g[n - 1], h.field, h.raw)
                       [] h.wireType = 5 -> addFixed32(g[n - 1], h.field, h.varint)]
    BY <2>2, Zenon
  <2> HIDE DEF g
  <2> QED BY <2>3, Zenon DEF Extended
<1>8. E = g /\ encode(fields) = g[Len(fields)]
  BY Zenon DEF Encoded, encode
<1> HIDE DEF g
<1>9. E = [n \in S |-> IF n = 0 THEN <<>> ELSE Extended(E[n - 1], fields[n])] /\ encode(fields) = E[N]
  <2> HIDE DEF E, S
  <2> QED BY <1>7, <1>8
<1> HIDE DEF E
<1>10. E[0] = <<>>
  BY <1>1, <1>9
<1>11. ASSUME NEW n \in 1..N PROVE E[n] = Extended(E[n - 1], fields[n])
  <2>1. n \in S /\ n # 0
    BY <1>1
  <2> HIDE DEF S
  <2> QED BY <1>9, <2>1
<1>12. \A n \in S : E[n] \in Seq(Byte)
  <2> DEFINE T == {n \in Nat : n \in S => E[n] \in Seq(Byte)}
  <2>1. 0 \in T
    <3>1. <<>> \in Seq(Byte)
      OBVIOUS
    <3> QED BY <1>10, <3>1
  <2>2. ASSUME NEW n \in Nat, n \in T PROVE n + 1 \in T
    <3> SUFFICES ASSUME n + 1 \in S PROVE E[n + 1] \in Seq(Byte)
      OBVIOUS
    <3>1. n + 1 \in 1..N /\ n \in S /\ (n + 1) - 1 = n
      BY <1>1
    <3>2. E[n] \in Seq(Byte) /\ fields[n + 1] \in Encodable
      BY <2>2, <3>1
    <3>3. Extended(E[n], fields[n + 1]) \in Seq(Byte)
      BY <3>2, ExtendedBy
    <3>4. E[n + 1] = Extended(E[(n + 1) - 1], fields[n + 1])
      BY <3>1, <1>11
    <3> QED BY <3>1, <3>3, <3>4
  <2>3. \A n \in Nat : n \in T
    <3> HIDE DEF T
    <3> QED BY <2>1, <2>2, Induction
  <2> QED BY <2>3, <1>1
<1>13. ASSUME NEW n \in 1..N
       PROVE  E[n] = E[n - 1] \o FieldBytes(fields[n]) /\ Len(E[n]) = Len(E[n - 1]) + Len(FieldBytes(fields[n]))
  <2>1. n - 1 \in S /\ fields[n] \in Encodable
    BY <1>1
  <2>2. E[n - 1] \in Seq(Byte)
    BY <1>12, <2>1
  <2>3. E[n] = E[n - 1] \o FieldBytes(fields[n])
    BY <1>11, <2>1, <2>2, ExtendedBy
  <2>4. FieldBytes(fields[n]) \in Seq(Byte)
    BY <2>1, FieldBytesIn
  <2>5. Len(E[n - 1] \o FieldBytes(fields[n])) = Len(E[n - 1]) + Len(FieldBytes(fields[n]))
    BY <2>2, <2>4, Joined
  <2> QED BY <2>3, <2>5
<1> QED BY <1>9, <1>10, <1>12, <1>13 DEF E

\* What was encoded first stays in front of what follows.
LEMMA EncodedPrefix ==
  ASSUME NEW fields \in Seq(Encodable)
  PROVE  \A k \in 0..Len(fields) :
           /\ Len(Encoded(fields)[k]) <= Len(encode(fields))
           /\ \A j \in 1..Len(Encoded(fields)[k]) : encode(fields)[j] = Encoded(fields)[k][j]
<1> DEFINE E == Encoded(fields)
           N == Len(fields)
           c == encode(fields)
           In(k) == Len(E[k]) <= Len(c) /\ \A j \in 1..Len(E[k]) : c[j] = E[k][j]
           T == {d \in Nat : \A k \in 0..N : k + d = N => In(k)}
<1>1. N \in Nat /\ c = E[N]
  <2>1. N \in Nat
    OBVIOUS
  <2>2. c = E[N]
    BY EncodeSteps, Zenon
  <2> QED BY <2>1, <2>2, Zenon
<1>2. \A n \in 0..N : E[n] \in Seq(Byte) /\ Len(E[n]) \in Nat
  <2> TAKE n \in 0..N
  <2>1. E[n] \in Seq(Byte)
    BY EncodeSteps
  <2> QED BY <2>1
<1>3. 0 \in T
  <2> SUFFICES ASSUME NEW k \in 0..N, k + 0 = N PROVE In(k)
    OBVIOUS
  <2>1. k = N
    BY <1>1
  <2> HIDE DEF E, c
  <2> QED BY <1>1, <1>2, <2>1
<1>4. ASSUME NEW d \in Nat, d \in T PROVE d + 1 \in T
  <2> SUFFICES ASSUME NEW k \in 0..N, k + (d + 1) = N PROVE In(k)
    OBVIOUS
  <2>1. k + 1 \in 1..N /\ k + 1 \in 0..N /\ (k + 1) + d = N /\ (k + 1) - 1 = k /\ fields[k + 1] \in Encodable
    BY <1>1
  <2>2. In(k + 1)
    BY <1>4, <2>1
  <2> DEFINE b == FieldBytes(fields[k + 1])
  <2>3. b \in Seq(Byte)
    BY <2>1, FieldBytesIn
  <2>4. E[k + 1] = E[k] \o b
    <3>1. E[k + 1] = E[(k + 1) - 1] \o b
      BY <2>1, EncodeSteps
    <3> QED BY <2>1, <3>1
  <2>5. /\ Len(E[k] \o b) = Len(E[k]) + Len(b)
        /\ \A x \in 1..Len(E[k]) : (E[k] \o b)[x] = E[k][x]
    BY <1>2, <2>3, Joined
  <2>6. Len(b) \in Nat /\ Len(E[k]) \in Nat /\ Len(c) \in Nat
    BY <1>1, <1>2, <2>3
  <2> HIDE DEF E, c, b
  <2>7. Len(E[k + 1]) = Len(E[k]) + Len(b) /\ \A x \in 1..Len(E[k]) : E[k + 1][x] = E[k][x]
    BY <2>4, <2>5
  <2>8. Len(E[k]) <= Len(c)
    BY <2>2, <2>6, <2>7
  <2>9. ASSUME NEW j \in 1..Len(E[k]) PROVE c[j] = E[k][j]
    <3>1. j \in 1..Len(E[k + 1])
      BY <2>6, <2>7
    <3> QED BY <2>2, <2>7, <3>1
  <2> QED BY <2>8, <2>9
<1>5. \A d \in Nat : d \in T
  <2> HIDE DEF T
  <2> QED BY <1>3, <1>4, Induction
<1>6. ASSUME NEW k \in 0..N PROVE In(k)
  <2>1. N - k \in Nat /\ k + (N - k) = N
    BY <1>1
  <2>2. N - k \in T
    BY <1>5, <2>1
  <2> HIDE DEF In
  <2> QED BY <2>1, <2>2
<1> QED BY <1>6

\* The fields read from each place.
Decoded(data) ==
  LET fields[pos \in 1..(Len(data) + 1)] ==
        IF pos > Len(data) \/ ~readField(data, pos).ok THEN <<>>
        ELSE <<readField(data, pos).field>> \o fields[readField(data, pos).next]
  IN fields

LEMMA DecodeSteps ==
  ASSUME NEW data \in Seq(Byte)
  PROVE  /\ \A pos \in 1..(Len(data) + 1) :
              Decoded(data)[pos] =
                IF pos > Len(data) \/ ~readField(data, pos).ok THEN <<>>
                ELSE <<readField(data, pos).field>> \o Decoded(data)[readField(data, pos).next]
         /\ decode(data) = Decoded(data)[1]
<1> DEFINE n == Len(data)
           S == 1..(n + 1)
           r(pos) == readField(data, pos)
           Done(pos) == pos > n \/ ~r(pos).ok
           F == {r(pos).field : pos \in S}
           stop == {pos \in S : Done(pos)}
           base == [pos \in stop |-> <<>>]
           next == [pos \in S \ stop |-> r(pos).next]
           step == [pos \in S \ stop |-> [y \in Seq(F) |-> <<r(pos).field>> \o y]]
           rank == [pos \in S |-> (n + 1) - pos]
<1>1. n \in Nat /\ S \subseteq Nat
  OBVIOUS
<1>2. ASSUME NEW pos \in S \ stop PROVE r(pos).field \in F /\ r(pos).next \in S /\ r(pos).next > pos
  <2>1. pos \in 1..(Len(data) + 1) /\ readField(data, pos).ok
    OBVIOUS
  <2>2. readField(data, pos).next \in (pos + 1)..(Len(data) + 1)
    BY <2>1, ReadFieldOn
  <2> QED BY <1>1, <2>1, <2>2
<1> HIDE DEF r
<1>3. Recursive(S, Seq(F), stop, base, next, step, rank)
  <2>1. stop \in SUBSET S
    OBVIOUS
  <2>2. base \in [stop -> Seq(F)]
    <3>1. <<>> \in Seq(F)
      OBVIOUS
    <3> HIDE DEF stop, F
    <3> QED BY <3>1
  <2>3. rank \in [S -> Nat]
    BY <1>1
  <2>4. next \in [S \ stop -> S]
    <3> HIDE DEF stop, S
    <3> QED BY <1>2
  <2>5. step \in [S \ stop -> [Seq(F) -> Seq(F)]]
    <3> SUFFICES ASSUME NEW pos \in S \ stop, NEW y \in Seq(F) PROVE <<r(pos).field>> \o y \in Seq(F)
      OBVIOUS
    <3>1. r(pos).field \in F
      BY <1>2
    <3> HIDE DEF F
    <3> QED BY <3>1, Prefixed
  <2>6. ASSUME NEW x \in S \ stop PROVE rank[next[x]] < rank[x]
    <3>1. next[x] = r(x).next /\ r(x).next \in S /\ r(x).next > x /\ x \in S
      BY <1>2
    <3>2. rank[r(x).next] = (n + 1) - r(x).next /\ rank[x] = (n + 1) - x
      BY <3>1
    <3>3. r(x).next \in Nat /\ x \in Nat
      BY <1>1, <3>1
    <3> HIDE DEF rank, next, n
    <3> QED BY <1>1, <3>1, <3>2, <3>3
  <2> HIDE DEF S, F, stop, base, next, step, rank
  <2> QED BY <2>1, <2>2, <2>3, <2>4, <2>5, <2>6 DEF Recursive
<1>4. PICK f \in [S -> Seq(F)] :
        f = [x \in S |-> IF x \in stop THEN base[x] ELSE step[x][f[next[x]]]]
  <2> HIDE DEF S, F, stop, base, next, step, rank
  <2> QED BY <1>3, Recursion
<1>5. ASSUME NEW pos \in S
      PROVE  (IF pos \in stop THEN base[pos] ELSE step[pos][f[next[pos]]])
               = (IF Done(pos) THEN <<>> ELSE <<r(pos).field>> \o f[r(pos).next])
  <2>1. CASE Done(pos)
    BY <2>1
  <2>2. CASE ~Done(pos)
    <3>1. pos \in S \ stop
      BY <2>2
    <3>2. f[r(pos).next] \in Seq(F)
      BY <1>2, <3>1
    <3> HIDE DEF S, F
    <3>3. next[pos] = r(pos).next
      BY <3>1
    <3>4. step[pos][f[r(pos).next]] = <<r(pos).field>> \o f[r(pos).next]
      BY <3>1, <3>2
    <3> HIDE DEF stop, step, next, base, Done
    <3> QED BY <2>2, <3>1, <3>3, <3>4
  <2> QED BY <2>1, <2>2
<1>6. f = [pos \in S |-> IF Done(pos) THEN <<>> ELSE <<r(pos).field>> \o f[r(pos).next]]
  <2> HIDE DEF S, F, stop, base, next, step, Done
  <2> QED BY <1>4, <1>5
<1> DEFINE g[pos \in 1..(Len(data) + 1)] ==
             IF pos > Len(data) \/ ~readField(data, pos).ok THEN <<>>
             ELSE <<readField(data, pos).field>> \o g[readField(data, pos).next]
<1>7. \E k : k = [pos \in 1..(Len(data) + 1) |->
                    IF pos > Len(data) \/ ~readField(data, pos).ok THEN <<>>
                    ELSE <<readField(data, pos).field>> \o k[readField(data, pos).next]]
  BY <1>6, Zenon DEF r
<1>8. g = [pos \in 1..(Len(data) + 1) |->
             IF pos > Len(data) \/ ~readField(data, pos).ok THEN <<>>
             ELSE <<readField(data, pos).field>> \o g[readField(data, pos).next]]
  BY <1>7, Zenon
<1>9. Decoded(data) = g /\ decode(data) = g[1]
  BY Zenon DEF Decoded, decode
<1> HIDE DEF g
<1>10. ASSUME NEW pos \in 1..(Len(data) + 1)
       PROVE  g[pos] = IF pos > Len(data) \/ ~readField(data, pos).ok THEN <<>>
                       ELSE <<readField(data, pos).field>> \o g[readField(data, pos).next]
  BY <1>8, Zenon
<1> QED BY <1>9, <1>10, Zenon

\* What is decoded from the first n bytes are the first fields, all of them when
\* n is the length.
LEMMA Decoding ==
  ASSUME NEW fields \in Seq(Encodable), NEW n \in 0..Len(encode(fields))
  PROVE  \E K \in 0..Len(fields) :
           /\ decode(SubSeq(encode(fields), 1, n)) = SubSeq(fields, 1, K)
           /\ n = Len(encode(fields)) => K = Len(fields)
<1> DEFINE E == Encoded(fields)
           N == Len(fields)
           c == encode(fields)
           data == SubSeq(c, 1, n)
           L(k) == Len(E[k])
           G == Decoded(data)
           P(k) == L(k) <= n => \E K \in k..N : G[L(k) + 1] = SubSeq(fields, k + 1, K) /\ (n = L(N) => K = N)
           T == {d \in Nat : \A k \in 0..N : k + d = N => P(k)}
<1>1. N \in Nat /\ c = E[N]
  <2>1. N \in Nat
    OBVIOUS
  <2>2. c = E[N]
    BY EncodeSteps, Zenon
  <2> QED BY <2>1, <2>2, Zenon
<1>2. \A k \in 0..N : E[k] \in Seq(Byte) /\ L(k) \in Nat
  <2> TAKE k \in 0..N
  <2>1. E[k] \in Seq(Byte)
    BY EncodeSteps
  <2> QED BY <2>1
<1>3. c \in Seq(Byte) /\ Len(c) = L(N) /\ L(N) \in Nat /\ n \in 0..L(N)
  BY <1>1, <1>2
<1>4. data \in Seq(Byte) /\ Len(data) = n /\ \A j \in 1..n : data[j] = c[j]
  <2> HIDE DEF c
  <2>1. n \in 0..Len(c) /\ n \in Nat
    BY <1>3
  <2>2. \A j \in 1..n : c[j] \in Byte
    <3> TAKE j \in 1..n
    <3>1. j \in 1..Len(c)
      BY <1>3
    <3> QED BY <1>3, <3>1
  <2>3. data = [j \in 1..n |-> c[j]]
    <3>1. data = [j \in 1..(n - 1 + 1) |-> c[1 + j - 1]]
      BY <2>1
    <3>2. n - 1 + 1 = n /\ \A j \in 1..n : 1 + j - 1 = j
      BY <2>1
    <3> HIDE DEF data
    <3> QED BY <3>1, <3>2
  <2> HIDE DEF data
  <2>4. data \in Seq(Byte)
    BY <2>1, <2>2, <2>3
  <2>5. Len(data) = n
    BY <2>1, <2>3
  <2> QED BY <2>3, <2>4, <2>5
<1>5. decode(data) = G[1]
  BY <1>4, DecodeSteps
<1>6. ASSUME NEW pos \in 1..(n + 1)
      PROVE  G[pos] = IF pos > n \/ ~readField(data, pos).ok THEN <<>>
                      ELSE <<readField(data, pos).field>> \o G[readField(data, pos).next]
  <2>1. pos \in 1..(Len(data) + 1)
    BY <1>4
  <2>2. Decoded(data)[pos] =
          IF pos > Len(data) \/ ~readField(data, pos).ok THEN <<>>
          ELSE <<readField(data, pos).field>> \o Decoded(data)[readField(data, pos).next]
    <3>1. data \in Seq(Byte)
      BY <1>4
    <3> HIDE DEF data
    <3> QED BY <2>1, <3>1, DecodeSteps
  <2>3. Len(data) = n
    BY <1>4
  <2> HIDE DEF data
  <2> QED BY <2>2, <2>3, Zenon
<1>7. \A k \in 0..N : L(k) <= L(N) /\ \A j \in 1..L(k) : c[j] = E[k][j]
  BY <1>3, EncodedPrefix
<1> HIDE DEF data, c, G
<1>8. 0 \in T
  <2> SUFFICES ASSUME NEW k \in 0..N, k + 0 = N, L(k) <= n
               PROVE  \E K \in k..N : G[L(k) + 1] = SubSeq(fields, k + 1, K) /\ (n = L(N) => K = N)
    OBVIOUS
  <2>1. k = N /\ n = L(N)
    <3> HIDE DEF L
    <3>1. k = N
      BY <1>1
    <3> QED BY <1>3, <3>1
  <2>2. G[n + 1] = <<>>
    <3>1. n + 1 \in 1..(n + 1) /\ n + 1 > n
      BY <1>3
    <3> QED BY <1>6, <3>1
  <2>3. SubSeq(fields, N + 1, N) = <<>>
    BY <1>1
  <2>4. N \in k..N
    BY <2>1, <1>1
  <2> HIDE DEF L, N
  <2> QED BY <2>1, <2>2, <2>3, <2>4
<1>9. ASSUME NEW d \in Nat, d \in T PROVE d + 1 \in T
  <2> SUFFICES ASSUME NEW k \in 0..N, k + (d + 1) = N, L(k) <= n
               PROVE  \E K \in k..N : G[L(k) + 1] = SubSeq(fields, k + 1, K) /\ (n = L(N) => K = N)
    OBVIOUS
  <2> DEFINE f == fields[k + 1]
             b == FieldBytes(f)
             pos == L(k) + 1
  <2>1. k + 1 \in 1..N /\ k + 1 \in 0..N /\ (k + 1) + d = N /\ (k + 1) - 1 = k /\ f \in Encodable /\ k \in Nat
    BY <1>1
  <2>2. P(k + 1)
    BY <1>9, <2>1
  <2>3. b \in Seq(Byte) /\ Len(b) \in Nat /\ Len(b) >= 1
    <3>1. /\ b \in Seq(Byte) /\ Body(f) \in Seq(Byte) /\ writeTag(f.field, f.wireType) \in Seq(Byte)
          /\ Len(b) = Len(writeTag(f.field, f.wireType)) + Len(Body(f))
          /\ Len(writeTag(f.field, f.wireType)) >= 1
      BY <2>1, FieldBytesIn
    <3> DEFINE p == Len(writeTag(f.field, f.wireType))
               q == Len(Body(f))
    <3>2. p \in Nat /\ q \in Nat /\ Len(b) = p + q /\ p >= 1
      BY <3>1
    <3> HIDE DEF p, q, b
    <3> QED BY <3>1, <3>2
  <2>4. E[k + 1] = E[k] \o b /\ L(k + 1) = L(k) + Len(b)
    <3>1. E[k + 1] = E[(k + 1) - 1] \o b /\ Len(E[k + 1]) = Len(E[(k + 1) - 1]) + Len(b)
      BY <2>1, EncodeSteps
    <3> QED BY <2>1, <3>1
  <2>5. L(k) \in Nat /\ L(k + 1) \in Nat /\ L(k + 1) <= L(N) /\ n \in Nat /\ n <= L(N)
    BY <1>2, <1>3, <1>7, <2>1
  <2>6. Holds(data, pos, b)
    <3> SUFFICES ASSUME NEW i \in 1..Len(b), pos + i - 1 <= Len(data) PROVE data[pos + i - 1] = b[i]
      BY DEF Holds
    <3> DEFINE l == L(k)
               x == pos + i - 1
    <3>1. x = l + i /\ x \in 1..n /\ x \in 1..L(k + 1)
      <4>1. l \in Nat /\ L(k + 1) = l + Len(b) /\ x = (l + 1) + i - 1 /\ x <= n
        BY <1>4, <2>4, <2>5
      <4> HIDE DEF l, x, L
      <4> QED BY <4>1, <2>3, <2>5
    <3>2. data[x] = c[x] /\ c[x] = E[k + 1][x]
      BY <1>4, <1>7, <2>1, <3>1
    <3>3. (E[k] \o b)[Len(E[k]) + i] = b[i]
      <4>1. E[k] \in Seq(Byte)
        BY <1>2
      <4> HIDE DEF E, b
      <4> QED BY <2>3, <4>1, Joined
    <3>4. E[k + 1][x] = b[i]
      BY <2>4, <3>1, <3>3
    <3> QED BY <3>2, <3>4
  <2>7. pos \in Nat \ {0} /\ pos \in 1..(n + 1)
    <3> HIDE DEF L
    <3> QED BY <2>5
  <2>8. pos + Len(b) = L(k + 1) + 1
    <3> HIDE DEF L
    <3> QED BY <2>3, <2>4, <2>5
  <2>9. readField(data, pos) =
          IF pos + Len(FieldBytes(f)) <= Len(data) + 1
            THEN [ok |-> TRUE, field |-> f, next |-> pos + Len(FieldBytes(f))] ELSE Failed
    <3> HIDE DEF f, pos
    <3> QED BY <1>4, <2>1, <2>6, <2>7, FieldReadBack
  <2>10. readField(data, pos) =
           IF L(k + 1) <= n THEN [ok |-> TRUE, field |-> f, next |-> L(k + 1) + 1] ELSE Failed
    <3>1. L(k + 1) + 1 <= Len(data) + 1 <=> L(k + 1) <= n
      <4> HIDE DEF L
      <4> QED BY <1>4, <2>5
    <3> HIDE DEF f, pos, L
    <3> QED BY <2>8, <2>9, <3>1
  <2>11. CASE ~(L(k + 1) <= n)
    <3>1. ~readField(data, pos).ok
      BY <2>10, <2>11 DEF Failed
    <3>2. G[pos] = <<>>
      BY <1>6, <2>7, <3>1
    <3>3. SubSeq(fields, k + 1, k) = <<>>
      BY <2>1
    <3>4. k \in k..N /\ n # L(N)
      <4> HIDE DEF L
      <4> QED BY <1>1, <2>1, <2>5, <2>11
    <3> HIDE DEF L
    <3> QED BY <3>2, <3>3, <3>4
  <2>12. CASE L(k + 1) <= n
    <3>1. PICK K \in (k + 1)..N : G[L(k + 1) + 1] = SubSeq(fields, (k + 1) + 1, K) /\ (n = L(N) => K = N)
      BY <2>2, <2>12
    <3>2. readField(data, pos) = [ok |-> TRUE, field |-> f, next |-> L(k + 1) + 1]
      BY <2>10, <2>12
    <3>3. pos <= n
      <4> HIDE DEF L
      <4> QED BY <2>3, <2>4, <2>5, <2>12
    <3>4. G[pos] = <<f>> \o G[L(k + 1) + 1]
      <4>1. ~(pos > n)
        BY <2>7, <3>3
      <4>2. /\ readField(data, pos).ok /\ readField(data, pos).field = f
            /\ readField(data, pos).next = L(k + 1) + 1
        BY <3>2
      <4>3. G[pos] = <<readField(data, pos).field>> \o G[readField(data, pos).next]
        BY <1>6, <2>7, <4>1, <4>2
      <4> HIDE DEF pos, L, f
      <4> QED BY <4>2, <4>3, Zenon
    <3>5. <<f>> \o SubSeq(fields, (k + 1) + 1, K) = SubSeq(fields, k + 1, K)
      <4> DEFINE s == SubSeq(fields, (k + 1) + 1, K)
                 t == SubSeq(fields, k + 1, K)
                 m == K - k
      <4>1. m \in Nat /\ m >= 1 /\ K \in 1..N /\ K \in Nat
        BY <1>1, <2>1
      <4>2. \A j \in 1..N : fields[j] \in Encodable
        OBVIOUS
      <4>3. s = [i \in 1..(m - 1) |-> fields[(k + 1) + i]]
        <5>1. s = [i \in 1..(K - ((k + 1) + 1) + 1) |-> fields[((k + 1) + 1) + i - 1]]
          BY <2>1, <4>1
        <5>2. K - ((k + 1) + 1) + 1 = m - 1 /\ \A i \in 1..(m - 1) : ((k + 1) + 1) + i - 1 = (k + 1) + i
          BY <2>1, <4>1
        <5> HIDE DEF s, m
        <5> QED BY <5>1, <5>2
      <4>4. t = [i \in 1..m |-> fields[k + i]]
        <5>1. t = [i \in 1..(K - (k + 1) + 1) |-> fields[(k + 1) + i - 1]]
          BY <2>1, <4>1
        <5>2. K - (k + 1) + 1 = m /\ \A i \in 1..m : (k + 1) + i - 1 = k + i
          BY <2>1, <4>1
        <5> HIDE DEF t, m
        <5> QED BY <5>1, <5>2
      <4>5. \A i \in 1..m : fields[k + i] \in Encodable
        <5> TAKE i \in 1..m
        <5>1. k + i \in 1..N
          BY <2>1, <4>1
        <5> QED BY <4>2, <5>1
      <4>6. \A i \in 1..(m - 1) : fields[(k + 1) + i] \in Encodable
        <5> TAKE i \in 1..(m - 1)
        <5>1. (k + 1) + i \in 1..N
          BY <2>1, <4>1
        <5> QED BY <4>2, <5>1
      <4> HIDE DEF s, t, m
      <4>7. s \in Seq(Encodable) /\ Len(s) = m - 1
        <5>1. m - 1 \in Nat
          BY <4>1
        <5>2. s \in Seq(Encodable)
          BY <4>3, <4>6, <5>1
        <5>3. Len(s) = m - 1
          BY <4>3, <5>1
        <5> QED BY <5>2, <5>3
      <4>8. t \in Seq(Encodable) /\ Len(t) = m
        <5>1. t \in Seq(Encodable)
          BY <4>1, <4>4, <4>5
        <5>2. Len(t) = m
          BY <4>1, <4>4
        <5> QED BY <5>1, <5>2
      <4>9. /\ <<f>> \o s \in Seq(Encodable) /\ Len(<<f>> \o s) = Len(s) + 1 /\ (<<f>> \o s)[1] = f
            /\ \A x \in 1..Len(s) : (<<f>> \o s)[x + 1] = s[x]
        <5> HIDE DEF f
        <5> QED BY <2>1, <4>7, Prefixed
      <4> DEFINE u == <<f>> \o s
      <4>10. u \in Seq(Encodable) /\ Len(u) = m /\ u[1] = f /\ \A x \in 1..(m - 1) : u[x + 1] = s[x]
        <5> HIDE DEF f
        <5> QED BY <4>1, <4>7, <4>9
      <4> HIDE DEF u
      <4>11. ASSUME NEW i \in 1..m PROVE u[i] = t[i]
        <5>1. CASE i = 1
          BY <4>1, <4>4, <4>10, <5>1
        <5>2. CASE i # 1
          <6>1. i - 1 \in 1..(m - 1) /\ (i - 1) + 1 = i /\ (k + 1) + (i - 1) = k + i
            BY <2>1, <4>1, <5>2
          <6>2. u[(i - 1) + 1] = s[i - 1] /\ s[i - 1] = fields[(k + 1) + (i - 1)] /\ t[i] = fields[k + i]
            BY <4>3, <4>4, <4>10, <6>1
          <6> QED BY <6>1, <6>2
        <5> QED BY <5>1, <5>2
      <4>12. u = t
        <5>1. Len(u) = Len(t) /\ \A i \in 1..Len(u) : u[i] = t[i]
          BY <4>8, <4>10, <4>11
        <5> QED BY <4>8, <4>10, <5>1, SeqEqual
      <4> QED BY <4>12 DEF u, s, t
    <3>6. G[pos] = SubSeq(fields, k + 1, K)
      <4> HIDE DEF pos, L, f
      <4> QED BY <3>1, <3>4, <3>5, Zenon
    <3>7. K \in k..N
      BY <2>1
    <3> HIDE DEF L
    <3> QED BY <3>1, <3>6, <3>7
  <2> QED BY <2>11, <2>12
<1>10. \A d \in Nat : d \in T
  <2> HIDE DEF T
  <2> QED BY <1>8, <1>9, Induction
<1>11. P(0)
  <2>1. 0 \in 0..N /\ 0 + N = N
    BY <1>1
  <2>2. N \in T
    <3> HIDE DEF T, N
    <3> QED BY <1>1, <1>10
  <2> HIDE DEF P
  <2> QED BY <2>1, <2>2
<1>12. L(0) = 0
  <2>1. E[0] = <<>>
    BY EncodeSteps, Zenon
  <2>2. Len(<<>>) = 0
    OBVIOUS
  <2> HIDE DEF E
  <2> QED BY <2>1, <2>2
<1>13. \E K \in 0..N : G[0 + 1] = SubSeq(fields, 0 + 1, K) /\ (n = L(N) => K = N)
  BY <1>3, <1>11, <1>12
<1>14. 0 + 1 = 1 /\ L(N) = Len(c)
  BY <1>1
<1> HIDE DEF L, N
<1>15. \E K \in 0..N : decode(data) = SubSeq(fields, 1, K) /\ (n = Len(c) => K = N)
  BY <1>5, <1>13, <1>14
<1> QED BY <1>15 DEF data, c, N

\* What the encoder writes are bytes.
LEMMA EncodedBytes ==
  ASSUME NEW fields \in Seq(Encodable)
  PROVE  encode(fields) \in Seq(Byte)
<1>1. encode(fields) = Encoded(fields)[Len(fields)]
  BY EncodeSteps, Zenon
<1>2. Len(fields) \in 0..Len(fields)
  <2>1. Len(fields) \in Nat
    OBVIOUS
  <2> QED BY <2>1
<1>3. Encoded(fields)[Len(fields)] \in Seq(Byte)
  BY <1>2, EncodeSteps, Zenon
<1> QED BY <1>1, <1>3, Zenon

\* ProtoDecoder reads from what ProtoEncoder wrote the fields that were written:
\* each number, whatever its groups, each string and each wire type, in order.
THEOREM DecodeOfEncode ==
  ASSUME NEW fields \in Seq(Encodable)
  PROVE  decode(encode(fields)) = fields
<1> DEFINE c == encode(fields)
           n == Len(c)
<1>1. c \in Seq(Byte)
  BY EncodedBytes
<1> HIDE DEF c
<1>2. n \in Nat /\ n \in 0..Len(c) /\ SubSeq(c, 1, n) = c
  <2>1. n \in Nat
    BY <1>1
  <2>2. SubSeq(c, 1, Len(c)) = c
    BY <1>1
  <2> QED BY <2>1, <2>2
<1>3. PICK K \in 0..Len(fields) :
        decode(SubSeq(c, 1, n)) = SubSeq(fields, 1, K) /\ (n = Len(c) => K = Len(fields))
  BY <1>2, Decoding DEF c
<1>4. SubSeq(fields, 1, Len(fields)) = fields
  OBVIOUS
<1>5. decode(c) = SubSeq(fields, 1, Len(fields))
  BY <1>2, <1>3
<1> QED BY <1>4, <1>5, Zenon DEF c

\* A payload that is cut anywhere gives the first of its fields and nothing else:
\* decode stops at the field that was cut, and none is made up from its bytes.
THEOREM DecodeOfCut ==
  ASSUME NEW fields \in Seq(Encodable), NEW n \in 0..Len(encode(fields))
  PROVE  \E K \in 0..Len(fields) : decode(SubSeq(encode(fields), 1, n)) = SubSeq(fields, 1, K)
BY Decoding
=============================================================================
