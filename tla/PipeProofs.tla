----------------------------- MODULE PipeProofs -----------------------------
(***************************************************************************)
(* A connection is a pipe in either direction: the messages are processed  *)
(* one by one, unchanged and in order, for all keys and messages, any      *)
(* width of a byte and any chunks.  The argument: the bytes between the    *)
(* two ends are always whole frames, those that were written and not yet   *)
(* taken, and the nonce with which one is sealed is its place.             *)
(***************************************************************************)
EXTENDS WireProofs

-----------------------------------------------------------------------------
(***************************************************************************)
(* Sequences of bytes and frames                                           *)
(***************************************************************************)
\* The bytes of buf are the frames of the payloads q, one after the other; the
\* k-th ends at off[k].
Stream(buf, q) ==
  /\ buf \in Seq(Nat)
  /\ q \in Seq(Seq(Nat)) /\ \A k \in 1..Len(q) : Len(q[k]) < Limit
  /\ \E off \in [0..Len(q) -> Nat] :
       /\ off[0] = 0 /\ off[Len(q)] = Len(buf)
       /\ \A j, k \in 0..Len(q) : j <= k => off[j] <= off[k]
       /\ \A k \in 1..Len(q) :
            /\ off[k] = off[k - 1] + 3 + Len(q[k])
            /\ \A x \in 1..(3 + Len(q[k])) : buf[off[k - 1] + x] = Framed(q[k])[x]

\* A concatenation, place by place.
LEMMA Concatenated ==
  ASSUME NEW s \in Seq(Nat), NEW t \in Seq(Nat)
  PROVE  /\ s \o t \in Seq(Nat) /\ Len(s \o t) = Len(s) + Len(t)
         /\ \A x \in 1..Len(s) : (s \o t)[x] = s[x]
         /\ \A x \in 1..Len(t) : (s \o t)[Len(s) + x] = t[x]
BY Joined

\* Bytes appended to the second of two sequences.
LEMMA Associated ==
  ASSUME NEW s \in Seq(Nat), NEW t \in Seq(Nat), NEW u \in Seq(Nat)
  PROVE  (s \o t) \o u = s \o (t \o u)
BY JoinedThree

\* A number from its quotient and remainder.
LEMMA DivMod ==
  ASSUME NEW n \in Nat, NEW B \in Nat, B > 0
  PROVE  /\ (n \div B) * B + (n % B) = n
         /\ n < B => n % B = n
<1>1. n % B = n - (n \div B) * B
  OBVIOUS
<1>2. n < B => n % B = n
  OBVIOUS
<1>3. n \div B \in Int
  OBVIOUS
<1> DEFINE d == (n \div B) * B
<1>4. d \in Int
  BY <1>3
<1>5. n % B = n - d
  BY <1>1
<1> HIDE DEF d
<1>6. d + (n % B) = n
  BY <1>4, <1>5
<1> QED BY <1>2, <1>6 DEF d

\* A length or a type as two bytes.
LEMMA HighLowSays ==
  ASSUME NEW n \in Nat, n < Limit
  PROVE  HighLow(n) \in Seq(Nat) /\ Len(HighLow(n)) = 2 /\ HighLow(n)[1] * Base + HighLow(n)[2] = n
<1> DEFINE h == HighLow(n)
<1>1. h \in Seq(Nat) /\ Len(h) = 2
  <2>1. h \in Seq(Byte)
    BY HighLowBytes
  <2> QED BY <2>1, Bases, WiderAlphabet DEF HighLow
<1>2. Base \in Nat /\ Base > 0 /\ Base * Base \in Nat /\ Base * Base > 0
  BY Bases
<1>3. n % (Base * Base) = n
  BY <1>2, DivMod DEF Limit
<1>4. (n \div Base) * Base + (n % Base) = n
  BY <1>2, DivMod
<1>5. h = <<n \div Base, n % Base>>
  BY <1>3 DEF HighLow, Limit
<1> HIDE DEF h
<1>6. h[1] = n \div Base /\ h[2] = n % Base
  BY <1>5
<1> QED BY <1>1, <1>4, <1>6 DEF h

\* What the bytes of a frame say: the marker, the length and the payload.
LEMMA FramedBytes ==
  ASSUME NEW p \in Seq(Nat), Len(p) < Limit
  PROVE  /\ Framed(p) \in Seq(Nat) /\ Len(Framed(p)) = 3 + Len(p)
         /\ Framed(p)[1] = 1
         /\ Framed(p)[2] * Base + Framed(p)[3] = Len(p)
         /\ \A x \in 1..Len(p) : Framed(p)[3 + x] = p[x]
<1> DEFINE h == HighLow(Len(p))
<1>1. h \in Seq(Nat) /\ Len(h) = 2
  BY HighLowSays
<1>2. h[1] * Base + h[2] = Len(p)
  BY HighLowSays
<1> HIDE DEF h
<1>3. Framed(p) = (<<1>> \o h) \o p
  BY DEF Framed, h
<1> DEFINE a == <<1>>
           g == a \o h
           f == g \o p
<1>4. a \in Seq(Nat) /\ Len(a) = 1 /\ a[1] = 1 /\ p \in Seq(Nat) /\ Len(p) \in Nat
  OBVIOUS
<1>5. f = Framed(p)
  BY <1>3
<1> HIDE DEF a
<1>6. g = a \o h
  OBVIOUS
<1> HIDE DEF g
<1>7. g \in Seq(Nat) /\ Len(g) = 1 + 2 /\ (\A x \in 1..1 : g[x] = a[x]) /\ (\A x \in 1..2 : g[1 + x] = h[x])
  <2>1. /\ g \in Seq(Nat) /\ Len(g) = Len(a) + Len(h)
        /\ \A x \in 1..Len(a) : g[x] = a[x]
        /\ \A x \in 1..Len(h) : g[Len(a) + x] = h[x]
    BY <1>1, <1>4, <1>6, Concatenated, Zenon
  <2> QED BY <1>1, <1>4, <2>1, Zenon
<1>8. Len(g) = 3 /\ g[1] = 1 /\ g[2] = h[1] /\ g[3] = h[2]
  <2>1. 1 \in 1..1 /\ 1 \in 1..2 /\ 2 \in 1..2 /\ 1 + 1 = 2 /\ 1 + 2 = 3
    OBVIOUS
  <2> QED BY <1>4, <1>7, <2>1
<1>9. f = g \o p
  OBVIOUS
<1> HIDE DEF f
<1>10. /\ f \in Seq(Nat) /\ Len(f) = 3 + Len(p)
       /\ \A x \in 1..3 : f[x] = g[x]
       /\ \A x \in 1..Len(p) : f[3 + x] = p[x]
  <2>1. /\ f \in Seq(Nat) /\ Len(f) = Len(g) + Len(p)
        /\ \A x \in 1..Len(g) : f[x] = g[x]
        /\ \A x \in 1..Len(p) : f[Len(g) + x] = p[x]
    BY <1>4, <1>7, <1>9, Concatenated, Zenon
  <2> QED BY <1>8, <2>1, Zenon
<1>11. f[1] = 1 /\ f[2] = h[1] /\ f[3] = h[2]
  BY <1>8, <1>10
<1> QED BY <1>2, <1>5, <1>10, <1>11

\* No bytes, no frames.
LEMMA StreamEmpty == Stream(<<>>, <<>>)
<1>1. <<>> \in Seq(Nat) /\ <<>> \in Seq(Seq(Nat)) /\ Len(<<>>) = 0
  OBVIOUS
<1> DEFINE off == [k \in 0..0 |-> 0]
<1>2. off \in [0..0 -> Nat] /\ off[0] = 0 /\ \A j, k \in 0..0 : j <= k => off[j] <= off[k]
  OBVIOUS
<1> HIDE DEF off
<1>3. \A k \in 1..0 : FALSE
  OBVIOUS
<1> QED BY <1>1, <1>2, <1>3, Zenon DEF Stream

\* A frame written at the end.
LEMMA StreamAppend ==
  ASSUME NEW buf, NEW q, Stream(buf, q), NEW p \in Seq(Nat), Len(p) < Limit,
         NEW b, b = buf \o Framed(p), NEW r, r = Append(q, p)
  PROVE  Stream(b, r)
<1> DEFINE n == Len(q)
           m == Len(buf)
           l == Len(p)
           f == Framed(p)
<1>1. PICK off \in [0..n -> Nat] :
       /\ off[0] = 0 /\ off[n] = m
       /\ \A j, k \in 0..n : j <= k => off[j] <= off[k]
       /\ \A k \in 1..n :
            /\ off[k] = off[k - 1] + 3 + Len(q[k])
            /\ \A x \in 1..(3 + Len(q[k])) : buf[off[k - 1] + x] = Framed(q[k])[x]
  BY DEF Stream
<1>2. buf \in Seq(Nat) /\ q \in Seq(Seq(Nat)) /\ \A k \in 1..n : Len(q[k]) < Limit
  BY DEF Stream
<1>3. n \in Nat /\ m \in Nat /\ l \in Nat
  BY <1>2
<1>4. f \in Seq(Nat) /\ Len(f) = 3 + l /\ b = buf \o f
  BY FramedBytes
<1>5. r \in Seq(Seq(Nat)) /\ Len(r) = n + 1 /\ r[n + 1] = p /\ \A k \in 1..n : r[k] = q[k]
  BY <1>2
<1> HIDE DEF n, m, l, f
<1>6. /\ b \in Seq(Nat) /\ Len(b) = m + Len(f)
      /\ \A x \in 1..m : b[x] = buf[x]
      /\ \A x \in 1..Len(f) : b[m + x] = f[x]
  <2> DEFINE c == buf \o f
  <2>1. /\ c \in Seq(Nat) /\ Len(c) = Len(buf) + Len(f)
        /\ \A x \in 1..Len(buf) : c[x] = buf[x]
        /\ \A x \in 1..Len(f) : c[Len(buf) + x] = f[x]
    BY <1>2, <1>4, Concatenated, Zenon
  <2>2. c = b
    BY <1>4
  <2> HIDE DEF c
  <2> QED BY <2>1, <2>2, Zenon DEF m
<1>7. Len(b) = m + 3 + l /\ \A x \in 1..(3 + l) : b[m + x] = f[x]
  <2>1. Len(f) = 3 + l
    BY <1>4
  <2>2. Len(b) = m + Len(f) /\ \A x \in 1..Len(f) : b[m + x] = f[x]
    BY <1>6
  <2> DEFINE s == Len(f)
             t == Len(b)
  <2>3. s = 3 + l /\ t = m + s /\ \A x \in 1..s : b[m + x] = f[x]
    BY <2>1, <2>2
  <2> HIDE DEF s, t
  <2>4. t = m + 3 + l
    BY <1>3, <2>3
  <2> QED BY <2>3, <2>4, Zenon DEF t
<1> DEFINE new == [k \in 0..(n + 1) |-> IF k = n + 1 THEN Len(b) ELSE off[k]]
<1>8. new \in [0..(n + 1) -> Nat] /\ new[0] = 0 /\ new[n + 1] = Len(b) /\ \A k \in 0..n : new[k] = off[k]
  BY <1>1, <1>3, <1>7
<1> HIDE DEF new
<1>9. ASSUME NEW k \in 1..(n + 1)
      PROVE  /\ new[k] = new[k - 1] + 3 + Len(r[k])
             /\ \A x \in 1..(3 + Len(r[k])) : b[new[k - 1] + x] = Framed(r[k])[x]
  <2>1. CASE k = n + 1
    <3>1. new[k - 1] = m /\ r[k] = p
      BY <1>1, <1>3, <1>5, <1>8, <2>1
    <3> QED BY <1>3, <1>7, <1>8, <2>1, <3>1 DEF f, l
  <2>2. CASE k # n + 1
    <3>1. k \in 1..n /\ k - 1 \in 0..n /\ r[k] = q[k] /\ new[k] = off[k] /\ new[k - 1] = off[k - 1]
      <4>1. k \in 1..n /\ k \in 0..n /\ k - 1 \in 0..n
        BY <1>3, <2>2
      <4>2. \A i \in 1..n : r[i] = q[i]
        BY <1>5
      <4>3. \A i \in 0..n : new[i] = off[i]
        BY <1>8
      <4> QED BY <4>1, <4>2, <4>3, Zenon
    <3>2. off[k - 1] \in Nat /\ q[k] \in Seq(Nat)
      <4>1. \A i \in 0..n : off[i] \in Nat
        OBVIOUS
      <4>2. \A i \in 1..n : q[i] \in Seq(Nat)
        BY <1>2 DEF n
      <4> QED BY <3>1, <4>1, <4>2, Zenon
    <3> DEFINE a == off[k - 1]
               j == Len(q[k])
    <3>3. a \in Nat /\ j \in Nat
      BY <3>2
    <3>4. off[k] = a + 3 + j /\ \A x \in 1..(3 + j) : buf[a + x] = Framed(q[k])[x]
      BY <1>1, <3>1
    <3>5. off[k] <= m
      <4>1. k \in 0..n /\ n \in 0..n /\ k <= n
        BY <1>3, <3>1
      <4> QED BY <1>1, <4>1
    <3> HIDE DEF a, j
    <3>6. ASSUME NEW x \in 1..(3 + j)
          PROVE  b[a + x] = Framed(q[k])[x]
      <4>1. a + x \in 1..m
        BY <1>3, <3>3, <3>4, <3>5
      <4> QED BY <1>6, <3>4, <4>1
    <3> QED BY <3>1, <3>4, <3>6 DEF a, j
  <2> QED BY <2>1, <2>2
<1>10. ASSUME NEW k \in 1..(n + 1) PROVE Len(r[k]) < Limit
  <2>1. CASE k = n + 1
    BY <1>5, <2>1
  <2>2. CASE k # n + 1
    <3>1. k \in 1..n
      BY <1>3, <2>2
    <3> QED BY <1>2, <1>5, <3>1 DEF n
  <2> QED BY <2>1, <2>2
<1>11. ASSUME NEW j \in 0..(n + 1), NEW k \in 0..(n + 1), j <= k
       PROVE  new[j] <= new[k]
  <2>1. CASE k = n + 1
    <3>1. CASE j = n + 1
      BY <1>8, <2>1, <3>1, <1>7, <1>3
    <3>2. CASE j # n + 1
      <4>1. j \in 0..n /\ n \in 0..n /\ j <= n
        BY <1>3, <3>2
      <4>2. off[j] <= m /\ off[j] \in Nat
        BY <1>1, <4>1
      <4> QED BY <1>3, <1>7, <1>8, <2>1, <4>1, <4>2
    <3> QED BY <3>1, <3>2
  <2>2. CASE k # n + 1
    <3>1. j \in 0..n /\ k \in 0..n
      BY <1>3, <1>11, <2>2
    <3> QED BY <1>1, <1>8, <1>11, <3>1
  <2> QED BY <2>1, <2>2
<1>12. \E ends \in [0..Len(r) -> Nat] :
        /\ ends[0] = 0 /\ ends[Len(r)] = Len(b)
        /\ \A j, k \in 0..Len(r) : j <= k => ends[j] <= ends[k]
        /\ \A k \in 1..Len(r) :
             /\ ends[k] = ends[k - 1] + 3 + Len(r[k])
             /\ \A x \in 1..(3 + Len(r[k])) : b[ends[k - 1] + x] = Framed(r[k])[x]
  <2>1. /\ new \in [0..Len(r) -> Nat] /\ new[0] = 0 /\ new[Len(r)] = Len(b)
        /\ \A j, k \in 0..Len(r) : j <= k => new[j] <= new[k]
        /\ \A k \in 1..Len(r) :
             /\ new[k] = new[k - 1] + 3 + Len(r[k])
             /\ \A x \in 1..(3 + Len(r[k])) : b[new[k - 1] + x] = Framed(r[k])[x]
    BY <1>5, <1>8, <1>9, <1>11, Zenon
  <2> QED BY <2>1, Zenon
<1> QED BY <1>5, <1>6, <1>10, <1>12 DEF Stream

\* A frame taken from the front, when it is complete there: the rest of the bytes
\* may lie in another sequence.
LEMMA StreamTake ==
  ASSUME NEW a \in Seq(Nat), NEW c \in Seq(Nat), NEW q, Stream(a \o c, q), FrameComplete(a)
  PROVE  /\ q # <<>> /\ framePayload(a) = q[1]
         /\ Remainder(a) \in Seq(Nat) /\ Stream(Remainder(a) \o c, Tail(q))
<1> DEFINE buf == a \o c
           n == Len(q)
           m == Len(a)
           l == Len(c)
<1>1. PICK off \in [0..n -> Nat] :
       /\ off[0] = 0 /\ off[n] = Len(buf)
       /\ \A j, k \in 0..n : j <= k => off[j] <= off[k]
       /\ \A k \in 1..n :
            /\ off[k] = off[k - 1] + 3 + Len(q[k])
            /\ \A x \in 1..(3 + Len(q[k])) : buf[off[k - 1] + x] = Framed(q[k])[x]
  BY DEF Stream
<1>2. buf \in Seq(Nat) /\ q \in Seq(Seq(Nat)) /\ \A k \in 1..n : Len(q[k]) < Limit
  BY DEF Stream
<1>3. n \in Nat /\ m \in Nat /\ l \in Nat /\ m >= 3 /\ DOMAIN a = 1..m
  BY <1>2 DEF FrameComplete
<1>4. /\ Len(buf) = m + l
      /\ \A x \in 1..m : buf[x] = a[x]
      /\ \A x \in 1..l : buf[m + x] = c[x]
  BY Concatenated, Zenon
<1> HIDE DEF buf, n, m, l
<1>5. n >= 1
  <2>1. n = 0 => FALSE
    BY <1>1, <1>3, <1>4
  <2> QED BY <1>3, <2>1
<1> DEFINE p == q[1]
           s == Len(p)
<1>6. p \in Seq(Nat) /\ s \in Nat /\ s < Limit
  <2>1. 1 \in 1..n
    BY <1>3, <1>5
  <2> QED BY <1>2, <2>1 DEF n
<1>7. off[1] = 3 + s /\ \A x \in 1..(3 + s) : buf[x] = Framed(p)[x]
  <2>1. 1 \in 1..n /\ 1 - 1 = 0
    BY <1>3, <1>5
  <2>2. off[1] = 0 + 3 + Len(q[1]) /\ \A x \in 1..(3 + Len(q[1])) : buf[0 + x] = Framed(q[1])[x]
    BY <1>1, <2>1
  <2> HIDE DEF p
  <2>3. p = q[1]
    BY DEF p
  <2> QED BY <1>6, <2>2, <2>3
<1> HIDE DEF p, s
<1>8. /\ Framed(p)[1] = 1
      /\ Framed(p)[2] * Base + Framed(p)[3] = s
      /\ \A x \in 1..s : Framed(p)[3 + x] = p[x]
  BY <1>6, FramedBytes, Zenon DEF s
<1>9. a[2] = Framed(p)[2] /\ a[3] = Framed(p)[3]
  <2>1. 2 \in 1..m /\ 3 \in 1..m /\ 2 \in 1..(3 + s) /\ 3 \in 1..(3 + s)
    BY <1>3, <1>6
  <2> QED BY <1>4, <1>7, <2>1
<1>10. FrameSize(a) = s
  BY <1>8, <1>9 DEF FrameSize
<1>11. m >= 3 + s
  BY <1>10 DEF FrameComplete, m
<1>12. \A x \in 1..m : a[x] \in Nat
  BY <1>3
<1>13. framePayload(a) = p
  <2> DEFINE d == SubSeq(a, 4, 3 + s)
  <2>1. \A x \in 4..(3 + s) : a[x] \in Nat
    BY <1>3, <1>6, <1>11, <1>12
  <2>2. d \in Seq(Nat) /\ Len(d) = s /\ \A x \in 1..s : d[x] = a[3 + x]
    <3>1. /\ d \in Seq(Nat)
          /\ Len(d) = IF 4 <= 3 + s THEN (3 + s) - 4 + 1 ELSE 0
          /\ \A x \in 1..((3 + s) - 4 + 1) : d[x] = a[4 + x - 1]
      BY <1>6, <2>1, SubSeqProperties
    <3> HIDE DEF d
    <3>2. Len(d) = s
      BY <1>6, <3>1
    <3>3. ASSUME NEW x \in 1..s PROVE d[x] = a[3 + x]
      <4>1. x \in 1..((3 + s) - 4 + 1) /\ 4 + x - 1 = 3 + x
        BY <1>6
      <4> QED BY <3>1, <4>1
    <3> QED BY <3>1, <3>2, <3>3
  <2>3. ASSUME NEW x \in 1..s PROVE a[3 + x] = p[x]
    <3>1. 3 + x \in 1..m /\ 3 + x \in 1..(3 + s)
      BY <1>3, <1>6, <1>11
    <3> QED BY <1>4, <1>7, <1>8, <3>1
  <2>4. d = framePayload(a)
    BY <1>10 DEF framePayload
  <2> HIDE DEF d
  <2>5. d = p
    BY <1>6, <2>2, <2>3, SeqEqual DEF s
  <2> QED BY <2>4, <2>5
<1> DEFINE e == Remainder(a)
           b == e \o c
           r == Tail(q)
<1>14. e \in Seq(Nat) /\ Len(e) = m - 3 - s /\ \A x \in 1..(m - 3 - s) : e[x] = a[3 + s + x]
  <2>1. e = SubSeq(a, 4 + s, m)
    BY <1>10 DEF Remainder, m
  <2>2. \A x \in (4 + s)..m : a[x] \in Nat
    BY <1>3, <1>6, <1>12
  <2>3. 4 + s \in Int /\ m \in Int
    BY <1>3, <1>6
  <2> DEFINE d == SubSeq(a, 4 + s, m)
             lo == 4 + s
  <2>4. /\ d \in Seq(Nat)
        /\ Len(d) = IF lo <= m THEN m - lo + 1 ELSE 0
        /\ \A x \in 1..(m - lo + 1) : d[x] = a[lo + x - 1]
    BY <2>2, <2>3, SubSeqProperties
  <2> HIDE DEF e, d
  <2>5. Len(d) = m - 3 - s
    BY <1>3, <1>6, <1>11, <2>4
  <2>6. ASSUME NEW x \in 1..(m - 3 - s) PROVE d[x] = a[3 + s + x]
    <3>1. x \in 1..(m - lo + 1) /\ lo + x - 1 = 3 + s + x
      BY <1>3, <1>6, <1>11
    <3> QED BY <2>4, <3>1
  <2> QED BY <2>1, <2>4, <2>5, <2>6 DEF d
<1> HIDE DEF e
<1>15. /\ b \in Seq(Nat) /\ Len(b) = Len(e) + l
       /\ \A x \in 1..Len(e) : b[x] = e[x]
       /\ \A x \in 1..l : b[Len(e) + x] = c[x]
  BY <1>14, Concatenated, Zenon DEF l
<1> HIDE DEF b
<1>16. Len(b) = Len(buf) - (3 + s) /\ Len(b) \in Nat
  BY <1>3, <1>4, <1>6, <1>11, <1>14, <1>15
<1>17. ASSUME NEW x \in 1..Len(b)
       PROVE  b[x] = buf[3 + s + x]
  <2>1. CASE x <= m - 3 - s
    <3>1. x \in 1..(m - 3 - s) /\ 3 + s + x \in 1..m
      BY <1>3, <1>6, <1>11, <1>16, <2>1
    <3>2. x \in 1..Len(e)
      BY <1>14, <3>1
    <3> QED BY <1>4, <1>14, <1>15, <3>1, <3>2
  <2>2. CASE x > m - 3 - s
    <3> DEFINE y == x - (m - 3 - s)
    <3>1. y \in 1..l /\ Len(e) + y = x /\ m + y = 3 + s + x
      BY <1>3, <1>4, <1>6, <1>11, <1>14, <1>16, <2>2
    <3> HIDE DEF y
    <3> QED BY <1>4, <1>15, <3>1
  <2> QED BY <1>3, <1>6, <1>11, <1>16, <2>1, <2>2
<1>18. r \in Seq(Seq(Nat)) /\ Len(r) = n - 1 /\ \A k \in 1..(n - 1) : r[k] = q[k + 1]
  <2>1. q # <<>>
    BY <1>3, <1>5 DEF n
  <2> QED BY <1>2, <2>1, HeadTailProperties DEF n
<1> HIDE DEF r
<1> DEFINE new == [k \in 0..(n - 1) |-> off[k + 1] - (3 + s)]
<1>19. ASSUME NEW k \in 0..(n - 1)
       PROVE  k + 1 \in 0..n /\ off[k + 1] \in Nat /\ off[k + 1] >= 3 + s
  <2>1. k + 1 \in 0..n /\ 1 \in 0..n /\ 1 <= k + 1
    BY <1>3, <1>5
  <2> QED BY <1>1, <1>7, <2>1
<1>20. new \in [0..(n - 1) -> Nat] /\ \A k \in 0..(n - 1) : new[k] = off[k + 1] - (3 + s)
  BY <1>6, <1>19
<1> HIDE DEF new
<1>21. new[0] = 0 /\ new[n - 1] = Len(b)
  <2>1. 0 \in 0..(n - 1) /\ n - 1 \in 0..(n - 1) /\ 0 + 1 = 1 /\ (n - 1) + 1 = n
    BY <1>3, <1>5
  <2> QED BY <1>1, <1>6, <1>7, <1>16, <1>20, <2>1
<1>22. ASSUME NEW j \in 0..(n - 1), NEW k \in 0..(n - 1), j <= k
       PROVE  new[j] <= new[k]
  <2>1. j + 1 \in 0..n /\ k + 1 \in 0..n /\ j + 1 <= k + 1
    BY <1>3, <1>22
  <2>2. off[j + 1] <= off[k + 1] /\ off[j + 1] \in Nat /\ off[k + 1] \in Nat
    BY <1>1, <2>1
  <2> QED BY <1>6, <1>20, <2>2
<1>23. ASSUME NEW k \in 1..(n - 1)
       PROVE  /\ new[k] = new[k - 1] + 3 + Len(r[k])
              /\ \A x \in 1..(3 + Len(r[k])) : b[new[k - 1] + x] = Framed(r[k])[x]
              /\ Len(r[k]) < Limit
  <2>1. k + 1 \in 1..n /\ (k + 1) - 1 = k /\ k - 1 \in 0..(n - 1) /\ (k - 1) + 1 = k /\ k \in 0..(n - 1)
    BY <1>3
  <2> DEFINE j == Len(r[k])
             v == new[k - 1]
  <2>2. r[k] = q[k + 1] /\ j \in Nat /\ j < Limit
    <3>1. r[k] = q[k + 1]
      BY <1>18
    <3>2. q[k + 1] \in Seq(Nat) /\ Len(q[k + 1]) < Limit
      BY <1>2, <2>1 DEF n
    <3> QED BY <3>1, <3>2
  <2>3. off[k + 1] = off[k] + 3 + j /\ \A x \in 1..(3 + j) : buf[off[k] + x] = Framed(r[k])[x]
    BY <1>1, <2>1, <2>2
  <2>4. new[k] = off[k + 1] - (3 + s) /\ v = off[k] - (3 + s) /\ v \in Nat /\ off[k] \in Nat
    <3>1. off[(k - 1) + 1] \in Nat /\ off[(k - 1) + 1] >= 3 + s
      BY <1>19, <2>1
    <3>2. new[k - 1] = off[(k - 1) + 1] - (3 + s) /\ new[k] = off[k + 1] - (3 + s) /\ new[k - 1] \in Nat
      BY <1>20, <2>1
    <3> QED BY <2>1, <3>1, <3>2
  <2> HIDE DEF j, v
  <2>5. new[k] = v + 3 + j
    <3> DEFINE o == off[k]
               t == off[k + 1]
    <3>1. o \in Nat /\ t = o + 3 + j /\ v = o - (3 + s) /\ new[k] = t - (3 + s) /\ s \in Nat /\ j \in Nat
      BY <1>6, <2>2, <2>3, <2>4
    <3> HIDE DEF o, t
    <3> QED BY <3>1
  <2>6. new[k] <= Len(b)
    <3>1. k \in 0..(n - 1) /\ n - 1 \in 0..(n - 1) /\ k <= n - 1
      BY <1>3, <2>1
    <3> QED BY <1>21, <1>22, <3>1
  <2>7. ASSUME NEW x \in 1..(3 + j) PROVE b[v + x] = Framed(r[k])[x]
    <3>1. v + x \in 1..Len(b) /\ 3 + s + (v + x) = off[k] + x
      <4> DEFINE o == off[k]
      <4>1. o \in Nat /\ v \in Nat /\ v = o - (3 + s) /\ s \in Nat /\ j \in Nat /\ x \in 1..(3 + j)
        BY <1>6, <2>2, <2>4
      <4>2. v + 3 + j <= Len(b) /\ Len(b) \in Nat
        BY <1>16, <2>5, <2>6
      <4> HIDE DEF o
      <4>3. v + x \in 1..Len(b) /\ 3 + s + (v + x) = o + x
        BY <4>1, <4>2
      <4> QED BY <4>3 DEF o
    <3>2. b[v + x] = buf[3 + s + (v + x)]
      BY <1>17, <3>1
    <3> QED BY <2>3, <3>1, <3>2
  <2> QED BY <2>2, <2>5, <2>7 DEF j, v
<1>24. \E ends \in [0..Len(r) -> Nat] :
        /\ ends[0] = 0 /\ ends[Len(r)] = Len(b)
        /\ \A j, k \in 0..Len(r) : j <= k => ends[j] <= ends[k]
        /\ \A k \in 1..Len(r) :
             /\ ends[k] = ends[k - 1] + 3 + Len(r[k])
             /\ \A x \in 1..(3 + Len(r[k])) : b[ends[k - 1] + x] = Framed(r[k])[x]
  <2>1. /\ new \in [0..Len(r) -> Nat] /\ new[0] = 0 /\ new[Len(r)] = Len(b)
        /\ \A j, k \in 0..Len(r) : j <= k => new[j] <= new[k]
        /\ \A k \in 1..Len(r) :
             /\ new[k] = new[k - 1] + 3 + Len(r[k])
             /\ \A x \in 1..(3 + Len(r[k])) : b[new[k - 1] + x] = Framed(r[k])[x]
    BY <1>18, <1>20, <1>21, <1>22, <1>23, Zenon
  <2> QED BY <2>1, Zenon
<1>25. Stream(b, r)
  BY <1>15, <1>18, <1>23, <1>24 DEF Stream
<1> QED BY <1>5, <1>13, <1>14, <1>25 DEF b, e, r, p, n

\* Bytes that are read move from one sequence to the other.
LEMMA StreamMove ==
  ASSUME NEW a \in Seq(Nat), NEW c \in Seq(Nat), NEW n \in 1..Len(c)
  PROVE  /\ a \o SubSeq(c, 1, n) \in Seq(Nat) /\ SubSeq(c, n + 1, Len(c)) \in Seq(Nat)
         /\ (a \o SubSeq(c, 1, n)) \o SubSeq(c, n + 1, Len(c)) = a \o c
<1> DEFINE d == SubSeq(c, 1, n)
           e == SubSeq(c, n + 1, Len(c))
           l == Len(c)
<1>1. l \in Nat /\ n \in 1..l /\ \A x \in 1..l : c[x] \in Nat
  OBVIOUS
<1> HIDE DEF l
<1>2. d \in Seq(Nat) /\ Len(d) = n /\ \A x \in 1..n : d[x] = c[x]
  <2>1. \A x \in 1..n : c[x] \in Nat
    BY <1>1
  <2>2. d \in Seq(Nat) /\ Len(d) = (IF 1 <= n THEN n - 1 + 1 ELSE 0) /\ \A x \in 1..(n - 1 + 1) : d[x] = c[1 + x - 1]
    BY <1>1, <2>1, SubSeqProperties
  <2> HIDE DEF d
  <2>3. ASSUME NEW x \in 1..n PROVE d[x] = c[x]
    <3>1. x \in 1..(n - 1 + 1) /\ 1 + x - 1 = x
      BY <1>1
    <3> QED BY <2>2, <3>1
  <2> QED BY <1>1, <2>2, <2>3
<1>3. e \in Seq(Nat) /\ Len(e) = l - n /\ \A x \in 1..(l - n) : e[x] = c[n + x]
  <2> DEFINE lo == n + 1
  <2>0. e = SubSeq(c, lo, l)
    BY DEF l
  <2> HIDE DEF e
  <2>1. \A x \in lo..l : c[x] \in Nat
    BY <1>1
  <2>2. e \in Seq(Nat) /\ Len(e) = (IF lo <= l THEN l - lo + 1 ELSE 0) /\ \A x \in 1..(l - lo + 1) : e[x] = c[lo + x - 1]
    BY <1>1, <2>0, <2>1, SubSeqProperties
  <2>3. ASSUME NEW x \in 1..(l - n) PROVE e[x] = c[n + x]
    <3>1. x \in 1..(l - lo + 1) /\ lo + x - 1 = n + x
      BY <1>1
    <3> QED BY <2>2, <3>1
  <2> QED BY <1>1, <2>2, <2>3
<1> HIDE DEF d, e
<1> DEFINE f == d \o e
<1>4. f \in Seq(Nat) /\ Len(f) = Len(d) + Len(e) /\ (\A x \in 1..Len(d) : f[x] = d[x]) /\ \A x \in 1..Len(e) : f[Len(d) + x] = e[x]
  BY <1>2, <1>3, Concatenated, Zenon
<1> HIDE DEF f
<1>5. f = c
  <2>1. Len(f) = Len(c)
    BY <1>1, <1>2, <1>3, <1>4 DEF l
  <2>2. ASSUME NEW x \in 1..l PROVE f[x] = c[x]
    <3>1. CASE x <= n
      <4>1. x \in 1..n
        BY <1>1, <3>1
      <4> QED BY <1>2, <1>4, <4>1
    <3>2. CASE x > n
      <4> DEFINE y == x - n
      <4>1. y \in 1..(l - n) /\ n + y = x
        BY <1>1, <3>2
      <4> HIDE DEF y
      <4> QED BY <1>2, <1>3, <1>4, <4>1
    <3> QED BY <1>1, <3>1, <3>2
  <2> QED BY <1>4, <2>1, <2>2, SeqEqual DEF l
<1>6. (a \o d) \o e = a \o f
  <2>1. (a \o d) \o e = a \o (d \o e)
    BY <1>2, <1>3, Associated
  <2> QED BY <2>1, Zenon DEF f
<1>7. a \o d \in Seq(Nat)
  BY <1>2
<1> QED BY <1>3, <1>5, <1>6, <1>7 DEF d, e

-----------------------------------------------------------------------------
(***************************************************************************)
(* Sealed messages                                                         *)
(***************************************************************************)
\* What is encrypted fits a frame, and decrypts to itself unless it was too long.
LEMMA Sealed ==
  ASSUME NEW p \in Seq(Nat), NEW n \in Nat
  PROVE  /\ encrypt(p, n) \in Seq(Nat) /\ Len(encrypt(p, n)) < Limit
         /\ decrypt(encrypt(p, n), n) # <<>> =>
              /\ Len(p) + 1 < Limit
              /\ decrypt(encrypt(p, n), n) = p
<1> DEFINE t == Mac(n)
           c == p \o t
           l == Len(p)
<1>1. t \in Seq(Nat) /\ Len(t) = 1 /\ t[1] = Base + 3 * n /\ l \in Nat
  BY Bases DEF Mac
<1>2. Limit \in Nat /\ Limit > 0
  BY Bases DEF Limit
<1>3. encrypt(p, n) = IF l + Len(t) >= Limit THEN <<>> ELSE c
  BY DEF encrypt
<1> HIDE DEF t
<1>4. /\ c \in Seq(Nat) /\ Len(c) = Len(p) + Len(t)
      /\ \A x \in 1..Len(p) : c[x] = p[x]
      /\ \A x \in 1..Len(t) : c[Len(p) + x] = t[x]
  BY <1>1, Concatenated, Zenon
<1> HIDE DEF c
<1>5. Len(c) = l + 1 /\ c[l + 1] = t[1] /\ (\A x \in 1..l : c[x] = p[x])
  BY <1>1, <1>4
<1> HIDE DEF l
<1>6. CASE l + 1 >= Limit
  <2>1. encrypt(p, n) = <<>>
    BY <1>1, <1>3, <1>6
  <2>2. decrypt(<<>>, n) = <<>>
    BY DEF decrypt
  <2> QED BY <1>2, <2>1, <2>2
<1>7. CASE ~(l + 1 >= Limit)
  <2>1. encrypt(p, n) = c
    BY <1>1, <1>3, <1>7
  <2>2. Len(c) < Limit /\ l + 1 < Limit
    BY <1>1, <1>2, <1>5, <1>7
  <2> DEFINE d == SubSeq(c, 1, l)
  <2>3. decrypt(c, n) = d
    <3>1. c # <<>>
      BY <1>1, <1>4, <1>5
    <3>2. Len(c) - 1 = l
      BY <1>1, <1>5
    <3> QED BY <1>5, <3>1, <3>2 DEF decrypt, t
  <2>4. \A x \in 1..l : c[x] \in Nat
    BY <1>5 DEF l
  <2>5. d \in Seq(Nat) /\ Len(d) = (IF 1 <= l THEN l - 1 + 1 ELSE 0) /\ \A x \in 1..(l - 1 + 1) : d[x] = c[1 + x - 1]
    BY <1>1, <2>4, SubSeqProperties
  <2> HIDE DEF d
  <2>6. Len(d) = l
    BY <1>1, <2>5
  <2>7. ASSUME NEW x \in 1..l PROVE d[x] = p[x]
    <3>1. x \in 1..(l - 1 + 1) /\ 1 + x - 1 = x
      BY <1>1
    <3> QED BY <1>5, <2>5, <3>1
  <2>8. d = p
    BY <2>5, <2>6, <2>7, SeqEqual DEF l
  <2> QED BY <1>4, <2>1, <2>2, <2>3, <2>8 DEF l
<1> QED BY <1>6, <1>7

-----------------------------------------------------------------------------
(***************************************************************************)
(* One direction.  The first two frames are those of the handshake.        *)
(***************************************************************************)
\* None of the first n messages was too long to be sent.
Clean(sent, n) == \A i \in 1..n : Len(sent[i]) + 1 < Limit

\* The frames in buf are those between the first taken ones and the told-th; up
\* to one that is too long, the messages among them are sealed with the nonces
\* of their places.
Flowing(buf, taken, told, sent) ==
  \E q : /\ Stream(buf, q)
         /\ taken + Len(q) = told
         /\ \A k \in 1..Len(q) :
              taken + k > 2 /\ Clean(sent, taken + k - 3)
                => q[k] = encrypt(sent[taken + k - 2], taken + k - 3)

\* Messages have at least the four bytes of their header.
Plaintexts(sent) == sent \in Seq(Seq(Nat)) /\ \A i \in 1..Len(sent) : Len(sent[i]) >= 4

\* A frame of the handshake is written.
LEMMA FlowAnswer ==
  ASSUME NEW buf, NEW taken \in Nat, NEW told \in {0, 1}, NEW sent, Flowing(buf, taken, told, sent),
         NEW p \in Seq(Nat), Len(p) < Limit
  PROVE  Flowing(buf \o Framed(p), taken, told + 1, sent)
<1>1. PICK q : Stream(buf, q) /\ taken + Len(q) = told
  BY DEF Flowing
<1> DEFINE b == buf \o Framed(p)
           r == Append(q, p)
<1>2. Stream(b, r)
  BY <1>1, StreamAppend, Zenon
<1>3. Len(q) \in Nat /\ Len(r) = Len(q) + 1
  BY <1>1 DEF Stream
<1> HIDE DEF b, r
<1>4. \A k \in 1..Len(r) : ~(taken + k > 2)
  BY <1>1, <1>3
<1>5. taken + Len(r) = told + 1
  BY <1>1, <1>3
<1>6. Flowing(b, taken, told + 1, sent)
  BY <1>2, <1>4, <1>5 DEF Flowing
<1> QED BY <1>6 DEF b

\* A message is sealed with the nonce of its place, unless an earlier one was too
\* long, and written.
LEMMA FlowSend ==
  ASSUME NEW buf, NEW taken \in Nat, NEW sent, Plaintexts(sent), Flowing(buf, taken, 2 + Len(sent), sent),
         NEW m \in Seq(Nat), NEW n \in Nat, Clean(sent, Len(sent)) => n = Len(sent)
  PROVE  Flowing(buf \o Framed(encrypt(m, n)), taken, 2 + Len(sent) + 1, Append(sent, m))
<1> DEFINE l == Len(sent)
           p == encrypt(m, n)
           b == buf \o Framed(p)
           new == Append(sent, m)
<1>1. PICK q : /\ Stream(buf, q) /\ taken + Len(q) = 2 + l
               /\ \A k \in 1..Len(q) :
                    taken + k > 2 /\ Clean(sent, taken + k - 3)
                      => q[k] = encrypt(sent[taken + k - 2], taken + k - 3)
  BY DEF Flowing
<1> DEFINE r == Append(q, p)
<1>2. p \in Seq(Nat) /\ Len(p) < Limit
  BY Sealed
<1> HIDE DEF p
<1>3. Stream(b, r)
  BY <1>1, <1>2, StreamAppend, Zenon
<1>4. q \in Seq(Seq(Nat)) /\ sent \in Seq(Seq(Nat)) /\ Len(q) \in Nat /\ l \in Nat
  BY <1>1 DEF Stream, Plaintexts
<1>5. Len(r) = Len(q) + 1 /\ (\A k \in 1..Len(q) : r[k] = q[k]) /\ r[Len(q) + 1] = p
  BY <1>2, <1>4
<1>6. Len(new) = l + 1 /\ (\A i \in 1..l : new[i] = sent[i]) /\ new[l + 1] = m
  BY <1>4
<1> HIDE DEF r, b, new, l
<1>7. taken + Len(r) = 2 + l + 1
  BY <1>1, <1>4, <1>5
<1>8. ASSUME NEW k \in 1..Len(r), taken + k > 2, Clean(new, taken + k - 3)
      PROVE  r[k] = encrypt(new[taken + k - 2], taken + k - 3)
  <2> DEFINE i == taken + k - 3
  <2>1. i \in 0..l /\ taken + k - 2 = i + 1
    BY <1>1, <1>4, <1>5, <1>8
  <2>2. Clean(sent, i)
    <3>1. \A x \in 1..i : x \in 1..l
      BY <1>4, <2>1
    <3> HIDE DEF i
    <3> QED BY <1>6, <1>8, <3>1 DEF Clean, i
  <2>3. CASE k = Len(r)
    <3>1. i = l /\ k = Len(q) + 1
      BY <1>1, <1>4, <1>5, <2>3
    <3>2. n = l
      BY <2>2, <3>1 DEF l
    <3> HIDE DEF i
    <3> QED BY <1>5, <1>6, <2>1, <3>1, <3>2 DEF p, i
  <2>4. CASE k # Len(r)
    <3>1. k \in 1..Len(q) /\ i + 1 \in 1..l
      <4>1. taken + Len(q) = 2 + l
        BY <1>1
      <4>2. k \in 1..Len(q)
        BY <1>4, <1>5, <2>4
      <4>3. i + 1 <= l
        BY <1>4, <4>1, <4>2
      <4> HIDE DEF i
      <4> QED BY <2>1, <4>2, <4>3
    <3>2. q[k] = encrypt(sent[i + 1], i)
      BY <1>1, <1>8, <2>1, <2>2, <3>1
    <3> HIDE DEF i
    <3> QED BY <1>5, <1>6, <2>1, <3>1, <3>2 DEF i
  <2> QED BY <2>3, <2>4
<1>9. Flowing(b, taken, 2 + l + 1, new)
  BY <1>3, <1>7, <1>8 DEF Flowing
<1> QED BY <1>9 DEF b, new, l, p

\* A complete frame is taken.
LEMMA FlowTake ==
  ASSUME NEW a \in Seq(Nat), NEW c \in Seq(Nat), NEW taken \in Nat, NEW told \in Nat, NEW sent,
         Flowing(a \o c, taken, told, sent), FrameComplete(a)
  PROVE  /\ taken < told /\ Remainder(a) \in Seq(Nat)
         /\ taken >= 2 /\ Clean(sent, taken - 2) => framePayload(a) = encrypt(sent[taken - 1], taken - 2)
         /\ Flowing(Remainder(a) \o c, taken + 1, told, sent)
<1>1. PICK q : /\ Stream(a \o c, q) /\ taken + Len(q) = told
               /\ \A k \in 1..Len(q) :
                    taken + k > 2 /\ Clean(sent, taken + k - 3)
                      => q[k] = encrypt(sent[taken + k - 2], taken + k - 3)
  BY DEF Flowing
<1> DEFINE r == Tail(q)
           b == Remainder(a) \o c
<1>2. q # <<>> /\ framePayload(a) = q[1] /\ Remainder(a) \in Seq(Nat) /\ Stream(b, r)
  BY <1>1, StreamTake
<1>3. q \in Seq(Seq(Nat))
  BY <1>1 DEF Stream
<1>4. Len(q) \in Nat /\ Len(q) >= 1 /\ Len(r) = Len(q) - 1 /\ \A k \in 1..Len(r) : r[k] = q[k + 1]
  BY <1>2, <1>3, HeadTailProperties
<1> HIDE DEF r, b
<1>5. taken < told /\ taken + 1 + Len(r) = told
  <2>1. taken + Len(q) = told
    BY <1>1
  <2> DEFINE x == Len(q)
             y == Len(r)
  <2>2. x \in Nat /\ x >= 1 /\ y = x - 1 /\ taken + x = told
    BY <1>4, <2>1
  <2> HIDE DEF x, y
  <2>3. taken < told /\ taken + 1 + y = told
    BY <2>2
  <2> QED BY <2>3 DEF y
<1>6. ASSUME taken >= 2, Clean(sent, taken - 2)
      PROVE  q[1] = encrypt(sent[taken - 1], taken - 2)
  <2>1. 1 \in 1..Len(q) /\ taken + 1 > 2 /\ taken + 1 - 3 = taken - 2 /\ taken + 1 - 2 = taken - 1
    BY <1>4, <1>6
  <2> QED BY <1>1, <1>6, <2>1
<1>7. ASSUME NEW k \in 1..Len(r), taken + 1 + k > 2, Clean(sent, taken + 1 + k - 3)
      PROVE  r[k] = encrypt(sent[taken + 1 + k - 2], taken + 1 + k - 3)
  <2>1. /\ k + 1 \in 1..Len(q) /\ taken + (k + 1) > 2
        /\ taken + (k + 1) - 3 = taken + 1 + k - 3 /\ taken + (k + 1) - 2 = taken + 1 + k - 2
    BY <1>4, <1>7
  <2> QED BY <1>1, <1>4, <1>7, <2>1
<1>8. Flowing(b, taken + 1, told, sent)
  BY <1>2, <1>5, <1>7 DEF Flowing
<1> QED BY <1>2, <1>5, <1>6, <1>8 DEF b

\* No more frames are taken than were written.
LEMMA FlowBound ==
  ASSUME NEW buf, NEW taken \in Nat, NEW told \in Nat, NEW sent, Flowing(buf, taken, told, sent)
  PROVE  taken <= told
<1>1. PICK q : Stream(buf, q) /\ taken + Len(q) = told
  BY DEF Flowing
<1>2. Len(q) \in Nat
  BY <1>1 DEF Stream
<1> QED BY <1>1, <1>2

\* A frame whose message is decrypted holds the next one that was sent.
LEMMA FlowDeliver ==
  ASSUME NEW a \in Seq(Nat), NEW c \in Seq(Nat), NEW r \in Nat, NEW sent, Plaintexts(sent),
         Flowing(a \o c, 2 + r, 2 + Len(sent), sent), Clean(sent, r), FrameComplete(a),
         NEW plaintext, plaintext = decrypt(framePayload(a), r), plaintext # <<>>
  PROVE  /\ r < Len(sent) /\ plaintext = sent[r + 1] /\ Processed(plaintext) = <<sent[r + 1]>>
         /\ Clean(sent, r + 1)
<1> DEFINE l == Len(sent)
           taken == 2 + r
           told == 2 + l
           m == sent[r + 1]
<1>1. l \in Nat /\ sent \in Seq(Seq(Nat))
  BY DEF Plaintexts
<1>2. taken \in Nat /\ told \in Nat /\ taken >= 2 /\ taken - 2 = r /\ taken - 1 = r + 1
  BY <1>1
<1>3. Flowing(a \o c, taken, told, sent)
  OBVIOUS
<1> HIDE DEF taken, told
<1>4. taken < told /\ (taken >= 2 /\ Clean(sent, taken - 2) => framePayload(a) = encrypt(sent[taken - 1], taken - 2))
  BY <1>2, <1>3, FlowTake
<1>5. r < l /\ framePayload(a) = encrypt(m, r)
  <2>1. r < l
    BY <1>1, <1>4 DEF taken, told
  <2> QED BY <1>2, <1>4, <2>1
<1>6. m \in Seq(Nat) /\ Len(m) >= 4
  <2>1. r + 1 \in 1..l
    BY <1>1, <1>5
  <2> QED BY <1>1, <2>1 DEF Plaintexts
<1>7. plaintext = decrypt(encrypt(m, r), r)
  BY <1>5
<1> HIDE DEF m
<1>8. plaintext = m /\ Len(m) + 1 < Limit
  BY <1>6, <1>7, Sealed
<1>9. Processed(m) = <<m>>
  BY <1>6 DEF Processed
<1>10. Clean(sent, r + 1)
  <2>1. ASSUME NEW i \in 1..(r + 1) PROVE Len(sent[i]) + 1 < Limit
    <3>1. CASE i = r + 1
      BY <1>8, <3>1 DEF m
    <3>2. CASE i # r + 1
      <4>1. i \in 1..r
        BY <3>2
      <4> QED BY <4>1 DEF Clean
    <3> QED BY <3>1, <3>2
  <2> QED BY <2>1 DEF Clean
<1> QED BY <1>5, <1>8, <1>9, <1>10 DEF m

\* A message has the four bytes of its header.
LEMMA InnerPlaintext ==
  ASSUME NEW m \in UpMessage \cup DownMessage
  PROVE  inner(m) \in Seq(Nat) /\ Len(inner(m)) >= 4
<1> DEFINE e == encode(m.fields)
           g == HighLow(m.type)
           h == HighLow(Len(e))
<1>1. inner(m) \in Seq(Nat)
  BY InnerBytes, Bases, WiderAlphabet
<1>2. e \in Seq(Nat) /\ m.type \in Nat
  BY MessageParts, Bases, WiderAlphabet
<1>3. g \in Seq(Nat) /\ h \in Seq(Nat)
  <2>1. g \in Seq(Byte) /\ h \in Seq(Byte)
    BY <1>2, HighLowBytes
  <2> QED BY <2>1, Bases, WiderAlphabet
<1>4. Len(g) = 2 /\ Len(h) = 2
  BY DEF HighLow
<1>5. inner(m) = (g \o h) \o e
  BY DEF inner
<1> HIDE DEF e, g, h
<1>6. g \o h \in Seq(Nat) /\ Len(g \o h) = Len(g) + Len(h)
  BY <1>3, Concatenated, Zenon
<1>7. Len((g \o h) \o e) = Len(g \o h) + Len(e)
  BY <1>2, <1>6, Concatenated, Zenon
<1>8. Len(e) \in Nat
  BY <1>2
<1>9. Len((g \o h) \o e) >= 4
  BY <1>4, <1>6, <1>7, <1>8
<1> QED BY <1>1, <1>5, <1>9

\* A message is added to those sent.
LEMMA MorePlaintexts ==
  ASSUME NEW sent, Plaintexts(sent), NEW m \in Seq(Nat), Len(m) >= 4
  PROVE  /\ Plaintexts(Append(sent, m)) /\ Len(Append(sent, m)) = Len(sent) + 1
         /\ SubSeq(Append(sent, m), 1, Len(sent)) = sent
<1> DEFINE l == Len(sent)
           new == Append(sent, m)
<1>1. l \in Nat /\ sent \in Seq(Seq(Nat)) /\ \A i \in 1..l : Len(sent[i]) >= 4
  BY DEF Plaintexts
<1>2. new \in Seq(Seq(Nat)) /\ Len(new) = l + 1 /\ new[l + 1] = m /\ (\A i \in 1..l : new[i] = sent[i])
  BY <1>1
<1>3. SubSeq(new, 1, l) = sent
  BY <1>1
<1> HIDE DEF l, new
<1>4. ASSUME NEW i \in 1..(l + 1) PROVE Len(new[i]) >= 4
  <2>1. CASE i = l + 1
    BY <1>2, <2>1
  <2>2. CASE i # l + 1
    <3>1. i \in 1..l
      BY <1>1, <2>2
    <3> QED BY <1>1, <1>2, <3>1
  <2> QED BY <2>1, <2>2
<1> QED BY <1>2, <1>3, <1>4 DEF Plaintexts, l, new

-----------------------------------------------------------------------------
(***************************************************************************)
(* The inductive invariant for InOrder                                     *)
(***************************************************************************)
\* How many frames the node has written, and how many the service has taken.
DownTold == IF nodeState = "hello" THEN 0 ELSE IF nodeState = "noise" THEN 1 ELSE 2 + Len(sentDown)
DownTaken == IF m_state = "ServerHello" THEN 0 ELSE IF m_state = "NoiseHandshake" THEN 1 ELSE 2 + Len(gotDown)

\* From the node: what lies in m_rxBuf and under way are the frames not yet
\* taken, and the nonces count the messages.
DownInv ==
  /\ m_state \in {"ServerHello", "NoiseHandshake", "Ready", "Closed"}
  /\ nodeState \in {"hello", "noise", "open", "closed"}
  /\ m_rxBuf \in Seq(Nat) /\ toService \in Seq(Nat)
  /\ Plaintexts(sentDown) /\ gotDown \in Seq(Seq(Nat))
  /\ nodeNonce.send = Len(sentDown)
  /\ nodeState \in {"hello", "noise"} => sentDown = <<>>
  /\ m_state \in {"ServerHello", "NoiseHandshake"} => gotDown = <<>>
  /\ m_state # "Closed" =>
       /\ m_noise.recv = Len(gotDown)
       /\ Clean(sentDown, Len(gotDown))
       /\ Flowing(m_rxBuf \o toService, DownTaken, DownTold, sentDown)

\* How many frames the node has taken; the service has written two and its messages.
UpTaken == IF nodeState = "hello" THEN 0 ELSE IF nodeState = "noise" THEN 1 ELSE 2 + Len(gotUp)

\* To the node: the same, until a message was too long.
UpInv ==
  /\ toNode \in Seq(Nat)
  /\ Plaintexts(sentUp) /\ gotUp \in Seq(Seq(Nat))
  /\ m_noise.send \in Nat
  /\ Clean(sentUp, Len(sentUp)) => m_noise.send = Len(sentUp)
  /\ nodeState \in {"hello", "noise"} => gotUp = <<>>
  /\ nodeState # "closed" =>
       /\ nodeNonce.recv = Len(gotUp)
       /\ Clean(sentUp, Len(gotUp))
       /\ Flowing(toNode, UpTaken, 2 + Len(sentUp), sentUp)

PipeInv ==
  /\ m_noise \in [action : {"WRITE", "READ", "NONE"}, m_complete : BOOLEAN, send : Nat, recv : Nat]
  /\ nodeNonce \in [send : Nat, recv : Nat]
  /\ encryptionKey \in Nat /\ nodeKey \in Nat
  /\ DownInv /\ UpInv

\* The payloads of the handshake fit a frame.
LEMMA SmallPayloads ==
  /\ <<>> \in Seq(Nat) /\ Len(<<>>) < Limit
  /\ <<1, 2, 0>> \in Seq(Nat) /\ Len(<<1, 2, 0>>) < Limit
  /\ <<1>> \in Seq(Nat) /\ Len(<<1>>) < Limit
  /\ \A k \in Nat, n \in {1, 2} : <<0>> \o Handshake(k, n) \in Seq(Nat) /\ Len(<<0>> \o Handshake(k, n)) < Limit
<1>1. Limit > 3 /\ Limit \in Nat
  <2>1. \A x \in Nat : x >= 4 => x * x > 3 /\ x * x \in Nat
    OBVIOUS
  <2> QED BY <2>1, Bases DEF Limit
<1> HIDE DEF Limit
<1>2. ASSUME NEW k \in Nat, NEW n \in {1, 2}
      PROVE  <<0>> \o Handshake(k, n) \in Seq(Nat) /\ Len(<<0>> \o Handshake(k, n)) < Limit
  <2> DEFINE h == Handshake(k, n)
             z == <<0>>
  <2>1. Base + 3 * k + n \in Nat
    BY Bases
  <2>2. h \in Seq(Nat) /\ Len(h) = 1 /\ z \in Seq(Nat) /\ Len(z) = 1
    BY <2>1 DEF Handshake
  <2> HIDE DEF h, z
  <2>3. z \o h \in Seq(Nat) /\ Len(z \o h) = 2
    <3>1. z \o h \in Seq(Nat) /\ Len(z \o h) = Len(z) + Len(h)
      BY <2>2, Concatenated, Zenon
    <3> QED BY <2>2, <3>1
  <2>4. z \o h \in Seq(Nat) /\ Len(z \o h) < Limit
    BY <1>1, <2>3
  <2> QED BY <2>4 DEF z, h
<1> QED BY <1>1, <1>2

\* After onConnected the two frames of the service are under way.
LEMMA InitPipe ==
  ASSUME Init
  PROVE  PipeInv
<1>1. encryptionKey \in Nat /\ nodeKey \in Nat
  BY WireAssumption DEF Init
<1>2. m_noise = [action |-> "READ", m_complete |-> FALSE, send |-> 0, recv |-> 0]
  BY DEF Init, NewNoise
<1>3. Plaintexts(<<>>) /\ Clean(<<>>, 0) /\ Len(<<>>) = 0 /\ <<>> \in Seq(Seq(Nat)) /\ <<>> \in Seq(Nat)
  BY DEF Plaintexts, Clean
<1>4. Flowing(<<>>, 0, 0, <<>>)
  <2>1. Stream(<<>>, <<>>) /\ Len(<<>>) = 0 /\ 0 + 0 = 0 /\ \A k \in 1..0 : FALSE
    BY StreamEmpty
  <2> QED BY <2>1 DEF Flowing
<1>5. <<>> \o <<>> = <<>>
  OBVIOUS
<1>6. DownInv
  BY <1>2, <1>3, <1>4, <1>5 DEF Init, DownInv, DownTaken, DownTold
<1> DEFINE f == Framed(<<>>)
           p == <<0>> \o Handshake(encryptionKey, 1)
           g == Framed(p)
<1>7. p \in Seq(Nat) /\ Len(p) < Limit /\ <<>> \in Seq(Nat) /\ Len(<<>>) < Limit
  BY <1>1, SmallPayloads, Zenon
<1> HIDE DEF p
<1>8. f \in Seq(Nat) /\ g \in Seq(Nat)
  BY <1>7, FramedBytes
<1>9. Flowing(<<>> \o f, 0, 1, <<>>)
  <2>1. Flowing(<<>> \o f, 0, 0 + 1, <<>>)
    BY <1>4, <1>7, FlowAnswer
  <2> QED BY <2>1
<1> DEFINE b == <<>> \o f
<1>10. b = f
  BY <1>8
<1> HIDE DEF b
<1>11. Flowing(b \o g, 0, 2, <<>>)
  <2>1. Flowing(b, 0, 1, <<>>)
    BY <1>9 DEF b
  <2>2. Flowing(b \o g, 0, 1 + 1, <<>>)
    BY <1>7, <2>1, FlowAnswer
  <2> QED BY <2>2
<1>12. toNode = f \o g /\ f \o g \in Seq(Nat)
  BY <1>8 DEF Init, p
<1>13. Flowing(toNode, 0, 2 + Len(<<>>), <<>>)
  BY <1>3, <1>10, <1>11, <1>12
<1>14. UpInv
  <2>1. sentUp = <<>> /\ gotUp = <<>> /\ nodeState = "hello" /\ nodeNonce.recv = 0 /\ toNode \in Seq(Nat)
    BY <1>12 DEF Init
  <2>2. UpTaken = 0
    BY <2>1 DEF UpTaken
  <2>3. Flowing(toNode, UpTaken, 2 + Len(sentUp), sentUp)
    BY <1>13, <2>1, <2>2
  <2>4. m_noise.send = 0 /\ Len(sentUp) = 0 /\ Len(gotUp) = 0 /\ Clean(sentUp, 0) /\ Plaintexts(sentUp) /\ gotUp \in Seq(Seq(Nat))
    BY <1>2, <1>3, <2>1
  <2> QED BY <2>1, <2>3, <2>4 DEF UpInv
<1>15. nodeNonce \in [send : Nat, recv : Nat]
  BY DEF Init
<1> QED BY <1>1, <1>2, <1>6, <1>14, <1>15 DEF PipeInv

-----------------------------------------------------------------------------
(***************************************************************************)
(* The steps                                                               *)
(***************************************************************************)
\* What a step does not touch stays as it was.
LEMMA DownUntouched ==
  ASSUME PipeInv, m_noise'.recv = m_noise.recv,
         UNCHANGED <<m_state, m_rxBuf, toService, nodeState, sentDown, gotDown>>, nodeNonce'.send = nodeNonce.send
  PROVE  DownInv'
BY DEF PipeInv, DownInv, DownTaken, DownTold

LEMMA UpUntouched ==
  ASSUME PipeInv, m_noise'.send = m_noise.send, nodeNonce'.recv = nodeNonce.recv,
         UNCHANGED <<nodeState, toNode, sentUp, gotUp>>
  PROVE  UpInv'
BY DEF PipeInv, UpInv, UpTaken

\* Once an end is closed nothing is due to arrive there.
LEMMA DownGivenUp ==
  ASSUME PipeInv, m_state' = "Closed",
         UNCHANGED <<m_rxBuf, toService, nodeState, nodeNonce, sentDown, gotDown>>
  PROVE  DownInv'
BY DEF PipeInv, DownInv

\* What a step is in either direction: one of the pipe, or nothing.
SentUpStep == Up!Send \/ Up!Deliver \/ UNCHANGED <<sentUp, gotUp>>
SentDownStep == Down!Send \/ Down!Deliver \/ UNCHANGED <<sentDown, gotDown>>

\* sendMessage.
LEMMA PipeSendUp ==
  ASSUME PipeInv, NEW m \in UpMessage, sendMessage(m)
  PROVE  PipeInv' /\ SentUpStep /\ SentDownStep
<1> DEFINE p == encrypt(inner(m), m_noise.send)
           n == m_noise.send
<1>1. inner(m) \in Seq(Nat) /\ Len(inner(m)) >= 4
  BY InnerPlaintext
<1>2. n \in Nat /\ Plaintexts(sentUp) /\ toNode \in Seq(Nat) /\ sentUp \in Seq(Seq(Nat)) /\ Len(sentUp) \in Nat
  BY DEF PipeInv, UpInv, Plaintexts
<1>3. p \in Seq(Nat) /\ Len(p) < Limit
  BY <1>1, <1>2, Sealed
<1>4. /\ toNode' = toNode \o Framed(p)
      /\ m_noise' = [m_noise EXCEPT !.send = IF p = <<>> THEN n ELSE n + 1]
      /\ sentUp' = Append(sentUp, inner(m))
      /\ UNCHANGED <<encryptionKey, nodeKey, m_state, m_rxBuf, reading, nodeState, nodeNonce, toService, gotUp, sentDown, gotDown>>
  BY DEF sendMessage, keys, node
<1>5. m_noise' \in [action : {"WRITE", "READ", "NONE"}, m_complete : BOOLEAN, send : Nat, recv : Nat]
  <2>1. (IF p = <<>> THEN n ELSE n + 1) \in Nat
    BY <1>2
  <2> HIDE DEF p
  <2> QED BY <1>4, <2>1 DEF PipeInv
<1>6. m_noise'.recv = m_noise.recv /\ m_noise'.send = IF p = <<>> THEN n ELSE n + 1
  <2> HIDE DEF p, n
  <2> QED BY <1>4 DEF PipeInv
<1>7. DownInv'
  BY <1>4, <1>6, DownUntouched
<1>8. /\ Plaintexts(sentUp') /\ Len(sentUp') = Len(sentUp) + 1
      /\ SubSeq(sentUp', 1, Len(sentUp)) = sentUp
      /\ \A i \in 1..Len(sentUp) : sentUp'[i] = sentUp[i]
      /\ sentUp'[Len(sentUp) + 1] = inner(m)
  <2>1. Plaintexts(sentUp') /\ Len(sentUp') = Len(sentUp) + 1 /\ SubSeq(sentUp', 1, Len(sentUp)) = sentUp
    BY <1>1, <1>2, <1>4, MorePlaintexts
  <2> QED BY <1>1, <1>2, <1>4, <2>1
<1>9. toNode' \in Seq(Nat)
  <2>1. Framed(p) \in Seq(Nat)
    BY <1>3, FramedBytes
  <2> HIDE DEF p
  <2> QED BY <1>2, <1>4, <2>1
<1>10. Clean(sentUp', Len(sentUp')) => m_noise'.send = Len(sentUp')
  <2> SUFFICES ASSUME Clean(sentUp', Len(sentUp') ) PROVE m_noise'.send = Len(sentUp')
    OBVIOUS
  <2>1. Clean(sentUp, Len(sentUp)) /\ Len(inner(m)) + 1 < Limit
    <3>1. \A i \in 1..Len(sentUp) : i \in 1..(Len(sentUp) + 1)
      BY <1>2
    <3>2. Len(sentUp) + 1 \in 1..(Len(sentUp) + 1)
      BY <1>2
    <3> QED BY <1>8, <3>1, <3>2 DEF Clean
  <2>2. n = Len(sentUp)
    BY <2>1 DEF PipeInv, UpInv
  <2>3. p # <<>>
    <3> DEFINE t == Mac(n)
               i == inner(m)
    <3>1. t # <<>> /\ t \in Seq(Nat) /\ Len(t) = 1
      BY <1>2, Bases DEF Mac
    <3>2. Limit \in Nat
      BY Bases DEF Limit
    <3>3. p = IF Len(i) + Len(t) >= Limit THEN <<>> ELSE i \o t
      BY DEF encrypt
    <3> HIDE DEF p, t, i
    <3>4. i \in Seq(Nat) /\ Len(i) + 1 < Limit
      BY <1>1, <2>1 DEF i
    <3>5. i \o t # <<>>
      BY <3>1, <3>4
    <3>6. Len(i) \in Nat
      BY <3>4
    <3>7. ~(Len(i) + Len(t) >= Limit)
      BY <3>1, <3>2, <3>4, <3>6
    <3> QED BY <3>3, <3>5, <3>7
  <2> QED BY <1>6, <1>8, <2>2, <2>3
<1>11. ASSUME nodeState # "closed"
       PROVE  /\ nodeNonce.recv = Len(gotUp) /\ Clean(sentUp', Len(gotUp))
              /\ Flowing(toNode', UpTaken, 2 + Len(sentUp'), sentUp')
  <2>1. /\ nodeNonce.recv = Len(gotUp) /\ Clean(sentUp, Len(gotUp))
        /\ Flowing(toNode, UpTaken, 2 + Len(sentUp), sentUp)
        /\ Clean(sentUp, Len(sentUp)) => n = Len(sentUp)
    BY <1>11 DEF PipeInv, UpInv
  <2>2. UpTaken \in Nat /\ Len(gotUp) \in Nat
    BY DEF PipeInv, UpInv, UpTaken
  <2>3. Flowing(toNode \o Framed(p), UpTaken, 2 + Len(sentUp) + 1, Append(sentUp, inner(m)))
    BY <1>1, <1>2, <2>1, <2>2, FlowSend
  <2>4. Flowing(toNode', UpTaken, 2 + Len(sentUp'), sentUp')
    <3>1. 2 + Len(sentUp) + 1 = 2 + Len(sentUp')
      BY <1>2, <1>8
    <3> HIDE DEF p
    <3> QED BY <1>4, <2>3, <3>1
  <2>5. Clean(sentUp', Len(gotUp))
    <3>1. Len(gotUp) <= Len(sentUp)
      <4>1. UpTaken <= 2 + Len(sentUp)
        BY <1>2, <2>1, <2>2, FlowBound
      <4> QED BY <1>2, <2>2, <4>1 DEF UpTaken, PipeInv, UpInv
    <3> QED BY <1>2, <1>8, <2>1, <2>2, <3>1 DEF Clean
  <2> QED BY <2>1, <2>4, <2>5
<1>12. UpInv'
  BY <1>4, <1>5, <1>8, <1>9, <1>10, <1>11 DEF PipeInv, UpInv, UpTaken
<1>13. SentUpStep /\ SentDownStep
  BY <1>4, <1>8 DEF SentUpStep, SentDownStep, Up!Send
<1> QED BY <1>4, <1>5, <1>7, <1>12, <1>13 DEF PipeInv

\* A message of the node.
LEMMA PipeSendDown ==
  ASSUME PipeInv, NEW m \in DownMessage, NodeSends(m)
  PROVE  PipeInv' /\ SentUpStep /\ SentDownStep
<1> DEFINE n == nodeNonce.send
           p == encrypt(inner(m), n)
           buf == m_rxBuf \o toService
<1>1. inner(m) \in Seq(Nat) /\ Len(inner(m)) >= 4
  BY InnerPlaintext
<1>2. /\ n \in Nat /\ n = Len(sentDown) /\ Plaintexts(sentDown) /\ sentDown \in Seq(Seq(Nat))
      /\ m_rxBuf \in Seq(Nat) /\ toService \in Seq(Nat) /\ Len(sentDown) \in Nat
  BY DEF PipeInv, DownInv, Plaintexts
<1>3. p \in Seq(Nat) /\ Len(p) < Limit
  BY <1>1, <1>2, Sealed
<1>4. /\ nodeState = "open" /\ toService' = toService \o Framed(p)
      /\ nodeNonce' = [nodeNonce EXCEPT !.send = n + 1]
      /\ sentDown' = Append(sentDown, inner(m))
      /\ UNCHANGED <<encryptionKey, nodeKey, m_state, m_noise, m_rxBuf, reading, nodeState, toNode, sentUp, gotUp, gotDown>>
  BY DEF NodeSends, keys, service
<1> HIDE DEF p
<1>5. nodeNonce' \in [send : Nat, recv : Nat] /\ nodeNonce'.recv = nodeNonce.recv /\ nodeNonce'.send = n + 1
  <2>1. nodeNonce \in [send : Nat, recv : Nat]
    BY DEF PipeInv
  <2>2. nodeNonce' = [nodeNonce EXCEPT !.send = n + 1] /\ n + 1 \in Nat
    BY <1>2, <1>4
  <2> HIDE DEF n
  <2> QED BY <2>1, <2>2
<1>6. UpInv'
  BY <1>4, <1>5, UpUntouched
<1>7. /\ Plaintexts(sentDown') /\ Len(sentDown') = Len(sentDown) + 1
      /\ SubSeq(sentDown', 1, Len(sentDown)) = sentDown
      /\ \A i \in 1..Len(sentDown) : sentDown'[i] = sentDown[i]
  <2>1. Plaintexts(sentDown') /\ Len(sentDown') = Len(sentDown) + 1 /\ SubSeq(sentDown', 1, Len(sentDown)) = sentDown
    BY <1>1, <1>2, <1>4, MorePlaintexts
  <2> QED BY <1>1, <1>2, <1>4, <2>1
<1>8. Framed(p) \in Seq(Nat)
  BY <1>3, FramedBytes
<1>9. toService' \in Seq(Nat)
  BY <1>2, <1>4, <1>8
<1>10. m_rxBuf' \o toService' = buf \o Framed(p)
  <2>1. (m_rxBuf \o toService) \o Framed(p) = m_rxBuf \o (toService \o Framed(p))
    BY <1>2, <1>8, Associated, Zenon
  <2> QED BY <1>4, <2>1
<1>11. ASSUME m_state # "Closed"
       PROVE  /\ m_noise.recv = Len(gotDown) /\ Clean(sentDown', Len(gotDown))
              /\ Flowing(m_rxBuf' \o toService', DownTaken, 2 + Len(sentDown'), sentDown')
  <2>1. /\ m_noise.recv = Len(gotDown) /\ Clean(sentDown, Len(gotDown))
        /\ Flowing(buf, DownTaken, 2 + Len(sentDown), sentDown)
    BY <1>4, <1>11 DEF PipeInv, DownInv, DownTold
  <2>2. DownTaken \in Nat /\ Len(gotDown) \in Nat
    BY DEF PipeInv, DownInv, DownTaken
  <2> HIDE DEF buf
  <2>3. Flowing(buf \o Framed(p), DownTaken, 2 + Len(sentDown) + 1, Append(sentDown, inner(m)))
    BY <1>1, <1>2, <2>1, <2>2, FlowSend DEF p
  <2>4. Flowing(m_rxBuf' \o toService', DownTaken, 2 + Len(sentDown'), sentDown')
    <3>1. 2 + Len(sentDown) + 1 = 2 + Len(sentDown')
      BY <1>2, <1>7
    <3> QED BY <1>4, <1>10, <2>3, <3>1
  <2>5. Clean(sentDown', Len(gotDown))
    <3>1. Len(gotDown) <= Len(sentDown)
      <4>1. DownTaken <= 2 + Len(sentDown)
        BY <1>2, <2>1, <2>2, FlowBound
      <4> QED BY <1>2, <1>11, <2>2, <4>1 DEF DownTaken, PipeInv, DownInv
    <3> QED BY <1>2, <1>7, <2>1, <2>2, <3>1 DEF Clean
  <2> QED BY <2>1, <2>4, <2>5
<1>12. DownInv'
  BY <1>2, <1>4, <1>5, <1>7, <1>9, <1>11 DEF PipeInv, DownInv, DownTaken, DownTold
<1>13. SentUpStep /\ SentDownStep
  BY <1>4, <1>7 DEF SentUpStep, SentDownStep, Down!Send
<1> QED BY <1>4, <1>5, <1>6, <1>12, <1>13 DEF PipeInv

\* The node takes a frame of the handshake and answers it.
LEMMA PipeAnswer ==
  ASSUME PipeInv, NodeHello \/ NodeHandshake \/ NodePretends
  PROVE  PipeInv' /\ SentUpStep /\ SentDownStep
<1> DEFINE buf == m_rxBuf \o toService
<1>1. /\ m_rxBuf \in Seq(Nat) /\ toService \in Seq(Nat) /\ toNode \in Seq(Nat) /\ <<>> \in Seq(Nat)
      /\ encryptionKey \in Nat /\ nodeKey \in Nat
  BY DEF PipeInv, DownInv, UpInv
<1>2. /\ FrameComplete(toNode) /\ toNode' = Remainder(toNode)
      /\ UNCHANGED <<encryptionKey, nodeKey, m_state, m_noise, m_rxBuf, reading, nodeNonce, sentUp, gotUp, sentDown, gotDown>>
  BY DEF NodeHello, NodeHandshake, NodePretends, NodeTakes, keys, service
<1>3. /\ \/ nodeState = "hello" /\ nodeState' = "noise"
         \/ nodeState = "noise" /\ nodeState' \in {"open", "closed"}
      /\ \E p \in {<<1, 2, 0>>, <<1>>, <<0>> \o Handshake(nodeKey, 2)} : toService' = toService \o Framed(p)
  BY DEF NodeHello, NodeHandshake, NodePretends
<1>4. PICK p \in Seq(Nat) : Len(p) < Limit /\ toService' = toService \o Framed(p)
  <2>1. \A p \in {<<1, 2, 0>>, <<1>>, <<0>> \o Handshake(nodeKey, 2)} : p \in Seq(Nat) /\ Len(p) < Limit
    <3>1. <<0>> \o Handshake(nodeKey, 2) \in Seq(Nat) /\ Len(<<0>> \o Handshake(nodeKey, 2)) < Limit
      <4>1. 2 \in {1, 2}
        OBVIOUS
      <4> QED BY <1>1, <4>1, SmallPayloads, Zenon
    <3> QED BY <3>1, SmallPayloads, Zenon
  <2> QED BY <1>3, <2>1, Zenon
<1>5. Framed(p) \in Seq(Nat)
  BY <1>4, FramedBytes
<1>6. /\ sentDown = <<>> /\ gotUp = <<>> /\ DownTold \in {0, 1} /\ DownTold' = DownTold + 1
      /\ UpTaken \in {0, 1} /\ UpTaken' = UpTaken + 1
  <2>1. sentDown = <<>> /\ gotUp = <<>> /\ sentDown' = <<>> /\ gotUp' = <<>> /\ Len(<<>>) = 0
    BY <1>2, <1>3 DEF PipeInv, DownInv, UpInv
  <2> QED BY <1>3, <2>1 DEF DownTold, UpTaken
<1>7. m_rxBuf' \o toService' = buf \o Framed(p)
  <2>1. (m_rxBuf \o toService) \o Framed(p) = m_rxBuf \o (toService \o Framed(p))
    <3>1. m_rxBuf \in Seq(Nat) /\ toService \in Seq(Nat)
      BY <1>1
    <3> QED BY <1>5, <3>1, Associated, Zenon
  <2> QED BY <1>2, <1>4, <2>1
<1>8. toService' \in Seq(Nat)
  BY <1>1, <1>4, <1>5
<1> HIDE DEF buf
<1>9. ASSUME m_state # "Closed"
      PROVE  Flowing(m_rxBuf' \o toService', DownTaken, DownTold', sentDown)
  <2>1. Flowing(buf, DownTaken, DownTold, sentDown)
    BY <1>9 DEF PipeInv, DownInv, buf
  <2>2. DownTaken \in Nat
    BY DEF PipeInv, DownInv, DownTaken
  <2>3. Flowing(buf \o Framed(p), DownTaken, DownTold + 1, sentDown)
    BY <1>4, <1>6, <2>1, <2>2, FlowAnswer
  <2> QED BY <1>6, <1>7, <2>3
<1>10. DownInv'
  <2>1. DownTaken' = DownTaken
    BY <1>2 DEF DownTaken
  <2>2. nodeState' \in {"noise", "open", "closed"}
    BY <1>3
  <2> QED BY <1>2, <1>6, <1>8, <1>9, <2>1, <2>2 DEF PipeInv, DownInv
<1>11. toNode' \in Seq(Nat) /\ Flowing(toNode', UpTaken', 2 + Len(sentUp), sentUp)
  <2>1. nodeState # "closed"
    BY <1>3
  <2>2. Flowing(toNode, UpTaken, 2 + Len(sentUp), sentUp)
    BY <2>1 DEF PipeInv, UpInv
  <2>3. UpTaken \in Nat /\ 2 + Len(sentUp) \in Nat
    BY <1>6 DEF PipeInv, UpInv, Plaintexts
  <2>4. toNode \o <<>> = toNode
    BY <1>1
  <2>5. /\ Remainder(toNode) \in Seq(Nat)
        /\ Flowing(Remainder(toNode) \o <<>>, UpTaken + 1, 2 + Len(sentUp), sentUp)
    <3> DEFINE e == <<>>
               b == toNode \o e
    <3>1. e \in Seq(Nat) /\ Flowing(b, UpTaken, 2 + Len(sentUp), sentUp)
      BY <2>2, <2>4
    <3> HIDE DEF e
    <3>2. /\ Remainder(toNode) \in Seq(Nat)
          /\ Flowing(Remainder(toNode) \o e, UpTaken + 1, 2 + Len(sentUp), sentUp)
      BY <1>1, <1>2, <2>3, <3>1, FlowTake
    <3> QED BY <3>2 DEF e
  <2>6. Remainder(toNode) \o <<>> = Remainder(toNode)
    BY <2>5
  <2> QED BY <1>2, <1>6, <2>5, <2>6
<1>12. UpInv'
  <2>1. nodeState # "closed"
    BY <1>3
  <2> QED BY <1>2, <1>6, <1>11, <2>1 DEF PipeInv, UpInv
<1>13. SentUpStep /\ SentDownStep
  BY <1>2 DEF SentUpStep, SentDownStep
<1> QED BY <1>2, <1>10, <1>12, <1>13 DEF PipeInv

\* The node takes a message.
LEMMA PipeReceiveUp ==
  ASSUME PipeInv, NodeReceives
  PROVE  PipeInv' /\ SentUpStep /\ SentDownStep
<1> DEFINE r == nodeNonce.recv
           plaintext == decrypt(framePayload(toNode), r)
           e == <<>>
           l == Len(sentUp)
<1>1. /\ nodeState = "open" /\ FrameComplete(toNode) /\ toNode' = Remainder(toNode)
      /\ nodeState' = IF plaintext = <<>> THEN "closed" ELSE "open"
      /\ nodeNonce' = [nodeNonce EXCEPT !.recv = r + 1]
      /\ gotUp' = gotUp \o Processed(plaintext)
      /\ UNCHANGED <<encryptionKey, nodeKey, m_state, m_noise, m_rxBuf, reading, toService, sentUp, sentDown, gotDown>>
  BY DEF NodeReceives, NodeTakes, keys, service
<1>2. /\ r \in Nat /\ r = Len(gotUp) /\ toNode \in Seq(Nat) /\ e \in Seq(Nat)
      /\ Plaintexts(sentUp) /\ l \in Nat /\ gotUp \in Seq(Seq(Nat)) /\ sentUp \in Seq(Seq(Nat))
      /\ Clean(sentUp, r) /\ Flowing(toNode, 2 + r, 2 + l, sentUp)
  BY <1>1 DEF PipeInv, UpInv, UpTaken, Plaintexts
<1>3. nodeNonce' \in [send : Nat, recv : Nat] /\ nodeNonce'.recv = r + 1 /\ nodeNonce'.send = nodeNonce.send
  <2>1. nodeNonce \in [send : Nat, recv : Nat]
    BY DEF PipeInv
  <2>2. nodeNonce' = [nodeNonce EXCEPT !.recv = r + 1] /\ r + 1 \in Nat
    BY <1>1, <1>2
  <2> HIDE DEF r
  <2> QED BY <2>1, <2>2
<1>4. DownInv'
  <2>1. nodeState' \in {"open", "closed"} /\ DownTold' = DownTold /\ DownTaken' = DownTaken
    BY <1>1 DEF DownTold, DownTaken
  <2> QED BY <1>1, <1>3, <2>1 DEF PipeInv, DownInv
<1> DEFINE b == toNode \o e
<1>5. b = toNode /\ Flowing(b, 2 + r, 2 + l, sentUp)
  BY <1>2
<1> HIDE DEF e, r, l, plaintext
<1>6. /\ Remainder(toNode) \in Seq(Nat)
      /\ Flowing(Remainder(toNode) \o e, 2 + r + 1, 2 + l, sentUp)
  <2>1. 2 + r \in Nat /\ 2 + l \in Nat
    BY <1>2
  <2> QED BY <1>1, <1>2, <1>5, <2>1, FlowTake
<1>7. Remainder(toNode) \o e = Remainder(toNode)
  BY <1>6 DEF e
<1>8. CASE plaintext = <<>>
  <2>1. Processed(plaintext) = <<>>
    BY <1>8 DEF Processed
  <2>2. gotUp' = gotUp /\ nodeState' = "closed"
    BY <1>1, <1>2, <1>8, <2>1
  <2>3. UpInv'
    BY <1>1, <1>6, <2>2 DEF PipeInv, UpInv
  <2>4. SentUpStep /\ SentDownStep
    BY <1>1, <2>2 DEF SentUpStep, SentDownStep
  <2> QED BY <1>1, <1>3, <1>4, <2>3, <2>4 DEF PipeInv
<1>9. CASE plaintext # <<>>
  <2>1. r < l /\ Processed(plaintext) = <<sentUp[r + 1]>> /\ Clean(sentUp, r + 1)
    <3>1. plaintext = decrypt(framePayload(toNode), r)
      BY DEF plaintext
    <3>2. Flowing(toNode \o e, 2 + r, 2 + Len(sentUp), sentUp)
      BY <1>5 DEF l
    <3> QED BY <1>1, <1>2, <1>9, <3>1, <3>2, FlowDeliver DEF l
  <2>2. sentUp[r + 1] \in Seq(Nat)
    <3>1. r + 1 \in 1..l
      BY <1>2, <2>1
    <3> QED BY <1>2, <3>1 DEF l
  <2>3. gotUp' = gotUp \o <<sentUp[r + 1]>> /\ nodeState' = "open"
    BY <1>1, <1>9, <2>1
  <2>4. gotUp' = Append(gotUp, sentUp[r + 1]) /\ gotUp' \in Seq(Seq(Nat)) /\ Len(gotUp') = r + 1
    BY <1>2, <2>2, <2>3
  <2>5. UpTaken' = 2 + r + 1
    <3>1. UpTaken' = 2 + Len(gotUp')
      BY <2>3 DEF UpTaken
    <3> QED BY <1>2, <2>4, <3>1
  <2>6. UpInv'
    <3>1. Flowing(toNode', UpTaken', 2 + Len(sentUp'), sentUp')
      BY <1>1, <1>6, <1>7, <2>5 DEF l
    <3>2. Clean(sentUp', Len(gotUp')) /\ nodeNonce'.recv = Len(gotUp')
      BY <1>1, <1>3, <2>1, <2>4
    <3> QED BY <1>1, <1>6, <2>3, <2>4, <3>1, <3>2 DEF PipeInv, UpInv
  <2>7. Up!Deliver
    BY <1>1, <1>2, <2>1, <2>4 DEF Up!Deliver, l
  <2>8. SentUpStep /\ SentDownStep
    BY <1>1, <2>7 DEF SentUpStep, SentDownStep
  <2> QED BY <1>1, <1>3, <1>4, <2>6, <2>8 DEF PipeInv
<1> QED BY <1>8, <1>9

\* readyRead: bytes move from the socket to m_rxBuf.
LEMMA PipeRead ==
  ASSUME PipeInv, NEW n \in 1..Len(toService), onReadyRead(n)
  PROVE  PipeInv' /\ SentUpStep /\ SentDownStep
<1>1. /\ m_rxBuf' = m_rxBuf \o SubSeq(toService, 1, n)
      /\ toService' = SubSeq(toService, n + 1, Len(toService))
      /\ UNCHANGED <<encryptionKey, nodeKey, m_state, m_noise, nodeState, nodeNonce, toNode, sentUp, gotUp, sentDown, gotDown>>
  BY DEF onReadyRead, keys, node
<1>2. m_rxBuf \in Seq(Nat) /\ toService \in Seq(Nat)
  BY DEF PipeInv, DownInv
<1>3. m_rxBuf' \in Seq(Nat) /\ toService' \in Seq(Nat) /\ m_rxBuf' \o toService' = m_rxBuf \o toService
  BY <1>1, <1>2, StreamMove
<1>4. DownTold' = DownTold /\ DownTaken' = DownTaken
  BY <1>1 DEF DownTold, DownTaken
<1>5. DownInv'
  BY <1>1, <1>3, <1>4 DEF PipeInv, DownInv
<1>6. UpInv'
  BY <1>1, UpUntouched
<1> QED BY <1>1, <1>5, <1>6 DEF PipeInv, SentUpStep, SentDownStep

\* The service takes a frame.
LEMMA PipeTake ==
  ASSUME PipeInv, m_state # "Closed", FrameComplete(m_rxBuf)
  PROVE  /\ Remainder(m_rxBuf) \in Seq(Nat)
         /\ Flowing(Remainder(m_rxBuf) \o toService, DownTaken + 1, DownTold, sentDown)
<1>1. m_rxBuf \in Seq(Nat) /\ toService \in Seq(Nat) /\ Flowing(m_rxBuf \o toService, DownTaken, DownTold, sentDown)
  BY DEF PipeInv, DownInv
<1>2. DownTaken \in Nat /\ DownTold \in Nat
  BY DEF PipeInv, DownInv, DownTaken, DownTold, Plaintexts
<1> QED BY <1>1, <1>2, FlowTake

\* The frames of the handshake move the states and leave the nonces alone.
LEMMA PipeHandshake ==
  ASSUME PipeInv, ServerHelloFrame \/ NoiseHandshakeFrame
  PROVE  PipeInv' /\ SentUpStep /\ SentDownStep
<1>1. /\ \/ m_state = "ServerHello" /\ m_state' = "NoiseHandshake"
         \/ m_state = "NoiseHandshake" /\ m_state' = "Ready"
      /\ FrameComplete(m_rxBuf) /\ m_rxBuf' = Remainder(m_rxBuf)
      /\ UNCHANGED <<encryptionKey, nodeKey, reading, nodeState, nodeNonce, toNode, toService, sentUp, gotUp, sentDown, gotDown>>
  BY DEF ServerHelloFrame, NoiseHandshakeFrame, TakeFrame, keys, node
<1>2. /\ m_noise' \in [action : {"WRITE", "READ", "NONE"}, m_complete : BOOLEAN, send : Nat, recv : Nat]
      /\ m_noise'.send = m_noise.send /\ m_noise'.recv = m_noise.recv
  <2>1. m_noise \in [action : {"WRITE", "READ", "NONE"}, m_complete : BOOLEAN, send : Nat, recv : Nat]
    BY DEF PipeInv
  <2>2. m_noise' = m_noise \/ m_noise' = [m_noise EXCEPT !.action = "NONE", !.m_complete = TRUE]
    BY DEF ServerHelloFrame, NoiseHandshakeFrame
  <2> QED BY <2>1, <2>2
<1>3. gotDown = <<>> /\ gotDown' = <<>> /\ Len(<<>>) = 0
  BY <1>1 DEF PipeInv, DownInv
<1>4. DownTaken' = DownTaken + 1 /\ DownTold' = DownTold
  BY <1>1, <1>3 DEF DownTaken, DownTold
<1>5. m_rxBuf' \in Seq(Nat) /\ Flowing(m_rxBuf' \o toService', DownTaken', DownTold', sentDown')
  BY <1>1, <1>4, PipeTake
<1>6. DownInv'
  BY <1>1, <1>2, <1>3, <1>5 DEF PipeInv, DownInv
<1>7. UpInv'
  BY <1>1, <1>2, UpUntouched
<1> QED BY <1>1, <1>2, <1>6, <1>7 DEF PipeInv, SentUpStep, SentDownStep

\* The loop takes a message: it is the next one that the node sent.
LEMMA PipeReceiveDown ==
  ASSUME PipeInv, MessageFrame
  PROVE  PipeInv' /\ SentUpStep /\ SentDownStep
<1> DEFINE r == m_noise.recv
           plaintext == decrypt(framePayload(m_rxBuf), r)
           l == Len(sentDown)
<1>1. /\ m_state = "Ready" /\ FrameComplete(m_rxBuf) /\ m_rxBuf' = Remainder(m_rxBuf) /\ plaintext # <<>>
      /\ m_noise' = [m_noise EXCEPT !.recv = r + 1]
      /\ gotDown' = gotDown \o Processed(plaintext)
      /\ UNCHANGED <<encryptionKey, nodeKey, m_state, reading, nodeState, nodeNonce, toNode, toService, sentUp, gotUp, sentDown>>
  BY DEF MessageFrame, TakeFrame, Refused, keys, node
<1>2. /\ r \in Nat /\ r = Len(gotDown) /\ m_rxBuf \in Seq(Nat) /\ toService \in Seq(Nat)
      /\ Plaintexts(sentDown) /\ l \in Nat /\ gotDown \in Seq(Seq(Nat)) /\ sentDown \in Seq(Seq(Nat))
      /\ Clean(sentDown, r) /\ Flowing(m_rxBuf \o toService, 2 + r, DownTold, sentDown)
  BY <1>1 DEF PipeInv, DownInv, DownTaken, Plaintexts
<1>3. DownTold = 2 + l /\ DownTold' = DownTold
  <2>1. DownTold \in Nat /\ 2 + r \in Nat
    BY <1>2 DEF DownTold
  <2>2. 2 + r <= DownTold
    BY <1>2, <2>1, FlowBound
  <2> QED BY <1>1, <1>2, <2>2 DEF DownTold
<1>4. /\ m_noise' \in [action : {"WRITE", "READ", "NONE"}, m_complete : BOOLEAN, send : Nat, recv : Nat]
      /\ m_noise'.send = m_noise.send /\ m_noise'.recv = r + 1
  <2>1. m_noise \in [action : {"WRITE", "READ", "NONE"}, m_complete : BOOLEAN, send : Nat, recv : Nat]
    BY DEF PipeInv
  <2>2. m_noise' = [m_noise EXCEPT !.recv = r + 1] /\ r + 1 \in Nat
    BY <1>1, <1>2
  <2> HIDE DEF r
  <2> QED BY <2>1, <2>2
<1>5. UpInv'
  BY <1>1, <1>4, UpUntouched
<1>6. m_rxBuf' \in Seq(Nat) /\ Flowing(m_rxBuf' \o toService', DownTaken + 1, DownTold', sentDown')
  BY <1>1, <1>3, PipeTake
<1> HIDE DEF r, l, plaintext
<1>7. r < l /\ Processed(plaintext) = <<sentDown[r + 1]>> /\ Clean(sentDown, r + 1)
  <2>1. plaintext = decrypt(framePayload(m_rxBuf), r)
    BY DEF plaintext
  <2>2. Flowing(m_rxBuf \o toService, 2 + r, 2 + Len(sentDown), sentDown)
    BY <1>2, <1>3 DEF l
  <2> QED BY <1>1, <1>2, <2>1, <2>2, FlowDeliver DEF l
<1>8. sentDown[r + 1] \in Seq(Nat)
  <2>1. r + 1 \in 1..l
    BY <1>2, <1>7
  <2> QED BY <1>2, <2>1 DEF l
<1>9. gotDown' = Append(gotDown, sentDown[r + 1]) /\ gotDown' \in Seq(Seq(Nat)) /\ Len(gotDown') = r + 1
  <2>1. gotDown' = gotDown \o <<sentDown[r + 1]>>
    BY <1>1, <1>7
  <2> QED BY <1>2, <1>8, <2>1
<1>10. DownTaken' = DownTaken + 1
  <2>1. DownTaken = 2 + r /\ DownTaken' = 2 + Len(gotDown')
    BY <1>1, <1>2 DEF DownTaken
  <2> QED BY <1>2, <1>9, <2>1
<1>11. DownInv'
  <2>1. Flowing(m_rxBuf' \o toService', DownTaken', DownTold', sentDown')
    BY <1>6, <1>10
  <2>2. Clean(sentDown', Len(gotDown')) /\ m_noise'.recv = Len(gotDown')
    BY <1>1, <1>4, <1>7, <1>9
  <2> QED BY <1>1, <1>6, <1>9, <2>1, <2>2 DEF PipeInv, DownInv
<1>12. Down!Deliver
  BY <1>1, <1>2, <1>7, <1>9 DEF Down!Deliver, l
<1> QED BY <1>1, <1>4, <1>5, <1>11, <1>12 DEF PipeInv, SentUpStep, SentDownStep

\* Every step keeps the invariant and is, in either direction, a step of a pipe.
LEMMA PipeStep ==
  ASSUME PipeInv, [Next]_vars
  PROVE  PipeInv' /\ SentUpStep /\ SentDownStep
<1>1. CASE \E m \in UpMessage : sendMessage(m)
  BY <1>1, PipeSendUp
<1>2. CASE \E m \in DownMessage : NodeSends(m)
  BY <1>2, PipeSendDown
<1>3. CASE NodeHello \/ NodeHandshake \/ NodePretends
  BY <1>3, PipeAnswer
<1>4. CASE NodeReceives
  BY <1>4, PipeReceiveUp
<1>5. CASE \E n \in 1..Len(toService) : onReadyRead(n)
  BY <1>5, PipeRead
<1>6. CASE ServerHelloFrame \/ NoiseHandshakeFrame
  BY <1>6, PipeHandshake
<1>7. CASE MessageFrame
  BY <1>7, PipeReceiveDown
<1>8. CASE LoopReturns \/ UNCHANGED vars
  <2>1. UNCHANGED <<encryptionKey, nodeKey, m_state, m_noise, m_rxBuf, nodeState, nodeNonce, toNode, toService, sentUp, gotUp, sentDown, gotDown>>
    BY <1>8 DEF LoopReturns, vars, keys, service, node
  <2>2. DownInv' /\ UpInv'
    BY <2>1, DownUntouched, UpUntouched
  <2> QED BY <2>1, <2>2 DEF PipeInv, SentUpStep, SentDownStep
<1>9. CASE GiveUp \/ Disconnected
  <2>1. /\ UNCHANGED <<encryptionKey, nodeKey, m_noise, m_rxBuf, nodeState, nodeNonce, toNode, toService, sentUp, gotUp, sentDown, gotDown>>
        /\ m_state' = "Closed"
    BY <1>9 DEF GiveUp, Disconnected, keys, node
  <2>2. DownInv' /\ UpInv'
    BY <2>1, DownGivenUp, UpUntouched
  <2> QED BY <2>1, <2>2 DEF PipeInv, SentUpStep, SentDownStep
<1> QED BY <1>1, <1>2, <1>3, <1>4, <1>5, <1>6, <1>7, <1>8, <1>9 DEF Next, Reads, NodeReads

\* In both directions the connection is a pipe: whatever the chunks in which bytes
\* arrive, and also after a message that was too long to be sent, the messages
\* processed are those sent, unchanged, one by one and in order.
THEOREM ConnectionIsAPipe == Spec => InOrder
<1>1. Init => PipeInv /\ sentUp = <<>> /\ gotUp = <<>> /\ sentDown = <<>> /\ gotDown = <<>>
  BY InitPipe DEF Init
<1>2. PipeInv /\ [Next]_vars => PipeInv'
  BY PipeStep
<1>3. PipeInv /\ [Next]_vars => [Up!Send \/ Up!Deliver]_<<sentUp, gotUp>>
  BY PipeStep DEF SentUpStep
<1>4. PipeInv /\ [Next]_vars => [Down!Send \/ Down!Deliver]_<<sentDown, gotDown>>
  BY PipeStep DEF SentDownStep
<1> QED BY <1>1, <1>2, <1>3, <1>4, PTL DEF Spec, InOrder, Up!Spec, Down!Spec

-----------------------------------------------------------------------------
(***************************************************************************)
(* The fields of a message                                                 *)
(***************************************************************************)
\* What the loop of onReadyRead makes of the bytes of a message: its type from the
\* first two, the length of its payload from the next two, its fields from the rest.
LEMMA ParsedBack ==
  ASSUME NEW m \in DownMessage, Len(inner(m)) + 1 < Limit
  PROVE  Parsed(inner(m)) = m
<1> DEFINE e == encode(m.fields)
           g == HighLow(m.type)
           h == HighLow(Len(e))
           c == g \o h
           p == c \o e
           l == Len(e)
           d == p[3] * Base + p[4]
<1>1. /\ m = [type |-> m.type, fields |-> m.fields]
      /\ m.type \in Nat /\ m.type < Limit /\ m.fields \in Seq(Encodable) /\ e \in Seq(Byte)
  BY MessageParts
<1>2. e \in Seq(Nat) /\ l \in Nat
  <2>1. e \in Seq(Nat)
    BY <1>1, Bases, WiderAlphabet
  <2> QED BY <2>1
<1>3. inner(m) = p
  BY DEF inner
<1>4. g \in Seq(Nat) /\ Len(g) = 2 /\ g[1] * Base + g[2] = m.type
  BY <1>1, HighLowSays
<1>5. h \in Seq(Nat) /\ Len(h) = 2
  <2>1. h \in Seq(Byte)
    BY <1>2, HighLowBytes
  <2> QED BY <2>1, Bases, WiderAlphabet DEF HighLow
<1>6. decode(e) = m.fields
  BY <1>1, DecodeOfEncode
<1>7. l < Limit => h[1] * Base + h[2] = l
  BY <1>2, HighLowSays
<1> HIDE DEF e, g, h
<1>8. c \in Seq(Nat) /\ Len(c) = 4 /\ c[1] = g[1] /\ c[2] = g[2] /\ c[3] = h[1] /\ c[4] = h[2]
  <2>1. /\ c \in Seq(Nat) /\ Len(c) = Len(g) + Len(h)
        /\ \A x \in 1..Len(g) : c[x] = g[x]
        /\ \A x \in 1..Len(h) : c[Len(g) + x] = h[x]
    BY <1>4, <1>5, Concatenated, Zenon
  <2> HIDE DEF c
  <2>2. 1 \in 1..2 /\ 2 \in 1..2 /\ 2 + 1 = 3 /\ 2 + 2 = 4
    OBVIOUS
  <2> QED BY <1>4, <1>5, <2>1, <2>2
<1> HIDE DEF c
<1>9. /\ p \in Seq(Nat) /\ Len(p) = 4 + l
      /\ (\A x \in 1..4 : p[x] = c[x]) /\ (\A x \in 1..l : p[4 + x] = e[x])
  <2>1. /\ p \in Seq(Nat) /\ Len(p) = Len(c) + Len(e)
        /\ \A x \in 1..Len(c) : p[x] = c[x]
        /\ \A x \in 1..Len(e) : p[Len(c) + x] = e[x]
    BY <1>2, <1>8, Concatenated, Zenon
  <2> QED BY <1>8, <2>1, Zenon
<1> HIDE DEF p
<1>10. p[1] = g[1] /\ p[2] = g[2] /\ p[3] = h[1] /\ p[4] = h[2]
  <2>1. 1 \in 1..4 /\ 2 \in 1..4 /\ 3 \in 1..4 /\ 4 \in 1..4
    OBVIOUS
  <2> QED BY <1>8, <1>9, <2>1
<1>11. l < Limit
  <2>1. Limit \in Nat
    BY Bases DEF Limit
  <2>2. (4 + l) + 1 < Limit
    BY <1>3, <1>9
  <2> HIDE DEF l
  <2> QED BY <1>2, <2>1, <2>2
<1>12. d = l
  BY <1>7, <1>10, <1>11
<1> HIDE DEF d
<1>13. (IF 4 + d > Len(p) THEN Len(p) ELSE 4 + d) = 4 + l
  <2> HIDE DEF l
  <2> QED BY <1>2, <1>9, <1>12
<1>14. SubSeq(p, 5, 4 + l) = e
  <2> DEFINE s == SubSeq(p, 5, 4 + l)
  <2> HIDE DEF l
  <2>1. s = [x \in 1..l |-> p[4 + x]]
    <3>1. s = [x \in 1..((4 + l) - 5 + 1) |-> p[5 + x - 1]]
      BY <1>2, <1>9
    <3>2. (4 + l) - 5 + 1 = l /\ \A x \in 1..l : 5 + x - 1 = 4 + x
      BY <1>2
    <3> HIDE DEF s
    <3> QED BY <3>1, <3>2
  <2> HIDE DEF s
  <2>2. \A x \in 1..l : e[x] \in Nat
    BY <1>2 DEF l
  <2>3. s = [x \in 1..l |-> e[x]]
    BY <1>9, <2>1
  <2>4. s \in Seq(Nat) /\ Len(s) = l
    <3>1. s \in Seq(Nat)
      BY <1>2, <2>2, <2>3
    <3>2. Len(s) = l
      BY <1>2, <2>3
    <3> QED BY <3>1, <3>2
  <2>5. s = e
    <3>1. Len(s) = Len(e) /\ \A x \in 1..Len(s) : s[x] = e[x]
      BY <2>3, <2>4 DEF l
    <3> QED BY <1>2, <2>4, <3>1, SeqEqual
  <2> QED BY <2>5 DEF s
<1>15. p[1] * Base + p[2] = m.type
  BY <1>4, <1>10
<1> HIDE DEF l
<1>16. Parsed(p) = [type |-> p[1] * Base + p[2],
                    fields |-> decode(SubSeq(p, 5, IF 4 + d > Len(p) THEN Len(p) ELSE 4 + d))]
  BY Zenon DEF Parsed, d
<1>17. Parsed(p) = [type |-> m.type, fields |-> m.fields]
  BY <1>6, <1>13, <1>14, <1>15, <1>16, Zenon
<1> QED BY <1>1, <1>3, <1>17, Zenon

\* A prefix of the fields, as the decoder of a cut payload gives it.
LEMMA CutPrefix ==
  ASSUME NEW m \in DownMessage, NEW n \in 0..Len(encode(m.fields))
  PROVE  IsPrefixOf(decode(SubSeq(encode(m.fields), 1, n)), m.fields)
<1> DEFINE f == m.fields
<1>1. f \in Seq(Encodable)
  BY MessageParts
<1> HIDE DEF f
<1>2. PICK K \in 0..Len(f) : decode(SubSeq(encode(f), 1, n)) = SubSeq(f, 1, K)
  BY <1>1, DecodeOfCut DEF f
<1>3. Len(SubSeq(f, 1, K)) = K /\ K <= Len(f)
  BY <1>1
<1> DEFINE s == SubSeq(f, 1, K)
<1>4. IsPrefixOf(s, f)
  <2>1. Len(s) = K /\ K <= Len(f) /\ s = SubSeq(f, 1, K)
    BY <1>3
  <2> HIDE DEF s
  <2> QED BY <2>1 DEF IsPrefixOf
<1> QED BY <1>2, <1>4 DEF f

\* The bytes sent and processed are those of messages of the node, and the ones
\* processed fitted a frame.
MessagesInv ==
  /\ \A i \in 1..Len(sentDown) : \E m \in DownMessage : sentDown[i] = inner(m)
  /\ \A i \in 1..Len(gotDown) : \E m \in DownMessage : gotDown[i] = inner(m) /\ Len(inner(m)) + 1 < Limit

LEMMA MessagesStep ==
  ASSUME PipeInv, MessagesInv, [Next]_vars
  PROVE  MessagesInv'
<1>1. PipeInv' /\ SentDownStep
  BY PipeStep
<1>2. sentDown \in Seq(Seq(Nat)) /\ gotDown \in Seq(Seq(Nat)) /\ Len(sentDown) \in Nat /\ Len(gotDown) \in Nat
  BY DEF PipeInv, DownInv, Plaintexts
<1>3. CASE \E m \in DownMessage : NodeSends(m)
  <2>1. PICK m \in DownMessage : NodeSends(m)
    BY <1>3
  <2>2. sentDown' = Append(sentDown, inner(m)) /\ gotDown' = gotDown
    BY <2>1 DEF NodeSends
  <2> DEFINE x == inner(m)
  <2>3. x \in Seq(Nat)
    BY InnerPlaintext
  <2>4. x = inner(m)
    OBVIOUS
  <2> HIDE DEF x
  <2>5. Len(sentDown') = Len(sentDown) + 1 /\ sentDown'[Len(sentDown) + 1] = x
        /\ \A i \in 1..Len(sentDown) : sentDown'[i] = sentDown[i]
    BY <1>2, <2>2, <2>3, <2>4
  <2>6. ASSUME NEW i \in 1..(Len(sentDown) + 1) PROVE \E k \in DownMessage : sentDown'[i] = inner(k)
    <3>1. CASE i = Len(sentDown) + 1
      BY <2>4, <2>5, <3>1
    <3>2. CASE i # Len(sentDown) + 1
      <4>1. i \in 1..Len(sentDown)
        BY <1>2, <3>2
      <4> QED BY <2>5, <4>1 DEF MessagesInv
    <3> QED BY <3>1, <3>2
  <2>7. \A i \in 1..Len(sentDown') : \E k \in DownMessage : sentDown'[i] = inner(k)
    BY <2>5, <2>6
  <2> QED BY <2>2, <2>7 DEF MessagesInv
<1>4. CASE MessageFrame
  <2>1. sentDown' = sentDown /\ m_state' = m_state /\ m_state = "Ready"
    BY <1>4 DEF MessageFrame
  <2>2. CASE Down!Deliver
    <3> DEFINE n == Len(gotDown)
               x == sentDown[n + 1]
    <3>1. n < Len(sentDown) /\ gotDown' = Append(gotDown, x)
      BY <2>2 DEF Down!Deliver
    <3>2. n + 1 \in 1..Len(sentDown)
      BY <1>2, <3>1
    <3>3. x \in Seq(Nat)
      BY <1>2, <3>2
    <3>4. PICK m \in DownMessage : x = inner(m)
      BY <3>2 DEF MessagesInv
    <3> HIDE DEF x
    <3>5. Len(gotDown') = n + 1 /\ gotDown'[n + 1] = x /\ \A i \in 1..n : gotDown'[i] = gotDown[i]
      BY <1>2, <3>1, <3>3
    <3>6. Clean(sentDown, n + 1)
      <4>1. m_state' # "Closed"
        BY <2>1
      <4>2. Clean(sentDown, Len(gotDown))'
        BY <1>1, <4>1 DEF PipeInv, DownInv
      <4>3. Clean(sentDown', Len(gotDown'))
        BY <4>2 DEF Clean
      <4> QED BY <2>1, <3>5, <4>3
    <3>7. Len(x) + 1 < Limit
      <4>1. n + 1 \in 1..(n + 1)
        BY <1>2
      <4> QED BY <3>6, <4>1 DEF Clean, x
    <3>8. ASSUME NEW i \in 1..(n + 1)
          PROVE  \E k \in DownMessage : gotDown'[i] = inner(k) /\ Len(inner(k)) + 1 < Limit
      <4>1. CASE i = n + 1
        BY <3>4, <3>5, <3>7, <4>1
      <4>2. CASE i # n + 1
        <5>1. i \in 1..n
          BY <1>2, <4>2
        <5> QED BY <3>5, <5>1 DEF MessagesInv
      <4> QED BY <4>1, <4>2
    <3>9. \A i \in 1..Len(gotDown') : \E k \in DownMessage : gotDown'[i] = inner(k) /\ Len(inner(k)) + 1 < Limit
      BY <3>5, <3>8
    <3> QED BY <2>1, <3>9 DEF MessagesInv
  <2>3. CASE gotDown' = gotDown
    BY <2>1, <2>3 DEF MessagesInv
  <2> QED BY <1>1, <2>2, <2>3 DEF SentDownStep, Down!Send
<1>5. CASE UNCHANGED <<sentDown, gotDown>>
  BY <1>5 DEF MessagesInv
<1>6. (\E m \in DownMessage : NodeSends(m)) \/ MessageFrame \/ UNCHANGED <<sentDown, gotDown>>
  <2>1. CASE \E m \in UpMessage : sendMessage(m)
    BY <2>1 DEF sendMessage
  <2>2. CASE \E n \in 1..Len(toService) : onReadyRead(n)
    BY <2>2 DEF onReadyRead
  <2>3. CASE LoopReturns \/ GiveUp \/ Disconnected \/ ServerHelloFrame \/ NoiseHandshakeFrame
    BY <2>3 DEF LoopReturns, GiveUp, Disconnected, ServerHelloFrame, NoiseHandshakeFrame
  <2>4. CASE NodeHello \/ NodeHandshake \/ NodePretends \/ NodeReceives
    BY <2>4 DEF NodeHello, NodeHandshake, NodePretends, NodeReceives
  <2>5. CASE UNCHANGED vars
    BY <2>5 DEF vars
  <2> QED BY <2>1, <2>2, <2>3, <2>4, <2>5 DEF Next, Reads, NodeReads
<1> QED BY <1>3, <1>4, <1>5, <1>6

\* A message that the service processes has the type and the fields that the node
\* sent, and a payload cut short anywhere would have given the first of them.
THEOREM FieldsAreReadAsWritten == Spec => []ReadAsWritten
<1>1. Init => PipeInv /\ MessagesInv
  <2> SUFFICES ASSUME Init PROVE PipeInv /\ MessagesInv
    OBVIOUS
  <2>1. PipeInv /\ sentDown = <<>> /\ gotDown = <<>>
    BY InitPipe DEF Init
  <2>2. Len(<<>>) = 0 /\ 1..0 = {}
    OBVIOUS
  <2> QED BY <2>1, <2>2 DEF MessagesInv
<1>2. PipeInv /\ MessagesInv /\ [Next]_vars => PipeInv' /\ MessagesInv'
  BY PipeStep, MessagesStep
<1>3. PipeInv /\ MessagesInv => ReadAsWritten
  <2> SUFFICES ASSUME PipeInv, MessagesInv, NEW i \in DOMAIN gotDown
               PROVE  \E m \in DownMessage :
                        /\ Parsed(gotDown[i]) = m
                        /\ \A n \in 0..Len(encode(m.fields)) :
                             IsPrefixOf(decode(SubSeq(encode(m.fields), 1, n)), m.fields)
    BY DEF ReadAsWritten
  <2>1. i \in 1..Len(gotDown)
    <3>1. gotDown \in Seq(Seq(Nat))
      BY DEF PipeInv, DownInv
    <3> QED BY <3>1
  <2>2. PICK m \in DownMessage : gotDown[i] = inner(m) /\ Len(inner(m)) + 1 < Limit
    BY <2>1 DEF MessagesInv
  <2>3. Parsed(gotDown[i]) = m
    BY <2>2, ParsedBack
  <2>4. ASSUME NEW n \in 0..Len(encode(m.fields))
        PROVE  IsPrefixOf(decode(SubSeq(encode(m.fields), 1, n)), m.fields)
    BY CutPrefix
  <2> QED BY <2>3, <2>4
<1> QED BY <1>1, <1>2, <1>3, PTL DEF Spec
=============================================================================
