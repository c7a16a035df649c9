------------------------- MODULE RecordParserProofs -------------------------
(***************************************************************************)
(* Proofs about the record parser, for any messages and any captures, and  *)
(* about the dates it prints, for any day number.                          *)
(*                                                                         *)
(* What is said of all sequences is proved from the least element of a set *)
(* of naturals, without an induction theorem (HandshakeCodecProofs).       *)
(***************************************************************************)
EXTENDS RecordParser, HandshakeCodecProofs, CivilDate, FiniteSetTheorems

-----------------------------------------------------------------------------
\* The bytes of a record.

\* The length of a concatenation, and what it holds.
LEMMA JoinLength ==
  ASSUME NEW s \in Seq(Byte), NEW t \in Seq(Byte),
         NEW m \in Nat, NEW n \in Nat, Len(s) = m, Len(t) = n
  PROVE  Len(s \o t) = m + n
OBVIOUS

\* Its beginning.
LEMMA JoinLeft ==
  ASSUME NEW s \in Seq(Byte), NEW t \in Seq(Byte),
         NEW m \in Nat, NEW n \in Nat, Len(s) = m, Len(t) = n
  PROVE  \A i \in 1..m : (s \o t)[i] = s[i]
OBVIOUS

\* Its end.
LEMMA JoinRight ==
  ASSUME NEW s \in Seq(Byte), NEW t \in Seq(Byte),
         NEW m \in Nat, NEW n \in Nat, Len(s) = m, Len(t) = n
  PROVE  \A i \in m + 1..m + n : (s \o t)[i] = t[i - m]
OBVIOUS

\* The same, of one place.
LEMMA JoinedEnd ==
  ASSUME NEW s \in Seq(Byte), NEW t \in Seq(Byte),
         NEW m \in Nat, NEW n \in Nat, Len(s) = m, Len(t) = n,
         NEW z, z = s \o t, NEW i \in m + 1..m + n
  PROVE  z[i] = t[i - m]
<1>1. (s \o t)[i] = t[i - m]
  BY JoinRight
<1> QED
  BY <1>1, Zenon

\* What follows one byte.
LEMMA AfterOne ==
  ASSUME NEW w \in Seq(Byte), NEW q \in Seq(Byte), NEW k \in Nat, Len(w) = 1, Len(q) = k
  PROVE  /\ w \o q \in Seq(Byte)
         /\ Len(w \o q) = 1 + k
         /\ \A i \in 1..1 : (w \o q)[i] = w[i]
         /\ \A i \in 2..1 + k : (w \o q)[i] = q[i - 1]
<1>1. PICK m \in Nat : m = 1
  OBVIOUS
<1>2. Len(w) = m
  BY <1>1
<1> DEFINE z == w \o q
<1>3. z \in Seq(Byte)
  OBVIOUS
<1>4. Len(z) = m + k
  BY <1>2, JoinLength
<1>5. \A i \in 1..m : z[i] = w[i]
  BY <1>2, JoinLeft
<1>6. \A i \in m + 1..m + k : z[i] = q[i - m]
  BY <1>2, JoinRight
<1> HIDE DEF z
<1>7. Len(z) = 1 + k
  BY <1>1, <1>4
<1>8. \A i \in 1..1 : z[i] = w[i]
  BY <1>1, <1>5
<1>9. \A i \in 2..1 + k : z[i] = q[i - 1]
  BY <1>1, <1>6
<1> QED
  BY <1>3, <1>7, <1>8, <1>9 DEF z

\* Two bytes.
LEMMA AfterTwo ==
  ASSUME NEW w \in Seq(Byte), NEW q \in Seq(Byte), NEW k \in Nat, Len(w) = 2, Len(q) = k
  PROVE  /\ w \o q \in Seq(Byte)
         /\ Len(w \o q) = 2 + k
         /\ \A i \in 1..2 : (w \o q)[i] = w[i]
         /\ \A i \in 3..2 + k : (w \o q)[i] = q[i - 2]
<1>1. PICK m \in Nat : m = 2
  OBVIOUS
<1>2. Len(w) = m
  BY <1>1
<1> DEFINE z == w \o q
<1>3. z \in Seq(Byte)
  OBVIOUS
<1>4. Len(z) = m + k
  BY <1>2, JoinLength
<1>5. \A i \in 1..m : z[i] = w[i]
  BY <1>2, JoinLeft
<1>6. \A i \in m + 1..m + k : z[i] = q[i - m]
  BY <1>2, JoinRight
<1> HIDE DEF z
<1>7. Len(z) = 2 + k
  BY <1>1, <1>4
<1>8. \A i \in 1..2 : z[i] = w[i]
  BY <1>1, <1>5
<1>9. \A i \in 3..2 + k : z[i] = q[i - 2]
  BY <1>1, <1>6
<1> QED
  BY <1>3, <1>7, <1>8, <1>9 DEF z

\* Three.
LEMMA AfterThree ==
  ASSUME NEW w \in Seq(Byte), NEW q \in Seq(Byte), NEW k \in Nat, Len(w) = 3, Len(q) = k
  PROVE  /\ w \o q \in Seq(Byte)
         /\ Len(w \o q) = 3 + k
         /\ \A i \in 1..3 : (w \o q)[i] = w[i]
         /\ \A i \in 4..3 + k : (w \o q)[i] = q[i - 3]
<1>1. PICK m \in Nat : m = 3
  OBVIOUS
<1>2. Len(w) = m
  BY <1>1
<1> DEFINE z == w \o q
<1>3. z \in Seq(Byte)
  OBVIOUS
<1>4. Len(z) = m + k
  BY <1>2, JoinLength
<1>5. \A i \in 1..m : z[i] = w[i]
  BY <1>2, JoinLeft
<1>6. \A i \in m + 1..m + k : z[i] = q[i - m]
  BY <1>2, JoinRight
<1> HIDE DEF z
<1>7. Len(z) = 3 + k
  BY <1>1, <1>4
<1>8. \A i \in 1..3 : z[i] = w[i]
  BY <1>1, <1>5
<1>9. \A i \in 4..3 + k : z[i] = q[i - 3]
  BY <1>1, <1>6
<1> QED
  BY <1>3, <1>7, <1>8, <1>9 DEF z

\* The number two bytes make.
TwoBytes(hi, lo) == 256 * hi + lo

\* The two bytes of a length.
LEMMA ShortLayout ==
  ASSUME NEW p \in Seq(Byte), NEW n \in Nat, Len(p) = n, n < ShortLimit
  PROVE  /\ Short(p) \in Seq(Byte)
         /\ Len(Short(p)) = 2 + n
         /\ TwoBytes(Short(p)[1], Short(p)[2]) = n
         /\ \A i \in 3..2 + n : Short(p)[i] = p[i - 2]
<1> DEFINE hi == n \div 256
           lo == n % 256
<1>1. hi \in Byte /\ lo \in Byte /\ TwoBytes(hi, lo) = n
  BY SMT DEF TwoBytes, Byte, ShortLimit
<1>2. Short(p) = <<hi, lo>> \o p
  BY Zenon DEF Short, U16
<1> HIDE DEF hi, lo
<1> DEFINE h == <<hi, lo>>
           z == h \o p
<1>3. h \in Seq(Byte) /\ Len(h) = 2 /\ h[1] = hi /\ h[2] = lo
  BY <1>1
<1>4. Short(p) = z
  BY <1>2, Zenon
<1> HIDE DEF h
<1>5. /\ z \in Seq(Byte)
      /\ Len(z) = 2 + n
      /\ \A i \in 1..2 : z[i] = h[i]
      /\ \A i \in 3..2 + n : z[i] = p[i - 2]
  BY <1>3, AfterTwo, Zenon
<1> HIDE DEF z
<1>6. z[1] = hi /\ z[2] = lo
  BY <1>3, <1>5
<1>7. TwoBytes(z[1], z[2]) = n
  BY <1>1, <1>6, Zenon
<1> QED
  BY <1>4, <1>5, <1>7, Zenon

\* What is captured, and what is to be read from it.
Records == [type : RecordTypes, message : Messages]
PayloadOf(r) == PayloadBytes(r.message)

\* A payload is bytes, and its length fits.
LEMMA PayloadFits ==
  ASSUME NEW r \in Records
  PROVE  PayloadOf(r) \in Seq(Byte) /\ Len(PayloadOf(r)) < ShortLimit
<1>1. r.message \in Messages
  BY DEF Records
<1> QED
  BY <1>1, CaptureAssumption, Zenon DEF PayloadOf

\* What three bytes in front of a sequence make of it.
LEMMA Headed ==
  ASSUME NEW q \in Seq(Byte), NEW k \in Nat, Len(q) = k,
         NEW h \in Seq(Byte), NEW v \in Seq(Byte), Len(h) = 1, Len(v) = 2
  PROVE  /\ (h \o v) \o q \in Seq(Byte)
         /\ Len((h \o v) \o q) = 3 + k
         /\ ((h \o v) \o q)[1] = h[1]
         /\ \A i \in 4..3 + k : ((h \o v) \o q)[i] = q[i - 3]
<1> DEFINE w == h \o v
           z == w \o q
<1>1. 2 \in Nat
  OBVIOUS
<1>2. /\ w \in Seq(Byte)
      /\ Len(w) = 1 + 2
      /\ \A i \in 1..1 : w[i] = h[i]
  BY <1>1, AfterOne, Zenon
<1> HIDE DEF w
<1>3. Len(w) = 3
  BY <1>2
<1>6. w \in Seq(Byte)
  BY <1>2, Zenon
<1>7. w[1] = h[1]
  BY <1>2
<1>4. /\ z \in Seq(Byte)
      /\ Len(z) = 3 + k
      /\ \A i \in 1..3 : z[i] = w[i]
      /\ \A i \in 4..3 + k : z[i] = q[i - 3]
  BY <1>3, <1>6, AfterThree, Zenon
<1> HIDE DEF z
<1>5. z[1] = h[1]
  BY <1>4, <1>7
<1> QED
  BY <1>4, <1>5, Zenon DEF w, z

\* A record is its type, two bytes of version, two of length and its payload.
LEMMA RecordLayout ==
  ASSUME NEW r \in Records, NEW p \in Seq(Byte), p = PayloadOf(r),
         NEW n \in Nat, n = Len(p)
  PROVE  /\ RecordBytes(r) \in Seq(Byte)
         /\ Len(RecordBytes(r)) = 5 + n
         /\ RecordBytes(r)[1] = r.type
         /\ TwoBytes(RecordBytes(r)[4], RecordBytes(r)[5]) = n
         /\ \A i \in 6..5 + n : RecordBytes(r)[i] = p[i - 5]
<1> DEFINE q == Short(p)
           a == RecordBytes(r)
<1>1. n < ShortLimit
  BY PayloadFits
<1>2. r.type \in Byte
  BY DEF Records, RecordTypes, Abort, Handshake, Record, System, Byte
<1>3. /\ q \in Seq(Byte) /\ Len(q) = 2 + n
      /\ TwoBytes(q[1], q[2]) = n
      /\ \A i \in 3..2 + n : q[i] = p[i - 2]
  <2>1. Len(p) = n
    OBVIOUS
  <2> QED
    BY <1>1, <2>1, ShortLayout, Zenon DEF q
<1> DEFINE h == <<r.type>>
           v == U16(ProtocolVersion)
<1>4. a = (h \o v) \o q
  BY Zenon DEF RecordBytes, PayloadOf
<1>5. h \in Seq(Byte) /\ Len(h) = 1 /\ h[1] = r.type
  BY <1>2
<1>13. v \in Seq(Byte) /\ Len(v) = 2
  <2>1. v = <<241, 4>>
    BY DEF U16, ProtocolVersion
  <2>2. 241 \in Byte /\ 4 \in Byte
    BY DEF Byte
  <2> QED
    BY <2>1, <2>2
<1>6. PICK k \in Nat : k = 2 + n
  OBVIOUS
<1> HIDE DEF q, a, h, v
<1>7. /\ a \in Seq(Byte)
      /\ Len(a) = 3 + (2 + n)
      /\ a[1] = r.type
      /\ \A i \in 4..3 + (2 + n) : a[i] = q[i - 3]
  <2>1. q \in Seq(Byte) /\ Len(q) = k
    BY <1>3, <1>6
  <2>2. h \in Seq(Byte) /\ Len(h) = 1
    BY <1>5, Zenon
  <2> DEFINE z == (h \o v) \o q
  <2>3. /\ z \in Seq(Byte)
        /\ Len(z) = 3 + k
        /\ z[1] = h[1]
        /\ \A i \in 4..3 + k : z[i] = q[i - 3]
    BY <1>13, <2>1, <2>2, Headed, SMTT(30)
  <2>4. z = a
    BY <1>4, Zenon
  <2> HIDE DEF z
  <2> QED
    BY <1>5, <1>6, <2>3, <2>4
<1>8. Len(a) = 5 + n
  BY <1>7
<1>9. \A i \in 4..5 + n : a[i] = q[i - 3]
  BY <1>7
<1>10. a[4] = q[1] /\ a[5] = q[2]
  <2>1. 4 \in 4..5 + n /\ 5 \in 4..5 + n /\ 4 - 3 = 1 /\ 5 - 3 = 2
    OBVIOUS
  <2> QED
    BY <1>9, <2>1, Zenon
<1>11. \A i \in 6..5 + n : a[i] = p[i - 5]
  <2>1. ASSUME NEW i \in 6..5 + n PROVE a[i] = p[i - 5]
    <3> DEFINE j == i - 3
    <3>1. j \in 3..2 + n /\ j - 2 = i - 5
      OBVIOUS
    <3>2. a[i] = q[j]
      BY <1>9
    <3> HIDE DEF j
    <3>3. q[j] = p[j - 2]
      BY <1>3, <3>1, Zenon
    <3> QED
      BY <3>1, <3>2, <3>3, Zenon
  <2> QED
    BY <2>1
<1>12. TwoBytes(a[4], a[5]) = n
  BY <1>3, <1>10, Zenon
<1> QED
  BY <1>7, <1>8, <1>11, <1>12, Zenon DEF a
-----------------------------------------------------------------------------
\* Where the records of a capture are.

\* The bytes of the first records of a capture.
Upto(c, i) == StreamOf(SubSeq(c, 1, i))

\* The records of a capture.
LEMMA CaptureRecords ==
  ASSUME NEW c \in Captures
  PROVE  /\ c \in Seq(Records) /\ Len(c) \in Nat
         /\ \A i \in 1..Len(c) : c[i] \in Records /\ RecordBytes(c[i]) \in Seq(Byte)
<1>1. c \in Seq(Records)
  BY CaptureAssumption DEF Records
<1>2. ASSUME NEW i \in 1..Len(c) PROVE c[i] \in Records /\ RecordBytes(c[i]) \in Seq(Byte)
  <2>1. c[i] \in Records
    BY <1>1
  <2>2. PayloadOf(c[i]) \in Seq(Byte)
    BY <2>1, PayloadFits
  <2>3. Len(PayloadOf(c[i])) \in Nat
    BY <2>2
  <2> QED
    BY <2>1, <2>2, <2>3, RecordLayout, Zenon
<1> QED
  BY <1>1, <1>2

\* Each record's bytes are appended to those before it.
LEMMA Boundaries ==
  ASSUME NEW c \in Captures, NEW n \in Nat, n = Len(c)
  PROVE  /\ Upto(c, 0) = <<>>
         /\ \A i \in 0..n : Upto(c, i) \in Seq(Byte)
         /\ \A i \in 1..n : Upto(c, i) = Upto(c, i - 1) \o RecordBytes(c[i])
         /\ Upto(c, n) = StreamOf(c)
<1> DEFINE V == Seq(Byte)
           s == [x \in (1..n) \X V |-> x[2] \o RecordBytes(c[x[1]])]
<1>1. s \in [(1..n) \X V -> V]
  <2>1. ASSUME NEW x \in (1..n) \X V PROVE x[2] \o RecordBytes(c[x[1]]) \in V
    <3>1. x[2] \in Seq(Byte) /\ x[1] \in 1..Len(c)
      OBVIOUS
    <3>2. RecordBytes(c[x[1]]) \in Seq(Byte)
      BY <3>1, CaptureRecords, Zenon
    <3> QED
      BY <3>1, <3>2
  <2> QED
    BY <2>1, Zenon
<1>2. <<>> \in V
  OBVIOUS
<1>3. PICK f \in [0..n -> V] : Iterates(f, s, <<>>, n)
  <2> HIDE DEF s, V
  <2> QED
    BY <1>1, <1>2, Iteration, Zenon
<1>4. f[0] = <<>>
  BY <1>3, Zenon DEF Iterates
<1>5. ASSUME NEW i \in 1..n PROVE f[i] = f[i - 1] \o RecordBytes(c[i])
  <2>1. i - 1 \in 0..n
    OBVIOUS
  <2>2. f[i - 1] \in V
    BY <1>3, <2>1, Zenon
  <2> DEFINE x == <<i, f[i - 1]>>
  <2>3. x \in (1..n) \X V /\ x[1] = i /\ x[2] = f[i - 1]
    <3> HIDE DEF V
    <3> QED
      BY <2>2
  <2>4. f[i] = s[x]
    BY <1>3, Zenon DEF Iterates
  <2> HIDE DEF x
  <2>5. s[x] = x[2] \o RecordBytes(c[x[1]])
    BY <2>3, Zenon
  <2> QED
    BY <2>3, <2>4, <2>5, Zenon
<1> HIDE DEF s
<1>6. c \in Seq(Records) /\ \A i \in 1..n : RecordBytes(c[i]) \in Seq(Byte)
  BY CaptureRecords
<1>7. Upto(c, 0) = <<>>
  <2> DEFINE e == SubSeq(c, 1, 0)
             g == [k \in DOMAIN e |-> RecordBytes(e[k])]
  <2>1. e = <<>>
    BY <1>6
  <2>2. g = <<>> /\ Len(g) = 0
    <3> HIDE DEF e
    <3> QED
      BY <2>1
  <2>3. FlattenSeq(g) = g
    <3> HIDE DEF g
    <3> QED
      BY <2>2, Zenon DEF FlattenSeq
  <2>4. Upto(c, 0) = FlattenSeq(g)
    BY Zenon DEF Upto, StreamOf
  <2> HIDE DEF g
  <2> QED
    BY <2>2, <2>3, <2>4, Zenon
<1>8. ASSUME NEW i \in 1..n PROVE Upto(c, i) = f[i]
  <2> DEFINE e == SubSeq(c, 1, i)
             g == [k \in DOMAIN e |-> RecordBytes(e[k])]
  <2>1. e \in Seq(Records) /\ Len(e) = i /\ DOMAIN e = 1..i /\ \A k \in 1..i : e[k] = c[k]
    BY <1>6
  <2> HIDE DEF e
  <2>2. DOMAIN g = 1..i /\ \A k \in 1..i : g[k] = RecordBytes(c[k])
    BY <2>1, Zenon
  <2>3. g \in Seq(Seq(Byte))
    <3>1. g \in [1..i -> Seq(Byte)]
      <4>1. \A k \in 1..i : k \in 1..n
        OBVIOUS
      <4>2. \A k \in 1..i : RecordBytes(e[k]) \in Seq(Byte)
        BY <1>6, <2>1, <4>1, Zenon
      <4> QED
        BY <2>1, <4>2, Zenon
    <3> HIDE DEF g
    <3> QED
      BY <3>1
  <2> HIDE DEF g
  <2>4. Len(g) = i
    BY <2>2, <2>3
  <2>5. f[1] = g[1]
    <3>1. 1 \in 1..i /\ 1 \in 1..n /\ 1 - 1 = 0
      OBVIOUS
    <3>2. f[1] = f[0] \o RecordBytes(c[1])
      BY <1>5, <3>1, Zenon
    <3>3. RecordBytes(c[1]) \in Seq(Byte)
      BY <1>6, <3>1, Zenon
    <3>4. <<>> \o RecordBytes(c[1]) = RecordBytes(c[1])
      BY <3>3
    <3> QED
      BY <1>4, <2>2, <3>1, <3>2, <3>4, Zenon
  <2>6. \A k \in 2..i : f[k] = f[k - 1] \o g[k]
    <3>1. \A k \in 2..i : k \in 1..n /\ k \in 1..i
      OBVIOUS
    <3> QED
      BY <1>5, <2>2, <3>1, Zenon
  <2>7. FlattenSeq(g) = f[i]
    <3>1. i \in Nat /\ i >= 1
      OBVIOUS
    <3>2. Grows(f, g, i)
      BY <2>5, <2>6, Zenon DEF Grows
    <3> QED
      BY <2>4, <3>1, <3>2, FlattenIs, Zenon
  <2>8. Upto(c, i) = FlattenSeq(g)
    BY Zenon DEF Upto, StreamOf, g, e
  <2> QED
    BY <2>7, <2>8, Zenon
<1>9. \A i \in 0..n : Upto(c, i) = f[i]
  <2>1. \A i \in 0..n : i = 0 \/ i \in 1..n
    OBVIOUS
  <2> QED
    BY <1>4, <1>7, <1>8, <2>1, Zenon
<1>10. \A i \in 0..n : Upto(c, i) \in Seq(Byte)
  BY <1>3, <1>9, Zenon
<1>11. \A i \in 1..n : Upto(c, i) = Upto(c, i - 1) \o RecordBytes(c[i])
  <2>1. \A i \in 1..n : i \in 0..n /\ i - 1 \in 0..n
    OBVIOUS
  <2> QED
    BY <1>5, <1>9, <2>1, Zenon
<1>12. Upto(c, n) = StreamOf(c)
  <2>1. SubSeq(c, 1, n) = c
    BY <1>6
  <2> QED
    BY <2>1, Zenon DEF Upto
<1> QED
  BY <1>7, <1>10, <1>11, <1>12, Zenon

\* Where a record starts, its number counted from zero.
Start(c, i) == Len(Upto(c, i))

\* A record is five bytes and its payload.
LEMMA Starts ==
  ASSUME NEW c \in Captures, NEW n \in Nat, n = Len(c)
  PROVE  /\ Start(c, 0) = 0
         /\ \A i \in 0..n : Start(c, i) \in Nat
         /\ \A i \in 1..n : /\ Len(PayloadOf(c[i])) \in Nat
                            /\ Start(c, i) = Start(c, i - 1) + (5 + Len(PayloadOf(c[i])))
         /\ Start(c, n) = Len(StreamOf(c))
<1>1. Start(c, 0) = 0
  <2>1. Upto(c, 0) = <<>>
    BY Boundaries
  <2> QED
    BY <2>1 DEF Start
<1>2. \A i \in 0..n : Start(c, i) \in Nat
  <2>1. \A i \in 0..n : Upto(c, i) \in Seq(Byte)
    BY Boundaries
  <2> QED
    BY <2>1 DEF Start
<1>3. ASSUME NEW i \in 1..n
      PROVE  /\ Len(PayloadOf(c[i])) \in Nat
             /\ Start(c, i) = Start(c, i - 1) + (5 + Len(PayloadOf(c[i])))
  <2>1. c[i] \in Records /\ RecordBytes(c[i]) \in Seq(Byte)
    BY CaptureRecords
  <2>2. PayloadOf(c[i]) \in Seq(Byte)
    BY <2>1, PayloadFits
  <2>3. PICK m \in Nat : m = Len(PayloadOf(c[i]))
    BY <2>2
  <2>4. Len(RecordBytes(c[i])) = 5 + m
    BY <2>1, <2>2, <2>3, RecordLayout, Zenon
  <2>5. i - 1 \in 0..n
    OBVIOUS
  <2>6. /\ Upto(c, i - 1) \in Seq(Byte)
        /\ Upto(c, i) = Upto(c, i - 1) \o RecordBytes(c[i])
    BY <2>5, Boundaries, Zenon
  <2>7. PICK k \in Nat : k = Len(Upto(c, i - 1))
    BY <2>6
  <2>8. PICK r \in Nat : r = 5 + m
    OBVIOUS
  <2>9. Len(Upto(c, i - 1) \o RecordBytes(c[i])) = k + r
    <3>1. Len(RecordBytes(c[i])) = r
      BY <2>4, <2>8
    <3>2. Upto(c, i - 1) \in Seq(Byte)
      BY <2>6, Zenon
    <3>3. RecordBytes(c[i]) \in Seq(Byte)
      BY <2>1, Zenon
    <3> QED
      BY <2>7, <3>1, <3>2, <3>3, JoinLength, SMTT(30)
  <2>10. Start(c, i) = k + r
    BY <2>6, <2>9, Zenon DEF Start
  <2>11. Start(c, i - 1) = k
    BY <2>7 DEF Start
  <2> QED
    BY <2>3, <2>8, <2>10, <2>11
<1>4. Start(c, n) = Len(StreamOf(c))
  BY Boundaries, Zenon DEF Start
<1> QED
  BY <1>1, <1>2, <1>3, <1>4, Zenon

\* The first i records are still there when there are k of them.
Keeps(c, i, k) ==
  /\ Start(c, i) <= Start(c, k)
  /\ \A j \in 1..Start(c, i) : Upto(c, k)[j] = Upto(c, i)[j]

\* What was written stays where it is.
LEMMA WrittenKept ==
  ASSUME NEW c \in Captures, NEW n \in Nat, n = Len(c), NEW i \in 0..n, NEW l \in i..n
  PROVE  Keeps(c, i, l)
<1> DEFINE T == {k \in Nat : i + k <= n => Keeps(c, i, i + k)}
<1>1. 0 \in T
  <2>1. Start(c, i) \in Nat
    BY Starts, Zenon
  <2>2. i + 0 = i
    OBVIOUS
  <2>3. Keeps(c, i, i)
    BY <2>1 DEF Keeps
  <2> QED
    BY <2>2, <2>3
<1>2. ASSUME NEW k \in T PROVE k + 1 \in T
  <2>1. k \in Nat
    OBVIOUS
  <2>2. SUFFICES ASSUME i + (k + 1) <= n PROVE Keeps(c, i, i + (k + 1))
    BY <2>1
  <2>3. PICK e \in 1..n : e = i + (k + 1) /\ e - 1 = i + k /\ e - 1 \in 0..n /\ e \in 0..n
    BY <2>1, <2>2
  <2>4. Keeps(c, i, e - 1)
    BY <2>2, <2>3
  <2>5. /\ Upto(c, e - 1) \in Seq(Byte)
        /\ Upto(c, e) = Upto(c, e - 1) \o RecordBytes(c[e])
    BY <2>3, Boundaries, Zenon
  <2>6. PICK a \in Nat : a = Start(c, i)
    BY Starts, Zenon
  <2>7. PICK b \in Nat : b = Start(c, e - 1)
    BY <2>3, Starts, Zenon
  <2>8. RecordBytes(c[e]) \in Seq(Byte)
    BY CaptureRecords
  <2>9. PICK d \in Nat : d = Len(RecordBytes(c[e]))
    BY <2>8
  <2>10. \A j \in 1..b : Upto(c, e)[j] = Upto(c, e - 1)[j]
    <3>1. Len(Upto(c, e - 1)) = b
      BY <2>7 DEF Start
    <3>2. \A j \in 1..b : (Upto(c, e - 1) \o RecordBytes(c[e]))[j] = Upto(c, e - 1)[j]
      BY <2>5, <2>8, <2>9, <3>1, JoinLeft
    <3> QED
      BY <2>5, <3>2, Zenon
  <2>11. a <= b /\ \A j \in 1..a : Upto(c, e - 1)[j] = Upto(c, i)[j]
    BY <2>4, <2>6, <2>7, Zenon DEF Keeps
  <2>12. \A j \in 1..a : Upto(c, e)[j] = Upto(c, i)[j]
    BY <2>10, <2>11
  <2>13. Start(c, e) >= b
    <3>1. PICK m \in Nat : Start(c, e) = Start(c, e - 1) + (5 + m)
      BY Starts, Zenon
    <3> QED
      BY <2>7, <3>1
  <2>14. a <= Start(c, e)
    <3>1. Start(c, e) \in Nat
      BY <2>3, Starts, Zenon
    <3> QED
      BY <2>11, <2>13, <3>1
  <2>15. Keeps(c, i, e)
    BY <2>6, <2>12, <2>14, Zenon DEF Keeps
  <2> QED
    BY <2>3, <2>15, Zenon
<1>3. T = Nat
  <2>1. T \in SUBSET Nat
    OBVIOUS
  <2> HIDE DEF T
  <2> QED
    BY <1>1, <1>2, <2>1, AllNaturals
<1>4. l - i \in T
  <2> HIDE DEF T
  <2> QED
    BY <1>3
<1>5. i + (l - i) = l /\ l <= n
  OBVIOUS
<1> QED
  BY <1>4, <1>5

\* To the end of the capture.
LEMMA KeptToTheEnd ==
  ASSUME NEW c \in Captures, NEW n \in Nat, n = Len(c), NEW i \in 0..n
  PROVE  /\ Start(c, i) <= Start(c, n)
         /\ \A j \in 1..Start(c, i) : StreamOf(c)[j] = Upto(c, i)[j]
<1>1. n \in i..n
  OBVIOUS
<1>2. Keeps(c, i, n)
  BY <1>1, WrittenKept, Zenon
<1>3. Upto(c, n) = StreamOf(c)
  BY Boundaries, Zenon
<1> QED
  BY <1>2, <1>3, Zenon DEF Keeps

\* Record i lies at a, its payload m bytes long.
Lies(c, i, a, m) ==
  /\ a + (5 + m) = Start(c, i) /\ a + (5 + m) <= Len(StreamOf(c))
  /\ \A j \in 1..5 + m : StreamOf(c)[a + j] = RecordBytes(c[i])[j]

\* A record is where it starts.
LEMMA Placed ==
  ASSUME NEW c \in Captures, NEW n \in Nat, n = Len(c), NEW i \in 1..n,
         NEW a \in Nat, a = Start(c, i - 1),
         NEW m \in Nat, m = Len(PayloadOf(c[i]))
  PROVE  Lies(c, i, a, m)
<1>1. a + (5 + m) = Start(c, i) /\ Start(c, n) = Len(StreamOf(c))
  BY Starts, Zenon
<1>2. i \in 0..n /\ i - 1 \in 0..n
  OBVIOUS
<1>3. /\ Start(c, i) <= Start(c, n)
      /\ \A j \in 1..Start(c, i) : StreamOf(c)[j] = Upto(c, i)[j]
  BY <1>2, KeptToTheEnd, Zenon
<1>4. PICK d \in Nat : d = 5 + m
  OBVIOUS
<1>5. c[i] \in Records /\ RecordBytes(c[i]) \in Seq(Byte)
  BY CaptureRecords
<1>6. Len(RecordBytes(c[i])) = d
  <2>1. PayloadOf(c[i]) \in Seq(Byte)
    BY <1>5, PayloadFits
  <2>2. Len(RecordBytes(c[i])) = 5 + m
    BY <1>5, <2>1, RecordLayout, Zenon
  <2> QED
    BY <1>4, <2>2
<1>7. Upto(c, i) = Upto(c, i - 1) \o RecordBytes(c[i])
  BY <1>2, Boundaries, Zenon
<1>8. Upto(c, i - 1) \in Seq(Byte) /\ Len(Upto(c, i - 1)) = a
  BY <1>2, Boundaries, Zenon DEF Start
<1>9. ASSUME NEW k \in a + 1..a + d PROVE Upto(c, i)[k] = RecordBytes(c[i])[k - a]
  <2>1. RecordBytes(c[i]) \in Seq(Byte)
    BY <1>5, Zenon
  <2>2. PICK s \in Seq(Byte), t \in Seq(Byte) : s = Upto(c, i - 1) /\ t = RecordBytes(c[i])
    BY <1>8, <2>1, Zenon
  <2>3. PICK z : z = Upto(c, i)
    OBVIOUS
  <2>4. z = s \o t
    BY <1>7, <2>2, <2>3, Zenon
  <2>5. Len(s) = a /\ Len(t) = d
    BY <1>6, <1>8, <2>2, Zenon
  <2>6. z[k] = t[k - a]
    BY <2>4, <2>5, JoinedEnd, SMTT(30)
  <2> QED
    BY <2>2, <2>3, <2>6, Zenon
<1>10. ASSUME NEW j \in 1..5 + m PROVE StreamOf(c)[a + j] = RecordBytes(c[i])[j]
  <2> DEFINE k == a + j
  <2>1. k \in a + 1..a + d /\ k - a = j /\ k \in 1..a + (5 + m)
    BY <1>4
  <2> HIDE DEF k
  <2>2. StreamOf(c)[k] = Upto(c, i)[k]
    BY <1>1, <1>3, <2>1, Zenon
  <2>3. Upto(c, i)[k] = RecordBytes(c[i])[k - a]
    BY <1>9, <2>1
  <2> QED
    BY <2>1, <2>2, <2>3, Zenon DEF k
<1> QED
  BY <1>1, <1>3, <1>10, Zenon DEF Lies
-----------------------------------------------------------------------------
\* Reading them.

\* A part of a sequence, told by its elements.
LEMMA PartIs ==
  ASSUME NEW s \in Seq(Byte), NEW p \in Seq(Byte), NEW b \in Nat, NEW m \in Nat,
         Len(p) = m, b + m <= Len(s), \A q \in 1..m : s[b + q] = p[q]
  PROVE  SubSeq(s, b + 1, b + m) = p
<1> DEFINE z == SubSeq(s, b + 1, b + m)
<1>1. z \in Seq(Byte) /\ Len(z) = m /\ \A q \in 1..m : z[q] = s[b + q]
  OBVIOUS
<1> HIDE DEF z
<1>2. z = p
  BY <1>1
<1> QED
  BY <1>2 DEF z

\* s is the beginning of what c was sent as.
CutOf(s, c) ==
  /\ s \in Seq(Byte)
  /\ Len(s) <= Len(StreamOf(c))
  /\ \A j \in 1..Len(s) : s[j] = StreamOf(c)[j]

\* A read at the end of a record that is there succeeds, and it returns the payload.
LEMMA ReadWhole ==
  ASSUME NEW c \in Captures, NEW n \in Nat, n = Len(c), NEW s, CutOf(s, c),
         NEW i \in 1..n, NEW p \in Nat, p = Start(c, i - 1), p <= Len(s)
  PROVE  /\ Start(c, i) \in Nat
         /\ WholeRecord(s, p) <=> Start(c, i) <= Len(s)
         /\ WholeRecord(s, p) =>
              /\ s[p + 1] = c[i].type
              /\ ShortAt(s, p + 3) = PayloadOf(c[i])
              /\ PastShort(s, p + 3) = Start(c, i)
<1>1. PICK l \in Nat : l = Len(s) /\ s \in Seq(Byte) /\ \A j \in 1..l : s[j] = StreamOf(c)[j]
  BY DEF CutOf
<1>2. c[i] \in Records
  BY CaptureRecords
<1>3. PICK q \in Seq(Byte) : q = PayloadOf(c[i])
  BY <1>2, PayloadFits
<1>4. PICK m \in Nat : m = Len(q)
  BY <1>3
<1>5. PICK r : r = RecordBytes(c[i])
  OBVIOUS
<1>6. /\ Start(c, i) = p + (5 + m)
      /\ \A j \in 1..5 + m : StreamOf(c)[p + j] = r[j]
  <2>1. m = Len(PayloadOf(c[i]))
    BY <1>3, <1>4, Zenon
  <2>2. Lies(c, i, p, m)
    BY <2>1, Placed, Zenon
  <2> QED
    BY <1>5, <2>2, Zenon DEF Lies
<1>7. r[1] = c[i].type /\ TwoBytes(r[4], r[5]) = m /\ \A j \in 6..5 + m : r[j] = q[j - 5]
  BY <1>2, <1>3, <1>4, <1>5, RecordLayout, Zenon
<1>8. \A j \in 1..5 + m : p + j <= l => s[p + j] = r[j]
  <2>1. \A j \in 1..5 + m : p + j <= l => p + j \in 1..l
    OBVIOUS
  <2> QED
    BY <1>1, <1>6, <2>1, Zenon
<1>9. Number(s, p + 3, 2) = TwoBytes(s[(p + 3) + 1], s[(p + 3) + 2])
  BY SMT DEF Number, TwoBytes
<1>10. p + 5 <= l => Number(s, p + 3, 2) = m
  <2>1. SUFFICES ASSUME p + 5 <= l PROVE Number(s, p + 3, 2) = m
    OBVIOUS
  <2>2. /\ (p + 3) + 1 = p + 4 /\ (p + 3) + 2 = p + 5
        /\ p + 4 <= l
        /\ 4 \in 1..5 + m /\ 5 \in 1..5 + m
    BY <2>1
  <2>3. s[p + 4] = r[4] /\ s[p + 5] = r[5]
    BY <1>8, <2>1, <2>2, Zenon
  <2> QED
    BY <1>7, <1>9, <2>2, <2>3, Zenon
<1>11. WholeRecord(s, p) <=>
         p + 5 <= l /\ (p + 3) + 2 <= l /\ ((p + 3) + 2) + Number(s, p + 3, 2) <= l
  BY <1>1, Zenon DEF WholeRecord, Has, HasShort
<1>12. WholeRecord(s, p) <=> p + (5 + m) <= l
  BY <1>10, <1>11, SMTT(30)
<1>13. WholeRecord(s, p) => s[p + 1] = c[i].type
  <2>1. 1 \in 1..5 + m
    OBVIOUS
  <2>2. p + (5 + m) <= l => p + 1 <= l
    OBVIOUS
  <2> QED
    BY <1>7, <1>8, <1>12, <2>1, <2>2, Zenon
<1>14. WholeRecord(s, p) => ShortAt(s, p + 3) = q
  <2>1. SUFFICES ASSUME WholeRecord(s, p) PROVE ShortAt(s, p + 3) = q
    OBVIOUS
  <2>2. p + (5 + m) <= l
    BY <1>12, <2>1
  <2> DEFINE b == p + 5
  <2>3. Number(s, p + 3, 2) = m
    BY <1>10, <2>2, SMTT(30)
  <2>4. b \in Nat /\ b + m <= l /\ (p + 3) + 2 = b
    BY <2>2
  <2>5. ASSUME NEW k \in 1..m PROVE s[b + k] = q[k]
    <3> DEFINE j == 5 + k
    <3>1. j \in 1..5 + m /\ j \in 6..5 + m /\ j - 5 = k /\ b + k = p + j /\ p + j <= l
      BY <2>2
    <3> HIDE DEF j, b
    <3>2. s[p + j] = r[j]
      BY <1>8, <3>1, Zenon
    <3>3. r[j] = q[j - 5]
      BY <1>7, <3>1, Zenon
    <3> QED
      BY <3>1, <3>2, <3>3, Zenon
  <2> HIDE DEF b
  <2>6. SubSeq(s, b + 1, b + m) = q
    <3>1. b + m <= Len(s) /\ Len(q) = m
      BY <1>1, <1>4, <2>4
    <3> QED
      BY <1>1, <2>4, <2>5, <3>1, PartIs
  <2> QED
    BY <2>3, <2>4, <2>6, Zenon DEF ShortAt, Bytes
<1>15. WholeRecord(s, p) => PastShort(s, p + 3) = p + (5 + m)
  <2>1. WholeRecord(s, p) => Number(s, p + 3, 2) = m
    BY <1>10, <1>12
  <2>2. PastShort(s, p + 3) = (p + 3) + 2 + Number(s, p + 3, 2)
    BY Zenon DEF PastShort
  <2> QED
    BY <2>1, <2>2
<1>16. Start(c, i) \in Nat
  BY <1>6
<1>17. PICK e : e = Start(c, i)
  OBVIOUS
<1> QED
  BY <1>1, <1>3, <1>6, <1>12, <1>13, <1>14, <1>15, <1>16, Zenon

\* Where the capture ends, no record follows.
LEMMA NoneLeft ==
  ASSUME NEW c \in Captures, NEW n \in Nat, n = Len(c), NEW s, CutOf(s, c),
         NEW p \in Nat, p = Start(c, n)
  PROVE  ~WholeRecord(s, p)
<1>1. p = Len(StreamOf(c))
  BY Starts, Zenon
<1>2. PICK l \in Nat : l = Len(s) /\ l <= p
  BY <1>1 DEF CutOf
<1>3. ~(p + 5 <= l)
  BY <1>2
<1> QED
  BY <1>2, <1>3, Zenon DEF WholeRecord, Has

\* What is there to its end.
LEMMA WholeCount ==
  ASSUME NEW c \in Captures, NEW n \in Nat, n = Len(c), NEW s, CutOf(s, c),
         NEW k \in 0..n, NEW p \in Nat, p = Start(c, k), p <= Len(s)
  PROVE  /\ \A x \in 1..k : Start(c, x) <= Len(s)
         /\ ~WholeRecord(s, p) => {x \in 1..n : Start(c, x) <= Len(s)} = 1..k
<1>1. PICK l \in Nat : l = Len(s)
  BY DEF CutOf
<1>2. \A x \in 0..n : Start(c, x) \in Nat
  BY Starts, Zenon
<1>3. \A x, y \in 0..n : x <= y => Start(c, x) <= Start(c, y)
  <2>1. ASSUME NEW x \in 0..n, NEW y \in 0..n, x <= y PROVE Start(c, x) <= Start(c, y)
    <3>1. y \in x..n
      BY <2>1
    <3> QED
      BY <3>1, WrittenKept, Zenon DEF Keeps
  <2> QED
    BY <2>1
<1>4. \A x \in 1..k : Start(c, x) <= l
  <2>1. ASSUME NEW x \in 1..k PROVE Start(c, x) <= l
    <3>1. x \in 0..n /\ x <= k
      OBVIOUS
    <3>2. Start(c, x) <= Start(c, k) /\ Start(c, x) \in Nat
      BY <1>2, <1>3, <3>1
    <3> QED
      BY <1>1, <3>2
  <2> QED
    BY <2>1
<1>5. ASSUME ~WholeRecord(s, p), NEW x \in k + 1..n PROVE ~(Start(c, x) <= l)
  <2> DEFINE i == k + 1
  <2>1. i \in 1..n /\ i - 1 = k /\ i \in 0..n /\ x \in 0..n /\ i <= x
    BY <1>5
  <2> HIDE DEF i
  <2>2. Start(c, i) \in Nat /\ ~(Start(c, i) <= Len(s))
    BY <1>5, <2>1, ReadWhole, Zenon
  <2>3. Start(c, i) <= Start(c, x) /\ Start(c, x) \in Nat
    BY <1>2, <1>3, <2>1
  <2> QED
    BY <1>1, <2>2, <2>3
<1>6. ASSUME ~WholeRecord(s, p) PROVE {x \in 1..n : Start(c, x) <= l} = 1..k
  <2>1. \A x \in 1..n : x \in 1..k \/ x \in k + 1..n
    OBVIOUS
  <2>2. \A x \in 1..k : x \in 1..n
    OBVIOUS
  <2> QED
    BY <1>4, <1>5, <1>6, <2>1, <2>2, Zenon
<1> QED
  BY <1>1, <1>4, <1>6, Zenon
-----------------------------------------------------------------------------
\* The parser.

\* What a report of a record may be.
Fields == {Show(r.type, r.data) : r \in [type : RecordTypes, data : Seq(Byte)]}
Reports == [type : RecordTypes, data : Seq(Byte), fields : Fields]

\* Record i of a capture is reported as it was sent, and shown by what it is.
Reported(i) ==
  /\ shown[i].type = capture[i].type
  /\ shown[i].data = PayloadOf(capture[i])
  /\ shown[i].fields = Show(shown[i].type, shown[i].data)

\* The parser has stopped before a record, and reported those before it.
AtARecord ==
  /\ capture \in Captures
  /\ CutOf(stream, capture)
  /\ shown \in Seq(Reports)
  /\ Len(shown) \in 0..Len(capture)
  /\ pos = Start(capture, Len(shown))
  /\ pos <= Len(stream)
  /\ \A i \in 1..Len(shown) : Reported(i)

\* Nothing is parsed to begin with.
LEMMA InitAtARecord == ParserInit => AtARecord
<1>1. SUFFICES ASSUME ParserInit PROVE AtARecord
  OBVIOUS
<1>2. capture \in Captures /\ pos = 0 /\ shown = <<>>
  BY <1>1 DEF ParserInit
<1>3. StreamOf(capture) \in Seq(Byte)
  <2>1. PICK n \in Nat : n = Len(capture)
    BY <1>2, CaptureRecords
  <2>2. n \in 0..n
    OBVIOUS
  <2> QED
    BY <1>2, <2>1, <2>2, Boundaries
<1>4. CutOf(stream, capture)
  <2> DEFINE all == StreamOf(capture)
  <2>1. PICK cut \in 0 .. Len(all) : stream = SubSeq(all, 1, cut)
    BY <1>1, Zenon DEF ParserInit
  <2>2. all \in Seq(Byte)
    BY <1>3
  <2> HIDE DEF all
  <2>3. /\ stream \in Seq(Byte) /\ Len(stream) <= Len(all)
        /\ \A j \in 1..Len(stream) : stream[j] = all[j]
    BY <2>1, <2>2
  <2> QED
    BY <2>3, Zenon DEF CutOf, all
<1>5. shown \in Seq(Reports) /\ Len(shown) = 0
  BY <1>2
<1>6. 0 \in 0..Len(capture)
  BY <1>2, CaptureRecords
<1>7. Start(capture, 0) = 0
  BY <1>2, <1>6, Starts
<1>8. 0 <= Len(stream)
  BY <1>4 DEF CutOf
<1> QED
  BY <1>2, <1>4, <1>5, <1>6, <1>7, <1>8 DEF AtARecord

\* The fields of a report.
LEMMA FieldsShown ==
  ASSUME NEW t \in RecordTypes, NEW b \in Seq(Byte)
  PROVE  Show(t, b) \in Fields
<1> DEFINE r == [type |-> t, data |-> b]
<1>1. r \in [type : RecordTypes, data : Seq(Byte)] /\ r.type = t /\ r.data = b
  OBVIOUS
<1> HIDE DEF r
<1> QED
  BY <1>1, Zenon DEF Fields

\* The next record is reported, and the parser stops behind it.
LEMMA ParseAtARecord ==
  ASSUME AtARecord, ParseRecord
  PROVE  AtARecord'
<1>1. /\ capture \in Captures /\ CutOf(stream, capture) /\ shown \in Seq(Reports)
      /\ Len(shown) \in 0..Len(capture) /\ pos = Start(capture, Len(shown))
      /\ pos <= Len(stream)
  BY Zenon DEF AtARecord
<1>2. PICK n \in Nat : n = Len(capture)
  BY <1>1, CaptureRecords
<1>3. PICK k \in Nat : k = Len(shown) /\ k \in 0..n
  BY <1>1, <1>2
<1>4. WholeRecord(stream, pos) /\ capture' = capture /\ stream' = stream
  BY DEF ParseRecord
<1>5. pos \in Nat
  <2>1. Start(capture, k) \in Nat
    BY <1>1, <1>2, <1>3, Starts
  <2> QED
    BY <1>1, <1>3, <2>1
<1>6. k # n
  BY <1>1, <1>2, <1>3, <1>4, <1>5, NoneLeft
<1>7. PICK i \in 1..n : i = k + 1 /\ i - 1 = k
  BY <1>3, <1>6
<1>8. /\ Start(capture, i) \in Nat
      /\ Start(capture, i) <= Len(stream)
      /\ stream[pos + 1] = capture[i].type
      /\ ShortAt(stream, pos + 3) = PayloadOf(capture[i])
      /\ PastShort(stream, pos + 3) = Start(capture, i)
  <2>1. pos = Start(capture, i - 1)
    BY <1>1, <1>3, <1>7
  <2> QED
    BY <1>1, <1>2, <1>4, <1>5, <2>1, ReadWhole
<1>9. PICK t, b : /\ t = stream[pos + 1] /\ b = ShortAt(stream, pos + 3)
                  /\ shown' = Append(shown, [type |-> t, data |-> b, fields |-> Show(t, b)])
                  /\ pos' = PastShort(stream, pos + 3)
  BY DEF ParseRecord
<1>10. t = capture[i].type /\ b = PayloadOf(capture[i])
  BY <1>8, <1>9, Zenon
<1>11. t \in RecordTypes /\ b \in Seq(Byte)
  <2>1. capture[i] \in Records
    BY <1>1, <1>2, CaptureRecords
  <2>2. capture[i].type \in RecordTypes
    BY <2>1 DEF Records
  <2>3. PayloadOf(capture[i]) \in Seq(Byte)
    BY <2>1, PayloadFits
  <2> QED
    BY <1>10, <2>2, <2>3, Zenon
<1>12. PICK r \in Reports : /\ r = [type |-> t, data |-> b, fields |-> Show(t, b)]
                            /\ r.type = t /\ r.data = b /\ r.fields = Show(t, b)
  <2>1. PICK s \in Fields : s = Show(t, b)
    BY <1>11, FieldsShown, Zenon
  <2>2. [type |-> t, data |-> b, fields |-> s] \in Reports
    BY <1>11 DEF Reports
  <2> QED
    BY <2>1, <2>2
<1>13. /\ shown' \in Seq(Reports) /\ Len(shown') = i /\ shown'[i] = r
       /\ \A j \in 1..k : shown'[j] = shown[j]
  BY <1>1, <1>3, <1>7, <1>9, <1>12
<1>14. \A j \in 1..i : Reported(j)'
  <2>1. SUFFICES ASSUME NEW j \in 1..i PROVE Reported(j)'
    OBVIOUS
  <2>2. CASE j = i
    BY <1>4, <1>10, <1>12, <1>13, <2>2, Zenon DEF Reported
  <2>3. CASE j \in 1..k
    <3>1. Reported(j)
      BY <1>3, <2>3, Zenon DEF AtARecord
    <3> QED
      BY <1>4, <1>13, <2>3, <3>1, Zenon DEF Reported
  <2> QED
    BY <1>3, <1>7, <2>2, <2>3
<1>15. pos' = Start(capture, i) /\ pos' <= Len(stream)
  BY <1>8, <1>9, Zenon
<1>16. i \in 0..n
  OBVIOUS
<1> QED
  BY <1>1, <1>2, <1>4, <1>13, <1>14, <1>15, <1>16, Zenon DEF AtARecord

\* It is an invariant.
LEMMA AlwaysAtARecord == ParseSpec => []AtARecord
<1>1. AtARecord /\ [ParseRecord]_parserVars => AtARecord'
  <2>1. AtARecord /\ UNCHANGED parserVars => AtARecord'
    BY Zenon DEF AtARecord, Reported, parserVars
  <2> QED
    BY <2>1, ParseAtARecord, Zenon
<1> QED
  BY <1>1, InitAtARecord, PTL DEF ParseSpec

\* Whatever was captured and wherever it was cut: parse_records stays within the
\* stream, at every step, and reports types of records.
THEOREM ParserTypeCorrect == ParseSpec => []ParserTypeOK
<1>1. AtARecord => ParserTypeOK
  <2>1. SUFFICES ASSUME AtARecord PROVE ParserTypeOK
    OBVIOUS
  <2>2. /\ capture \in Captures /\ CutOf(stream, capture) /\ shown \in Seq(Reports)
        /\ Len(shown) \in 0..Len(capture) /\ pos = Start(capture, Len(shown))
        /\ pos <= Len(stream)
    BY <2>1, Zenon DEF AtARecord
  <2>3. Start(capture, Len(shown)) \in Nat
    BY <2>2, CaptureRecords, Starts
  <2>4. pos \in 0 .. Len(stream)
    BY <2>2, <2>3 DEF CutOf
  <2>5. ASSUME NEW i \in DOMAIN shown PROVE shown[i].type \in RecordTypes
    <3>1. shown[i] \in Reports
      BY <2>2
    <3> QED
      BY <3>1 DEF Reports
  <2> QED
    BY <2>2, <2>4, <2>5 DEF ParserTypeOK
<1> QED
  BY <1>1, AlwaysAtARecord, PTL

\* Whatever was captured, of any length, and wherever it was cut: parse_records
\* reports the records that are there to their end, all of them when it stops,
\* each with the type and the payload it was sent with, and nothing else.
THEOREM WholeRecordsOnly == ParseSpec => []WholeRecordsShown
<1>1. AtARecord => WholeRecordsShown
  <2>1. SUFFICES ASSUME AtARecord PROVE WholeRecordsShown
    OBVIOUS
  <2>2. /\ capture \in Captures /\ CutOf(stream, capture) /\ shown \in Seq(Reports)
        /\ Len(shown) \in 0..Len(capture) /\ pos = Start(capture, Len(shown))
        /\ pos <= Len(stream)
    BY <2>1, Zenon DEF AtARecord
  <2>3. PICK n \in Nat : n = Len(capture)
    BY <2>2, CaptureRecords
  <2>4. PICK k \in Nat : k = Len(shown) /\ k \in 0..n
    BY <2>2, <2>3
  <2>5. pos \in Nat /\ pos = Start(capture, k)
    <3>1. Start(capture, k) \in Nat
      BY <2>2, <2>3, <2>4, Starts
    <3> QED
      BY <2>2, <2>4, <3>1
  <2> DEFINE whole == {x \in 1..n : Start(capture, x) <= Len(stream)}
  <2>6. /\ \A x \in 1..k : Start(capture, x) <= Len(stream)
        /\ ~WholeRecord(stream, pos) => whole = 1..k
    BY <2>2, <2>3, <2>4, <2>5, WholeCount
  <2>7. {x \in DOMAIN capture : Len(StreamOf(SubSeq(capture, 1, x))) <= Len(stream)} = whole
    <3>1. DOMAIN capture = 1..n
      BY <2>2, <2>3, CaptureRecords
    <3> QED
      BY <3>1, Zenon DEF Start, Upto
  <2>8. DOMAIN shown = 1..k
    BY <2>2, <2>4
  <2>9. ASSUME NEW i \in DOMAIN shown
        PROVE  i \in whole /\ shown[i].type = capture[i].type
                           /\ shown[i].data = PayloadBytes(capture[i].message)
    <3>1. i \in 1..k /\ i \in 1..n
      BY <2>4, <2>8
    <3>2. Reported(i)
      BY <2>1, <2>4, <3>1, Zenon DEF AtARecord
    <3> QED
      BY <2>6, <3>1, <3>2, Zenon DEF Reported, PayloadOf
  <2>10. ASSUME ~WholeRecord(stream, pos) PROVE Len(shown) = Cardinality(whole)
    <3>1. whole = 1..k
      BY <2>6, <2>10, Zenon
    <3>2. Cardinality(1..k) = k
      <4>1. Cardinality(1..k) = IF 1 > k THEN 0 ELSE k - 1 + 1
        BY FS_Interval
      <4> QED
        BY <4>1
    <3> QED
      BY <2>4, <3>1, <3>2, Zenon
  <2> HIDE DEF whole
  <2> QED
    BY <2>7, <2>9, <2>10, Zenon DEF WholeRecordsShown
<1> QED
  BY <1>1, AlwaysAtARecord, PTL
-----------------------------------------------------------------------------
\* What the last record says.

\* Message m, its record's type and payload, and what is shown of it.
Delivered(m, t, b, f) ==
  /\ m \in Messages /\ IsMessage(m) /\ t \in TypesOf(m)
  /\ b = PayloadBytes(m) /\ b \in Seq(Byte) /\ Fits(b)
  /\ f = Show(t, b)

\* The last record reported is one of the capture.
LEMMA LastDelivered ==
  ASSUME AtARecord, shown # <<>>
  PROVE  Delivered(Sent, shown[Len(shown)].type, Got, shown[Len(shown)].fields)
<1>1. capture \in Captures /\ shown \in Seq(Reports) /\ Len(shown) \in 0..Len(capture)
  BY Zenon DEF AtARecord
<1>2. PICK n \in Nat : n = Len(capture)
  BY <1>1, CaptureRecords
<1>3. PICK k \in 1..n : k = Len(shown)
  BY <1>1, <1>2
<1>4. Reported(k)
  <2>1. k \in 1..k
    OBVIOUS
  <2> QED
    BY <1>3, <2>1, Zenon DEF AtARecord
<1>5. capture[k] \in Records /\ DOMAIN capture = 1..n
  BY <1>1, <1>2, CaptureRecords
<1>6. capture[k].message \in Messages /\ capture[k].type \in TypesOf(capture[k].message)
  <2>1. capture[k].message \in Messages
    BY <1>5 DEF Records
  <2> QED
    BY <1>1, <1>5, <2>1, MessageAssumption, Zenon
<1>7. IsMessage(capture[k].message)
  BY <1>6, MessageAssumption, Zenon
<1>8. PayloadBytes(capture[k].message) \in Seq(Byte) /\ Fits(PayloadBytes(capture[k].message))
  BY <1>6, CaptureAssumption, Zenon DEF Fits
<1> QED
  BY <1>3, <1>4, <1>6, <1>7, <1>8, Zenon DEF Delivered, Reported, PayloadOf, Sent, Got

\* The kind of a message says what it is.
LEMMA MessageIs ==
  ASSUME NEW m, IsMessage(m)
  PROVE  /\ m.kind = "clientHello" =>
              /\ IsClientHello(m.hello)
              /\ PSK \in DOMAIN m.hello.extensions =>
                   /\ m.ticket \in SessionTicket
                   /\ m.hello.extensions[PSK] = Presented(m.ticket)
         /\ m.kind \in {"serverHello", "flaggedHello"} => m.hello \in ServerHello
         /\ m.kind = "ticket" => m.tickets \in NewSessionTicket
         /\ m.kind = "signature" => m.tagged \in Tagged /\ m.tagged.type = 15
         /\ m.kind = "finish" => m.tagged \in Tagged /\ m.tagged.type = 20
BY Zenon DEF IsMessage

\* See MessageIs.
LEMMA PayloadIs ==
  ASSUME NEW m
  PROVE  /\ m.kind = "clientHello" => PayloadBytes(m) = HelloBytes(m.hello)
         /\ m.kind = "serverHello" => PayloadBytes(m) = ServerHelloBytes(m.hello)
         /\ m.kind = "flaggedHello" => PayloadBytes(m) = ReplaceAt(ServerHelloBytes(m.hello), 5, 2)
         /\ m.kind = "ticket" => PayloadBytes(m) = NewSessionTicketBytes(m.tickets)
         /\ m.kind \in {"signature", "finish"} => PayloadBytes(m) = TaggedBytes(m.tagged)
BY Zenon DEF PayloadBytes

\* Whatever the tickets of a message, however many and however long: the session kept
\* with them is loaded as it was saved, and no part of the file is (Session::save, load).
THEOREM TornSessionsRefused == ParseSpec => []TornSessionRefused
<1>1. AtARecord => TornSessionRefused
  <2>1. SUFFICES ASSUME AtARecord, shown # <<>>, Sent.kind = "ticket"
                 PROVE  LET session == [access |-> <<1, 2>>, refresh |-> <<>>,
                                        tickets |-> Sent.tickets]
                            saved == SessionBytes(session)
                        IN /\ LoadSession(saved).tickets.tickets = Sent.tickets.tickets
                           /\ \A n \in 0 .. Len(saved) - 1 :
                                LoadSession(SubSeq(saved, 1, n)) = Error
    BY Zenon DEF TornSessionRefused
  <2>2. PICK m : m = Sent
    OBVIOUS
  <2>3. IsMessage(m) /\ Got = PayloadBytes(m) /\ Fits(Got) /\ m.kind = "ticket"
    BY <2>1, <2>2, LastDelivered, Zenon DEF Delivered
  <2>4. m.tickets \in NewSessionTicket
    BY <2>3, MessageIs, Zenon
  <2>5. Fits(NewSessionTicketBytes(m.tickets))
    <3>1. PayloadBytes(m) = NewSessionTicketBytes(m.tickets)
      BY <2>3, PayloadIs, Zenon
    <3> QED
      BY <2>3, <3>1, Zenon
  <2> QED
    BY <2>2, <2>4, <2>5, SavedSessionReadBack, Zenon DEF SavedSession
<1> QED
  BY <1>1, AlwaysAtARecord, PTL

\* A ticket presented is one without its ticket_age_add.
LEMMA PresentedRead ==
  ASSUME NEW ticket \in SessionTicket
  PROVE  ReadTicket(Presented(ticket)[1]).ticket = ticket.ticket
<1> DEFINE bare == [ticket EXCEPT !.ageAdd = <<>>]
<1>1. bare \in SessionTicket /\ bare.ticket = ticket.ticket
  <2>1. <<>> \in Seq(Byte)
    OBVIOUS
  <2>2. PICK B : B = Byte
    OBVIOUS
  <2>3. PICK F : F = Fixed(4)
    OBVIOUS
  <2>4. SessionTicket = [type : B, lifetime : F, ageAdd : Seq(B), reserved : F,
                         nonce : Seq(B), ticket : Seq(B)]
    BY <2>2, <2>3, Zenon DEF SessionTicket
  <2> QED
    BY <2>1, <2>2, <2>4
<1> HIDE DEF bare
<1>2. ReadTicket(TicketBytes(bare)) = bare
  BY <1>1, TicketReadBack, Zenon
<1>3. PICK item : item = TicketBytes(bare)
  OBVIOUS
<1>4. <<item>>[1] = item
  OBVIOUS
<1>5. Presented(ticket) = <<item>>
  BY <1>3, Zenon DEF Presented, bare
<1> QED
  BY <1>1, <1>2, <1>3, <1>4, <1>5, Zenon

\* A list of tickets is read back whole.
LEMMA WholeListRead ==
  ASSUME NEW nst \in NewSessionTicket, NEW b, b = NewSessionTicketBytes(nst), Fits(b)
  PROVE  ReadNewSessionTicket(b)
           = [reserved |-> 4, count |-> nst.count, tickets |-> nst.tickets]
<1>1. b \in Seq(Nat)
  BY ListBytesType, Zenon
<1>2. PICK l \in Nat : l = Len(b)
  BY <1>1
<1>3. CutFrom(b, b)
  BY <1>1, Whole, Zenon
<1>4. TicketsRead(b, nst, l)
  BY <1>1, <1>2, <1>3, ListReadBack, Zenon
<1>5. l <= Len(b)
  BY <1>2
<1> QED
  BY <1>2, <1>4, <1>5, Zenon DEF TicketsRead, ListOf

\* A peer reads every handshake message as it was written, whatever the keys, the tickets
\* and their lengths: every extension of a hello, and from a hello the very ticket id a
\* session is stored under (the read functions, against the serialize functions).
THEOREM MessagesAreReadBack == ParseSpec => []MessagesReadBack
<1>1. AtARecord => MessagesReadBack
  <2>1. SUFFICES ASSUME AtARecord, shown # <<>>
                 PROVE  MessagesReadBack
    BY Zenon DEF MessagesReadBack
  <2>2. PICK m : m = Sent
    OBVIOUS
  <2>3. PICK b : b = Got
    OBVIOUS
  <2>4. IsMessage(m) /\ b = PayloadBytes(m) /\ Fits(b)
    BY <2>1, <2>2, <2>3, LastDelivered, Zenon DEF Delivered
  <2>5. ASSUME m.kind = "clientHello"
        PROVE  /\ ReadClientHello(b) = m.hello
               /\ PSK \in DOMAIN m.hello.extensions =>
                    ReadTicket(ReadClientHello(b).extensions[PSK][1]).ticket = m.ticket.ticket
    <3>1. /\ IsClientHello(m.hello)
          /\ PSK \in DOMAIN m.hello.extensions =>
               /\ m.ticket \in SessionTicket
               /\ m.hello.extensions[PSK] = Presented(m.ticket)
      BY <2>4, <2>5, MessageIs, Zenon
    <3>2. b = HelloBytes(m.hello)
      BY <2>4, <2>5, PayloadIs, Zenon
    <3>3. ReadClientHello(b) = m.hello
      BY <2>4, <3>1, <3>2, ClientHelloReadBack, Zenon
    <3>4. ASSUME PSK \in DOMAIN m.hello.extensions
          PROVE  ReadTicket(ReadClientHello(b).extensions[PSK][1]).ticket = m.ticket.ticket
      <4>1. ReadTicket(Presented(m.ticket)[1]).ticket = m.ticket.ticket
        BY <3>1, <3>4, PresentedRead, Zenon
      <4> QED
        BY <3>1, <3>3, <3>4, <4>1, Zenon
    <3> QED
      BY <3>3, <3>4, Zenon
  <2>6. ASSUME m.kind = "serverHello" PROVE ReadServerHello(b) = m.hello
    <3>1. m.hello \in ServerHello /\ b = ServerHelloBytes(m.hello)
      BY <2>4, <2>6, MessageIs, PayloadIs, Zenon
    <3> QED
      BY <2>4, <3>1, ServerHelloReadBack, Zenon
  <2>7. ASSUME m.kind = "ticket"
        PROVE  ReadNewSessionTicket(b)
                 = [reserved |-> 4, count |-> m.tickets.count, tickets |-> m.tickets.tickets]
    <3>1. m.tickets \in NewSessionTicket /\ b = NewSessionTicketBytes(m.tickets)
      BY <2>4, <2>7, MessageIs, PayloadIs, Zenon
    <3> QED
      BY <2>4, <3>1, WholeListRead, Zenon
  <2>8. ASSUME m.kind \in {"signature", "finish"} PROVE ReadTagged(b) = m.tagged
    <3>1. m.tagged \in Tagged /\ b = TaggedBytes(m.tagged)
      BY <2>4, <2>8, MessageIs, PayloadIs, Zenon
    <3> QED
      BY <3>1, TaggedReadBack, Zenon
  <2> QED
    BY <2>2, <2>3, <2>5, <2>6, <2>7, <2>8, Zenon DEF MessagesReadBack
<1> QED
  BY <1>1, AlwaysAtARecord, PTL
-----------------------------------------------------------------------------
\* What is shown of the last record: the parser's own readers, against the bytes.

\* The length a message begins with is what its reader finds.
LEMMA LongHead ==
  ASSUME NEW b, IsLong(b), Fits(b)
  PROVE  b \in Seq(Nat) /\ Len(b) \in Nat /\ Len(b) >= 4 /\ Number(b, 0, 4) = Len(b) - 4
<1>0. PICK d \in Seq(Nat) : b = Long(d)
  BY DEF IsLong
<1>1. b \in Seq(Nat)
  BY <1>0, LongType, Zenon
<1>2. PICK l \in Nat : l = Len(b)
  BY <1>1
<1>3. Stands(b, 0, Long(d), l) /\ CutFrom(b, b)
  BY <1>0, <1>1, <1>2, Whole, Zenon
<1>4. PICK m \in Nat : m = 0 + 4 /\ Stands(b, 0, U32(Len(d)), m) /\ Stands(b, m, d, l)
  BY <1>3, LongParts, Zenon
<1>5. PICK n \in Nat : n = Len(d)
  OBVIOUS
<1>6. l = 4 + n
  BY <1>4, <1>5, StandsType
<1>7. n < ShortLimit
  BY <1>3, <1>5, LongFits, Zenon DEF Fits
<1>8. Has(b, 0, 4)
  BY <1>2, <1>6 DEF Has
<1>9. Number(b, 0, 4) = n
  BY <1>3, <1>4, <1>5, <1>7, <1>8, ReadFour, Zenon
<1> QED
  BY <1>1, <1>2, <1>6, <1>9

\* That is what a handshake message is told by.
HasItsLength(b) == Len(b) \in Nat /\ Len(b) > 5 /\ Number(b, 0, 4) = Len(b) - 4

\* See HasItsLength.
LEMMA LongIsWhole ==
  ASSUME NEW b, IsLong(b), Fits(b), Len(b) > 5
  PROVE  HasItsLength(b)
BY LongHead, Zenon DEF HasItsLength

\* What a handshake message is shown as: its flag decides.
LEMMA HandshakeShown ==
  ASSUME NEW type, type \in {Handshake, System}, NEW b, HasItsLength(b)
  PROVE  Show(type, b) =
           CASE b[5] = 1  -> ShowClientHello(b)
             [] b[5] = 2  -> ShowServerHello(b)
             [] b[5] = 8  -> ShowPsk(b)
             [] b[5] = 15 -> ShowTagged(b, "Signature")
             [] b[5] = 4  -> ShowTicket(b)
             [] b[5] = 20 -> ShowTagged(b, "ServerFinish")
             [] OTHER     -> Encrypted
<1>1. Number(b, 0, 4) = Len(b) - 4 /\ Len(b) > 5 /\ Len(b) \in Nat
  BY Zenon DEF HasItsLength
<1>2. type # Record /\ type # Abort
  BY DEF Handshake, System, Record, Abort
<1>3. ~(Len(b) <= 5)
  BY <1>1
<1>4. Show(type, b) = ShowHandshake(b)
  BY <1>1, <1>2, <1>3, Zenon DEF Show
<1> QED
  BY <1>1, <1>4, Zenon DEF ShowHandshake

\* See HandshakeShown.
LEMMA ShownByFlag ==
  ASSUME NEW type, type \in {Handshake, System}, NEW b, HasItsLength(b)
  PROVE  /\ b[5] = 1 => Show(type, b) = ShowClientHello(b)
         /\ b[5] = 2 => Show(type, b) = ShowServerHello(b)
         /\ b[5] = 8 => Show(type, b) = ShowPsk(b)
         /\ b[5] = 15 => Show(type, b) = ShowTagged(b, "Signature")
         /\ b[5] = 4 => Show(type, b) = ShowTicket(b)
         /\ b[5] = 20 => Show(type, b) = ShowTagged(b, "ServerFinish")
<1>1. PICK x : x = b[5]
  OBVIOUS
<1>2. /\ x = 1 => x # 2 /\ x # 8 /\ x # 15 /\ x # 4 /\ x # 20
      /\ x = 2 => x # 1 /\ x # 8 /\ x # 15 /\ x # 4 /\ x # 20
      /\ x = 8 => x # 1 /\ x # 2 /\ x # 15 /\ x # 4 /\ x # 20
      /\ x = 15 => x # 1 /\ x # 2 /\ x # 8 /\ x # 4 /\ x # 20
      /\ x = 4 => x # 1 /\ x # 2 /\ x # 8 /\ x # 15 /\ x # 20
      /\ x = 20 => x # 1 /\ x # 2 /\ x # 8 /\ x # 15 /\ x # 4
  OBVIOUS
<1> QED
  BY <1>1, <1>2, HandshakeShown, Zenon

\* A list of tickets is shown as it was sent.
LEMMA TicketShown ==
  ASSUME NEW type, type \in {Handshake, System},
         NEW nst \in NewSessionTicket, NEW b, b = NewSessionTicketBytes(nst), Fits(b)
  PROVE  Show(type, b) = [name |-> "NewSessionTicket", tickets |-> nst.tickets]
<1>1. IsLong(b)
  <2>1. PICK n \in Nat : Len(nst.tickets) = n
    BY DEF NewSessionTicket
  <2>2. nst.count = n /\ FlattenSeq(Framed(nst)) \in Seq(Nat)
    BY <2>1, FramedType, FlattenType, Zenon
  <2>3. <<4, nst.count>> \in Seq(Nat)
    BY <2>2
  <2> QED
    BY <2>2, <2>3, JoinType, Zenon DEF NewSessionTicketBytes, Framed, IsLong
<1>2. ReadNewSessionTicket(b)
        = [reserved |-> 4, count |-> nst.count, tickets |-> nst.tickets]
  BY WholeListRead, Zenon
<1>3. ReadNewSessionTicket(b) = ListOf(nst) /\ ReadNewSessionTicket(b) # Error
  BY <1>2, ListIsNoError, Zenon DEF ListOf
<1>4. Len(b) >= 6 /\ b[5] = 4
  <2>1. PICK c : c = TicketEntries(b[6], Cursor(b, 6))
    OBVIOUS
  <2>2. PICK t : t = [i \in DOMAIN c.items |-> ReadTicket(c.items[i])]
    OBVIOUS
  <2>3. Len(b) >= 6 /\ ReadNewSessionTicket(b) = [reserved |-> b[5], count |-> b[6], tickets |-> t]
    BY <1>3, <2>1, <2>2, Zenon DEF ReadNewSessionTicket
  <2>4. PICK r : r = ReadNewSessionTicket(b)
    OBVIOUS
  <2>5. r.reserved = b[5] /\ r.reserved = 4
    BY <1>2, <2>3, <2>4
  <2> QED
    BY <2>3, <2>5, Zenon
<1>5. Len(b) > 5
  <2>1. Len(b) \in Nat
    BY <1>1, LongHead, Zenon
  <2> QED
    BY <1>4, <2>1
<1>6. Show(type, b) = ShowTicket(b)
  BY <1>1, <1>4, <1>5, LongIsWhole, ShownByFlag, Zenon
<1>7. ListOf(nst).tickets = nst.tickets
  BY DEF ListOf
<1> QED
  BY <1>3, <1>6, <1>7, Zenon DEF ShowTicket

\* Signature and ServerFinish too.
LEMMA TaggedShown ==
  ASSUME NEW type, type \in {Handshake, System}, NEW m \in Tagged,
         NEW b, b = TaggedBytes(m), Fits(b)
  PROVE  /\ m.type = 15 => Show(type, b) = [name |-> "Signature", data |-> m.data]
         /\ m.type = 20 => Show(type, b) = [name |-> "ServerFinish", data |-> m.data]
<1>1. ReadTagged(b) = m
  BY TaggedReadBack, Zenon
<1>2. m = [type |-> m.type, data |-> m.data] /\ m.type \in Byte /\ m.data \in Seq(Byte)
  BY DEF Tagged
<1>3. m # Error
  <2>1. DOMAIN m = {"type", "data"}
    BY <1>2
  <2>2. DOMAIN Error = {"failed"}
    BY DEF Error
  <2> QED
    BY <2>1, <2>2
<1>4. IsLong(b)
  <2>1. PICK x \in Nat : x = m.type
    <3>1. m.type \in Byte
      BY <1>2, Zenon
    <3> QED
      BY <3>1 DEF Byte
  <2>2. PICK d \in Seq(Nat) : d = m.data
    BY <1>2, BytesNat
  <2>3. <<x>> \in Seq(Nat)
    OBVIOUS
  <2>4. b = Long(<<x>> \o Short(d))
    BY <2>1, <2>2, Zenon DEF TaggedBytes
  <2> QED
    BY <2>3, <2>4, ShortType, JoinType, Zenon DEF IsLong
<1>5. Has(b, 0, 5) /\ HasShort(b, 5) /\ m.type = b[5]
  <2>1. Has(b, 0, 5) /\ HasShort(b, 5) /\ m = [type |-> b[5], data |-> ShortAt(b, 5)]
    BY <1>1, <1>3, Zenon DEF ReadTagged
  <2>2. PICK x : x = ShortAt(b, 5)
    OBVIOUS
  <2>3. m.type = b[5]
    BY <2>1, <2>2
  <2> QED
    BY <2>1, <2>3, Zenon
<1>6. Len(b) > 5
  <2>1. Has(b, 5, 2)
    BY <1>5, Zenon DEF HasShort
  <2>2. Len(b) \in Nat
    BY <1>4, LongHead, Zenon
  <2> QED
    BY <2>1, <2>2 DEF Has
<1>7. /\ m.type = 15 => Show(type, b) = ShowTagged(b, "Signature")
      /\ m.type = 20 => Show(type, b) = ShowTagged(b, "ServerFinish")
  BY <1>4, <1>5, <1>6, LongIsWhole, ShownByFlag, Zenon
<1> QED
  BY <1>1, <1>3, <1>7, Zenon DEF ShowTagged

\* The extensions of a 0-RTT request.
PskPayload(t) == Long(<<8>> \o Long(<<1>> \o Long(<<0, 18>> \o t)))

PskTime(f, t) == f.timestamp = t /\ f.name = "PSK Extensions (0-RTT)"

\* Their time is read where it stands.
LEMMA PskShown ==
  ASSUME NEW type, type \in {Handshake, System}, NEW t \in Fixed(4),
         NEW b, b = PskPayload(t), Fits(b)
  PROVE  PskTime(Show(type, b), t)
<1> DEFINE u == <<0, 18>> \o t
           v == Long(u)
           w == <<1>> \o v
           x == Long(w)
           y == <<8>> \o x
<1>1. t \in Seq(Nat) /\ Sized(t, 4)
  <2>1. t \in Seq(Byte) /\ Len(t) = 4 /\ 4 \in Nat
    BY DEF Fixed
  <2> QED
    BY <2>1, BytesNat, Zenon DEF Sized
<1>2. /\ <<0, 18>> \in Seq(Nat) /\ Sized(<<0, 18>>, 2) /\ <<1>> \in Seq(Nat) /\ Sized(<<1>>, 1)
      /\ <<8>> \in Seq(Nat) /\ Sized(<<8>>, 1)
  BY DEF Sized
<1>3. u \in Seq(Nat) /\ Sized(u, 2 + 4)
  BY <1>1, <1>2, JoinType, JoinLen, Zenon
<1> HIDE DEF u
<1>4. v \in Seq(Nat) /\ Sized(v, 4 + (2 + 4))
  BY <1>3, LongType, LongLen, Zenon
<1> HIDE DEF v
<1>5. w \in Seq(Nat) /\ Sized(w, 1 + (4 + (2 + 4)))
  BY <1>2, <1>4, JoinType, JoinLen, Zenon
<1> HIDE DEF w
<1>6. x \in Seq(Nat) /\ Sized(x, 4 + (1 + (4 + (2 + 4))))
  BY <1>5, LongType, LongLen, Zenon
<1> HIDE DEF x
<1>7. y \in Seq(Nat) /\ Sized(y, 1 + (4 + (1 + (4 + (2 + 4)))))
  BY <1>2, <1>6, JoinType, JoinLen, Zenon
<1>8. b = Long(y)
  BY Zenon DEF PskPayload, y, x, w, v, u
<1>9. b \in Seq(Nat) /\ Sized(b, 4 + (1 + (4 + (1 + (4 + (2 + 4))))))
  <2> HIDE DEF y
  <2> QED
    BY <1>7, <1>8, LongType, LongLen, Zenon
<1>10. PICK l \in Nat : l = 20 /\ l = Len(b)
  <2>1. PICK l \in Nat : l = 4 + (1 + (4 + (1 + (4 + (2 + 4)))))
    OBVIOUS
  <2>2. l = Len(b)
    BY <1>9, <2>1, Zenon DEF Sized
  <2>3. l = 20
    BY <2>1
  <2> QED
    BY <2>2, <2>3, Zenon
<1>11. Stands(b, 0, b, l)
  BY <1>9, <1>10, Whole, Zenon
<1>12. PICK a \in Nat : a = 0 + 4 /\ Stands(b, a, y, l)
  <2>1. Stands(b, 0, Long(y), l)
    BY <1>8, <1>11, Zenon
  <2> HIDE DEF y
  <2> QED
    BY <1>7, <2>1, LongParts, Zenon
<1>13. PICK c \in Nat : Stands(b, a, <<8>>, c) /\ Stands(b, c, x, l)
  BY <1>2, <1>6, <1>12, Split, Zenon
<1>14. PICK d \in Nat : d = c + 4 /\ Stands(b, d, w, l)
  BY <1>5, <1>13, LongParts, Zenon DEF x
<1>15. PICK e \in Nat : Stands(b, d, <<1>>, e) /\ Stands(b, e, v, l)
  BY <1>2, <1>4, <1>14, Split, Zenon DEF w
<1>16. PICK f \in Nat : f = e + 4 /\ Stands(b, f, u, l)
  BY <1>3, <1>15, LongParts, Zenon DEF v
<1>17. PICK g \in Nat : Stands(b, f, <<0, 18>>, g) /\ Stands(b, g, t, l)
  BY <1>1, <1>2, <1>16, Split, Zenon DEF u
<1>18. c = a + 1 /\ b[c] = 8 /\ e = d + 1
  <2>1. c = a + 1 /\ b[c] = 8
    BY ONLY <1>13, ReadOne
  <2>2. e = d + 1
    BY ONLY <1>15, ReadOne
  <2> QED
    BY <2>1, <2>2
<1>19. EndsAt(f, 2, g)
  BY <1>2, <1>17, StandsEnd, Zenon
<1>20. c = 5 /\ g = 16
  BY <1>12, <1>14, <1>16, <1>18, <1>19 DEF EndsAt
<1>21. Bytes(b, 16, 4) = t
  <2>1. BytesAre(b, g, 4, t, l)
    BY <1>1, <1>17, FixedRead, Zenon
  <2> QED
    BY <1>20, <2>1, Zenon DEF BytesAre
<1>22. IsLong(b) /\ b[5] = 8 /\ Len(b) > 5 /\ ~(Len(b) < 20)
  <2>1. IsLong(b)
    BY <1>7, <1>8, Zenon DEF IsLong
  <2>2. b[5] = 8
    BY <1>18, <1>20, Zenon
  <2>3. Len(b) > 5 /\ ~(Len(b) < 20)
    <3>1. l > 5 /\ ~(l < 20)
      BY <1>10
    <3> QED
      BY <1>10, <3>1, Zenon
  <2> HIDE DEF y
  <2> QED
    BY <2>1, <2>2, <2>3, Zenon
<1>23. Show(type, b) = ShowPsk(b)
  BY <1>22, LongIsWhole, ShownByFlag, Zenon
<1>24. PICK r : r = ShowPsk(b)
  OBVIOUS
<1>25. PICK p, q, s : r = [name |-> "PSK Extensions (0-RTT)", length |-> p, flag |-> q,
                          inner |-> 9, marker |-> s, timestamp |-> t]
  BY <1>21, <1>22, <1>24, Zenon DEF ShowPsk
<1>26. r.timestamp = t /\ r.name = "PSK Extensions (0-RTT)"
  BY <1>25
<1> QED
  BY <1>23, <1>24, <1>26, Zenon DEF PskTime

\* A DataRecord, whose length counts itself.
LEMMA DataShown ==
  ASSUME NEW t \in Fixed(4), NEW c \in Fixed(4), NEW d \in Seq(Byte),
         NEW b, b = U32(Len(d) + 16) \o <<0, 16, 0, 1>> \o t \o c \o d, Fits(b)
  PROVE  Show(Record, b) = [name |-> "Application Data", type |-> t, cmd |-> c, data |-> d]
<1> DEFINE u == U32(Len(d) + 16)
           k == <<0, 16, 0, 1>>
           v == u \o k
           w == v \o t
           x == w \o c
<1>1. /\ t \in Seq(Nat) /\ Sized(t, 4) /\ c \in Seq(Nat) /\ Sized(c, 4)
      /\ k \in Seq(Nat) /\ Sized(k, 4)
  <2>1. t \in Seq(Byte) /\ Len(t) = 4 /\ c \in Seq(Byte) /\ Len(c) = 4 /\ 4 \in Nat
    BY DEF Fixed
  <2>2. k \in Seq(Nat) /\ Len(k) = 4
    OBVIOUS
  <2> HIDE DEF k
  <2> QED
    BY <2>1, <2>2, BytesNat, Zenon DEF Sized
<1>2. d \in Seq(Nat)
  BY BytesNat
<1>3. PICK n \in Nat : n = Len(d)
  OBVIOUS
<1>4. u \in Seq(Nat) /\ Sized(u, 4)
  <2>1. n + 16 \in Nat
    OBVIOUS
  <2>2. U32(n + 16) \in Seq(Nat) /\ Len(U32(n + 16)) = 4 /\ 4 \in Nat
    BY <2>1, U32Type
  <2> QED
    BY <1>3, <2>2, Zenon DEF Sized
<1> HIDE DEF u, k
<1>5. v \in Seq(Nat) /\ Sized(v, 4 + 4)
  BY <1>1, <1>4, JoinType, JoinLen, Zenon
<1> HIDE DEF v
<1>6. w \in Seq(Nat) /\ Sized(w, 4 + 4 + 4)
  BY <1>1, <1>5, JoinType, JoinLen, Zenon
<1> HIDE DEF w
<1>7. x \in Seq(Nat) /\ Sized(x, 4 + 4 + 4 + 4)
  BY <1>1, <1>6, JoinType, JoinLen, Zenon
<1>8. b = x \o d /\ b \in Seq(Nat)
  BY <1>2, <1>7, JoinType, Zenon DEF x, w, v, u, k
<1> HIDE DEF x
<1>9. PICK l \in Nat : l = Len(b)
  BY <1>8
<1>10. Stands(b, 0, b, l) /\ CutFrom(b, b)
  BY <1>8, <1>9, Whole, Zenon
<1>11. PICK r \in Nat : Stands(b, 0, x, r) /\ Stands(b, r, d, l)
  BY <1>2, <1>7, <1>8, <1>10, Split, Zenon
<1>12. PICK q \in Nat : Stands(b, 0, w, q) /\ Stands(b, q, c, r)
  BY <1>1, <1>6, <1>11, Split, Zenon DEF x
<1>13. PICK p \in Nat : Stands(b, 0, v, p) /\ Stands(b, p, t, q)
  BY <1>1, <1>5, <1>12, Split, Zenon DEF w
<1>14. PICK o \in Nat : Stands(b, 0, u, o) /\ Stands(b, o, k, p)
  BY <1>1, <1>4, <1>13, Split, Zenon DEF v
<1>15. p = 8 /\ q = 12 /\ r = 16 /\ l = 16 + n
  <2>1. EndsAt(0, 4 + 4, p) /\ EndsAt(p, 4, q) /\ EndsAt(q, 4, r)
    BY <1>1, <1>5, <1>12, <1>13, StandsEnd, Zenon
  <2>2. l = r + n
    BY <1>3, <1>11, StandsType
  <2>3. p = 0 + (4 + 4) /\ q = p + 4 /\ r = q + 4
    BY <2>1, Zenon DEF EndsAt
  <2>4. p = 8
    BY <2>3
  <2>5. q = 12
    BY <2>3, <2>4
  <2>6. r = 16
    BY <2>3, <2>5
  <2> QED
    BY ONLY <2>2, <2>4, <2>5, <2>6, n \in Nat
<1>16. Number(b, 0, 4) = l
  <2>1. l < ShortLimit
    BY <1>9, <1>15, Zenon DEF Fits
  <2>2. n + 16 = l
    BY <1>15
  <2>3. Stands(b, 0, U32(l), o)
    BY <1>3, <1>14, <2>2, Zenon DEF u
  <2>4. Has(b, 0, 4)
    BY <1>9, <1>15 DEF Has
  <2> QED
    BY <1>10, <2>1, <2>3, <2>4, ReadFour, Zenon
<1>17. Bytes(b, 8, 4) = t /\ Bytes(b, 12, 4) = c
  <2>1. BytesAre(b, p, 4, t, q) /\ BytesAre(b, q, 4, c, r)
    BY <1>1, <1>12, <1>13, FixedRead, Zenon
  <2> QED
    BY <1>15, <2>1, Zenon DEF BytesAre
<1>18. SubSeq(b, 17, Len(b)) = d
  <2>1. Bytes(b, r, n) = d
    <3>1. Sized(d, n)
      BY <1>3, Zenon DEF Sized
    <3>2. BytesAre(b, r, n, d, l)
      BY <1>11, <3>1, FixedRead, Zenon
    <3> QED
      BY <3>2, Zenon DEF BytesAre
  <2>2. r + 1 = 17 /\ r + n = Len(b)
    BY <1>9, <1>15
  <2> QED
    BY <2>1, <2>2, Zenon DEF Bytes
<1>19. Len(b) >= 16 /\ Number(b, 0, 4) = Len(b)
  BY <1>9, <1>15, <1>16
<1>20. ShowData(b) = [name |-> "Application Data", type |-> t, cmd |-> c, data |-> d]
  BY <1>17, <1>18, <1>19, Zenon DEF ShowData
<1>21. Record # Handshake /\ Record # System
  BY DEF Record, Handshake, System
<1>22. Record # Abort
  BY DEF Record, Abort
<1>23. Show(Record, b) = ShowData(b)
  BY <1>21, <1>22, Zenon DEF Show
<1> QED
  BY <1>20, <1>23, Zenon

\* What ciphertext is shown as.
Ciphers == {Encrypted, [name |-> "Application Data"], [name |-> "Abort (encrypted)"]}

\* Bytes that are no message are shown as what they are taken for.
LEMMA CipherShown ==
  ASSUME NEW type \in RecordTypes, NEW b, Len(b) \in Nat, Len(b) > 5,
         Number(b, 0, 4) # Len(b) - 4, Number(b, 0, 4) # Len(b)
  PROVE  Show(type, b) \in Ciphers
<1>1. type = Handshake \/ type = System \/ type = Record \/ type = Abort
  BY DEF RecordTypes
<1>2. /\ Record # Handshake /\ Record # System /\ Record # Abort
      /\ Abort # Handshake /\ Abort # System
  BY DEF Record, Handshake, System, Abort
<1>3. ~(Len(b) <= 5)
  OBVIOUS
<1>4. CASE type = Handshake \/ type = System
  <2>1. type # Record /\ type # Abort
    BY <1>2, <1>4, Zenon
  <2>2. Show(type, b) = ShowHandshake(b)
    BY <1>3, <1>4, <2>1, Zenon DEF Show
  <2> QED
    BY <2>2, Zenon DEF ShowHandshake, Ciphers
<1>5. CASE type = Record
  <2>1. Show(type, b) = ShowData(b)
    BY <1>2, <1>5, Zenon DEF Show
  <2> QED
    BY <2>1, Zenon DEF ShowData, Ciphers
<1>6. CASE type = Abort
  <2>1. Show(type, b) = ShowAbort(b)
    BY <1>2, <1>6, Zenon DEF Show
  <2> QED
    BY <2>1, Zenon DEF ShowAbort, Ciphers
<1> QED
  BY <1>1, <1>4, <1>5, <1>6, Zenon

\* No panic has another name.
LEMMA NamedNoPanic ==
  ASSUME NEW f, f.name # "panic"
  PROVE  f # Panic
<1>1. Panic.name = "panic"
  BY DEF Panic
<1> QED
  BY <1>1, Zenon

\* An abort is shown as one, and what is too short for a handshake message is not taken
\* for one.
LEMMA RawShown ==
  ASSUME NEW type \in RecordTypes, NEW b, Len(b) \in Nat, type = Abort \/ Len(b) <= 5
  PROVE  Show(type, b) # Panic
<1>1. type = Handshake \/ type = System \/ type = Record \/ type = Abort
  BY DEF RecordTypes
<1>2. /\ Record # Handshake /\ Record # System /\ Record # Abort
      /\ Abort # Handshake /\ Abort # System /\ System # Handshake
  BY DEF Record, Handshake, System, Abort
<1>3. Len(b) <= 5 => ~(Len(b) > 5)
  OBVIOUS
<1>4. CASE type = Handshake
  <2>1. type # Record /\ type # Abort /\ type # System /\ ~(Len(b) > 5)
    BY <1>2, <1>3, <1>4, Zenon
  <2>2. PICK r : r = Show(type, b)
    OBVIOUS
  <2>3. r = [name |-> "Unknown"]
    BY <2>1, <2>2, Zenon DEF Show
  <2>4. r.name # "panic"
    BY <2>3
  <2> QED
    BY <2>2, <2>4, NamedNoPanic, Zenon
<1>5. CASE type = System
  <2>1. type # Record /\ type # Abort /\ Len(b) <= 5 /\ ~(Len(b) > 5)
    BY <1>2, <1>3, <1>5, Zenon
  <2>2. Show(type, b) = Encrypted
    BY <1>5, <2>1, Zenon DEF Show
  <2>3. PICK r : r = Encrypted
    OBVIOUS
  <2>4. r.name # "panic"
    BY <2>3 DEF Encrypted
  <2> QED
    BY <2>2, <2>3, <2>4, NamedNoPanic, Zenon
<1>6. CASE type = Record
  <2>1. Show(type, b) = ShowData(b)
    BY <1>2, <1>6, Zenon DEF Show
  <2>2. PICK r : r = ShowData(b)
    OBVIOUS
  <2>3. \/ r = [name |-> "Application Data"]
        \/ \E x, y, z : r = [name |-> "Application Data", type |-> x, cmd |-> y, data |-> z]
    BY <2>2, Zenon DEF ShowData
  <2>4. r.name # "panic"
    <3>1. CASE r = [name |-> "Application Data"]
      BY <3>1
    <3>2. ASSUME NEW x, NEW y, NEW z,
                 r = [name |-> "Application Data", type |-> x, cmd |-> y, data |-> z]
          PROVE  r.name # "panic"
      BY <3>2
    <3> QED
      BY <2>3, <3>1, <3>2, Zenon
  <2> QED
    BY <2>1, <2>2, <2>4, NamedNoPanic, Zenon
<1>7. CASE type = Abort
  <2>1. Show(type, b) = ShowAbort(b)
    BY <1>2, <1>7, Zenon DEF Show
  <2>2. PICK r : r = ShowAbort(b)
    OBVIOUS
  <2>3. PICK x : r = [name |-> x] /\ x # "panic"
    <3>1. PICK x : x = IF Len(b) >= 5 /\ Number(b, 0, 4) = Len(b) - 4
                         THEN "Abort (plaintext)" ELSE "Abort (encrypted)"
      OBVIOUS
    <3>2. r = [name |-> x]
      BY <2>2, <3>1, Zenon DEF ShowAbort
    <3>3. x = "Abort (plaintext)" \/ x = "Abort (encrypted)"
      BY <3>1, Zenon
    <3>4. x # "panic"
      BY ONLY <3>3
    <3> QED
      BY <3>2, <3>4, Zenon
  <2>4. r.name # "panic"
    BY <2>3
  <2> QED
    BY <2>1, <2>2, <2>4, NamedNoPanic, Zenon
<1> QED
  BY <1>1, <1>4, <1>5, <1>6, <1>7, Zenon

\* At a cursor stands an extension of type t with m entries, for the parser.
MarkerIs(c, t, m) ==
  /\ Has(c.b, c.pos, 6) /\ Has(c.b, c.pos + 6, 1)
  /\ Number(c.b, c.pos + 4, 2) = t /\ c.b[c.pos + 6 + 1] = m

EntriesShown(c) == Cursor(c.b, c.pos + 6 + 1)

\* How a PSK extension is shown.
LEMMA ShowingPsk ==
  ASSUME NEW c, NEW m, MarkerIs(c, 15, m)
  PROVE  KeepsRead(ShowExtension(c), c, TicketEntries(m, EntriesShown(c)), PSK)
<1> DEFINE type == Number(c.b, c.pos + 4, 2)
<1>1. Has(c.b, c.pos, 6) /\ Has(c.b, c.pos + 6, 1) /\ type = 15 /\ c.b[c.pos + 6 + 1] = m
  BY Zenon DEF MarkerIs
<1>2. type # 16
  <2> HIDE DEF type
  <2> QED
    BY <1>1
<1> QED
  BY <1>1, <1>2, Zenon DEF ShowExtension, Item, KeepsRead, EntriesShown

\* The entries of e are kept and the position is p.
KeepsMoved(r, c, e, p, suite) ==
  r = [[e EXCEPT !.pos = p] EXCEPT !.items = Append(c.items, Item(suite, e.items))]

\* How an ECDHE extension is shown.
LEMMA ShowingEcdhe ==
  ASSUME NEW c, NEW m, MarkerIs(c, 16, m), NEW e, e = KeyEntries(m, EntriesShown(c)),
         ~(Len(c.b) - e.pos < 13)
  PROVE  KeepsMoved(ShowExtension(c), c, e, e.pos + 13, ECDHE)
<1> DEFINE type == Number(c.b, c.pos + 4, 2)
<1>1. Has(c.b, c.pos, 6) /\ Has(c.b, c.pos + 6, 1) /\ type = 16 /\ c.b[c.pos + 6 + 1] = m
  BY Zenon DEF MarkerIs
<1>2. type # 15
  <2> HIDE DEF type
  <2> QED
    BY <1>1
<1>3. ShowExtension(c) =
        [[e EXCEPT !.pos = @ + (IF Len(c.b) - e.pos < 13 THEN Len(c.b) - e.pos ELSE 13)]
           EXCEPT !.items = Append(c.items, [suite |-> ECDHE, data |-> e.items])]
  BY <1>1, <1>2, Zenon DEF ShowExtension, EntriesShown
<1> QED
  BY <1>3, Zenon DEF Item, KeepsMoved

\* A PSK extension is shown as it was written.
LEMMA PskExtensionShown ==
  ASSUME NEW item \in Seq(Nat), NEW b, NEW p, NEW q, Stands(b, p, PskBytes(item), q), Fits(b),
         NEW c, NEW its, IsGood(c, b, p, its)
  PROVE  IsGood(ShowExtension(c), b, q, Append(its, Item(PSK, <<item>>)))
<1>1. ExtensionAt(b, p, 15, 1, Long(item), q)
  <2>1. 15 \in Nat /\ 1 \in Nat /\ Long(item) \in Seq(Nat)
    BY LongType
  <2>2. Stands(b, p, Long(<<0, 15, 1>> \o Long(item)), q)
    BY Zenon DEF PskBytes
  <2> QED
    BY <2>1, <2>2, ExtensionHead, Zenon
<1>2. c.b = b /\ c.pos = p /\ c.items = its
  BY GoodFields, Zenon
<1>3. /\ p \in Nat /\ Len(b) \in Nat /\ q \in Nat /\ q <= Len(b) /\ p + 7 <= q
      /\ Number(b, p + 4, 2) = 15 /\ b[p + 7] = 1 /\ Stands(b, p + 7, Long(item), q)
  BY <1>1, Zenon DEF ExtensionAt
<1>4. Has(b, p, 6) /\ Has(b, p + 6, 1) /\ p + 6 + 1 = p + 7
  BY <1>3 DEF Has
<1> DEFINE e == TicketEntries(1, Cursor(b, p + 7))
<1>5. IsGood(e, b, q, <<item>>)
  BY <1>3, PskEntries, Zenon
<1>6. e.items = <<item>>
  BY <1>5, GoodFields, Zenon
<1>7. KeepsRead(ShowExtension(c), c, e, PSK)
  <2>1. c.pos + 6 + 1 = p + 7
    BY <1>2, <1>4, Zenon
  <2>2. MarkerIs(c, 15, 1)
    BY <1>2, <1>3, <1>4, <2>1, Zenon DEF MarkerIs
  <2>3. EntriesShown(c) = Cursor(b, p + 7)
    BY <1>2, <2>1, Zenon DEF EntriesShown
  <2>4. KeepsRead(ShowExtension(c), c, TicketEntries(1, EntriesShown(c)), PSK)
    BY <2>2, ShowingPsk, Zenon
  <2> QED
    BY <2>3, <2>4, Zenon
<1> HIDE DEF e
<1>8. IsGood([e EXCEPT !.items = Append(c.items, Item(PSK, e.items))], b, q,
             Append(c.items, Item(PSK, e.items)))
  BY <1>5, KeptItems, Zenon
<1> QED
  BY <1>2, <1>6, <1>7, <1>8, Zenon DEF KeepsRead

\* An ECDHE extension too, and to its end.
LEMMA EcdheExtensionShown ==
  ASSUME NEW keys \in Seq(Seq(Nat)), NEW b, NEW p, NEW q, Stands(b, p, EcdheBytes(keys), q),
         Fits(b), NEW c, NEW its, IsGood(c, b, p, its)
  PROVE  IsGood(ShowExtension(c), b, q, Append(its, Item(ECDHE, keys)))
<1> DEFINE flat == FlattenSeq(KeyFrames(keys))
           m == Len(keys)
<1>1. m \in Nat /\ flat \in Seq(Nat)
  <2>1. m \in Nat
    OBVIOUS
  <2> QED
    BY <2>1, EcdheBytesType, Zenon
<1>2. ExtensionAt(b, p, 16, m, flat \o TrailingMagic, q)
  BY EcdheExtensionAt, Zenon
<1> HIDE DEF flat
<1>3. c.b = b /\ c.pos = p /\ c.items = its
  BY GoodFields, Zenon
<1>4. /\ p \in Nat /\ Len(b) \in Nat /\ q \in Nat /\ q <= Len(b) /\ p + 7 <= q
      /\ Number(b, p + 4, 2) = 16 /\ b[p + 7] = m /\ Stands(b, p + 7, flat \o TrailingMagic, q)
  BY <1>2, Zenon DEF ExtensionAt
<1>5. Has(b, p, 6) /\ Has(b, p + 6, 1) /\ p + 6 + 1 = p + 7
  BY <1>4 DEF Has
<1>6. PICK r \in Nat : Stands(b, p + 7, flat, r) /\ Stands(b, r, TrailingMagic, q)
  BY <1>1, <1>4, MagicType, Split, Zenon
<1>7. EndsAt(r, 13, q)
  BY <1>6, MagicType, StandsEnd, Zenon
<1>8. r + 13 = q /\ ~(Len(b) - r < 13)
  BY <1>4, <1>7 DEF EndsAt
<1> DEFINE e == KeyEntries(m, Cursor(b, p + 7))
<1>9. IsGood(e, b, r, keys)
  BY <1>6, EcdheEntries, Zenon DEF flat
<1>10. e.b = b /\ e.pos = r /\ e.items = keys
  BY <1>9, GoodFields, Zenon
<1>11. KeepsMoved(ShowExtension(c), c, e, e.pos + 13, ECDHE)
  <2>1. c.pos + 6 + 1 = p + 7
    BY <1>3, <1>5, Zenon
  <2>2. MarkerIs(c, 16, m)
    BY <1>3, <1>4, <1>5, <2>1, Zenon DEF MarkerIs
  <2>3. EntriesShown(c) = Cursor(b, p + 7)
    BY <1>3, <2>1, Zenon DEF EntriesShown
  <2>4. e = KeyEntries(m, EntriesShown(c))
    BY <2>3, Zenon
  <2>5. ~(Len(c.b) - e.pos < 13)
    BY <1>3, <1>8, <1>10, Zenon
  <2> HIDE DEF e, m
  <2> QED
    BY <2>2, <2>4, <2>5, ShowingEcdhe, Zenon
<1> HIDE DEF e
<1> DEFINE moved == [e EXCEPT !.pos = q]
<1>12. IsGood(moved, b, q, keys)
  BY <1>9, MovedOn, Zenon
<1>13. KeepsMoved(ShowExtension(c), c, e, q, ECDHE)
  BY <1>8, <1>10, <1>11, Zenon
<1>14. ShowExtension(c) = [moved EXCEPT !.items = Append(its, Item(ECDHE, keys))]
  BY <1>3, <1>10, <1>13, Zenon DEF KeepsMoved
<1> HIDE DEF moved
<1>15. IsGood([moved EXCEPT !.items = Append(its, Item(ECDHE, keys))], b, q,
              Append(its, Item(ECDHE, keys)))
  BY <1>12, KeptItems, Zenon
<1> QED
  BY <1>14, <1>15, Zenon

\* The loop over the extensions of a hello that is shown.
ShowLoop(h, n, c) ==
  h = [i \in 0..n |->
         IF i = 0 THEN c ELSE IF h[i - 1].ok THEN ShowExtension(h[i - 1]) ELSE h[i - 1]]

\* One round of it, and two.
LEMMA ShowOnce ==
  ASSUME NEW c, c.ok = TRUE
  PROVE  Repeat(1, ShowExtension, c) = ShowExtension(c)
<1> DEFINE h == CHOOSE g : ShowLoop(g, 1, c)
<1>1. \E g : ShowLoop(g, 1, c)
  <2>1. PICK d : d = ShowExtension(c)
    OBVIOUS
  <2>2. PICK f : f = [i \in 0..1 |-> IF i = 0 THEN c ELSE d]
    OBVIOUS
  <2>3. f[0] = c /\ f = [i \in 0..1 |-> f[i]]
    BY <2>2
  <2>4. ASSUME NEW i \in 0..1
        PROVE  f[i] = IF i = 0 THEN c
                      ELSE IF f[i - 1].ok THEN ShowExtension(f[i - 1]) ELSE f[i - 1]
    <3>1. CASE i = 0
      BY <2>3, <3>1, Zenon
    <3>2. CASE i # 0
      <4>1. i - 1 = 0 /\ f[i] = d
        BY <2>2, <3>2
      <4>2. f[i - 1] = c /\ f[i - 1].ok
        BY <2>3, <4>1, Zenon
      <4> QED
        BY <2>1, <3>2, <4>1, <4>2, Zenon
    <3> QED
      BY <3>1, <3>2
  <2>5. ShowLoop(f, 1, c)
    BY <2>3, <2>4, Zenon DEF ShowLoop
  <2> QED
    BY <2>5, Zenon
<1>2. ShowLoop(h, 1, c)
  BY <1>1, Zenon
<1>3. Repeat(1, ShowExtension, c) = h[1]
  BY Zenon DEF Repeat, ShowLoop
<1> HIDE DEF h
<1>4. \A i \in 0..1 :
        h[i] = IF i = 0 THEN c ELSE IF h[i - 1].ok THEN ShowExtension(h[i - 1]) ELSE h[i - 1]
  BY <1>2, Zenon DEF ShowLoop
<1>5. h[0] = c
  BY <1>4
<1>6. h[1] = IF h[0].ok THEN ShowExtension(h[0]) ELSE h[0]
  BY <1>4
<1> QED
  BY <1>3, <1>5, <1>6, Zenon

\* See ShowOnce.
LEMMA ShowTwice ==
  ASSUME NEW c, c.ok = TRUE, NEW d, d = ShowExtension(c), d.ok = TRUE
  PROVE  Repeat(2, ShowExtension, c) = ShowExtension(d)
<1> DEFINE h == CHOOSE g : ShowLoop(g, 2, c)
<1>1. \E g : ShowLoop(g, 2, c)
  <2>1. PICK e : e = ShowExtension(d)
    OBVIOUS
  <2>2. PICK f : f = [i \in 0..2 |-> IF i = 0 THEN c ELSE IF i = 1 THEN d ELSE e]
    OBVIOUS
  <2>3. f[0] = c /\ f[1] = d /\ f[2] = e /\ f = [i \in 0..2 |-> f[i]]
    BY <2>2
  <2>4. ASSUME NEW i \in 0..2
        PROVE  f[i] = IF i = 0 THEN c
                      ELSE IF f[i - 1].ok THEN ShowExtension(f[i - 1]) ELSE f[i - 1]
    <3>1. i = 0 \/ (i = 1 /\ i - 1 = 0 /\ i # 0) \/ (i = 2 /\ i - 1 = 1 /\ i # 0)
      OBVIOUS
    <3>2. CASE i = 0
      BY <2>3, <3>2, Zenon
    <3>3. CASE i = 1 /\ i - 1 = 0 /\ i # 0
      <4>1. f[i] = d /\ f[i - 1] = c /\ f[i - 1].ok
        BY <2>3, <3>3, Zenon
      <4> QED
        BY <3>3, <4>1, Zenon
    <3>4. CASE i = 2 /\ i - 1 = 1 /\ i # 0
      <4>1. f[i] = e /\ f[i - 1] = d /\ f[i - 1].ok
        BY <2>3, <3>4, Zenon
      <4> QED
        BY <2>1, <3>4, <4>1, Zenon
    <3> QED
      BY <3>1, <3>2, <3>3, <3>4, Zenon
  <2>5. ShowLoop(f, 2, c)
    BY <2>3, <2>4, Zenon DEF ShowLoop
  <2> QED
    BY <2>5, Zenon
<1>2. ShowLoop(h, 2, c)
  BY <1>1, Zenon
<1>3. Repeat(2, ShowExtension, c) = h[2]
  BY Zenon DEF Repeat, ShowLoop
<1> HIDE DEF h
<1>4. \A i \in 0..2 :
        h[i] = IF i = 0 THEN c ELSE IF h[i - 1].ok THEN ShowExtension(h[i - 1]) ELSE h[i - 1]
  BY <1>2, Zenon DEF ShowLoop
<1>5. h[0] = c
  BY <1>4
<1>6. h[1] = IF h[0].ok THEN ShowExtension(h[0]) ELSE h[0]
  BY <1>4
<1>7. h[2] = IF h[1].ok THEN ShowExtension(h[1]) ELSE h[1]
  BY <1>4
<1> QED
  BY <1>3, <1>5, <1>6, <1>7, Zenon

\* The items shown are the extensions f maps suites to.
AreShown(z, f) ==
  {z[i] : i \in DOMAIN z} = {[suite |-> r, data |-> f[r]] : r \in DOMAIN f}

\* The extensions of a hello, in the order they are found.
LEMMA ItemsOfOne ==
  ASSUME NEW s, NEW x, NEW f, DOMAIN f = {s}, f[s] = x, NEW z, z = <<Item(s, x)>>
  PROVE  AreShown(z, f)
<1>1. PICK u : u = Item(s, x)
  OBVIOUS
<1>2. DOMAIN z = {1} /\ z[1] = u
  BY <1>1
<1> QED
  BY <1>1, <1>2, Zenon DEF Item, AreShown

\* See ItemsOfOne.
LEMMA ItemsOfTwo ==
  ASSUME NEW s, NEW x, NEW t, NEW y, NEW f, DOMAIN f = {s, t}, f[s] = x, f[t] = y,
         NEW z, z = <<Item(s, x), Item(t, y)>>
  PROVE  AreShown(z, f)
<1>1. PICK u : u = Item(s, x)
  OBVIOUS
<1>2. PICK v : v = Item(t, y)
  OBVIOUS
<1>3. DOMAIN z = {1, 2} /\ z[1] = u /\ z[2] = v
  BY <1>1, <1>2
<1>4. u = [suite |-> s, data |-> f[s]] /\ v = [suite |-> t, data |-> f[t]]
  BY <1>1, <1>2, Zenon DEF Item
<1>5. {z[i] : i \in {1, 2}} = {[suite |-> r, data |-> f[r]] : r \in {s, t}}
  BY <1>3, <1>4, Zenon
<1> QED
  BY <1>3, <1>5, Zenon DEF AreShown

\* An extension is no panic.
LEMMA ItemIsNoPanic ==
  ASSUME NEW s, NEW x
  PROVE  Item(s, x) # Panic
<1>1. DOMAIN Item(s, x) = {"suite", "data"}
  BY DEF Item
<1>2. DOMAIN Panic = {"name"}
  BY DEF Panic
<1> QED
  BY <1>1, <1>2

\* The hello h is shown by its suites, its random and its extensions.
IsShown(f, h, its) ==
  f = [name |-> "ClientHello", suites |-> h.suites, random |-> h.random, extensions |-> its]

\* What is shown of a hello that is read back, from the extensions that are shown.
LEMMA HelloShown ==
  ASSUME NEW h, IsClientHello(h), NEW b, b = HelloBytes(h), Fits(b), b[8] \in Nat, Len(b) \in Nat,
         NEW x, NEW its,
         IsGood(Repeat(b[ExtensionsAt(b)], ShowExtension, Cursor(b, ExtensionsAt(b))), b, x, its),
         ~Panics(its)
  PROVE  IsShown(ShowClientHello(b), h, its)
<1>1. ReadClientHello(b) = h
  BY ClientHelloReadBack, Zenon
<1>2. h # Error
  <2>1. DOMAIN h = {"version", "suites", "random", "timestamp", "extensions"}
    <3>1. h = NewHello(h.suites, h.extensions, h.random, h.timestamp)
      BY Zenon DEF IsClientHello
    <3>2. PICK p, q, r, s : h = NewHello(p, q, r, s)
      BY <3>1, Zenon
    <3> QED
      BY <3>2 DEF NewHello
  <2>2. DOMAIN Error = {"failed"}
    BY DEF Error
  <2> QED
    BY <2>1, <2>2
<1>3. PICK p, q, r : /\ Len(b) >= 8 /\ Has(b, 0, ExtensionsAt(b))
                     /\ h = [version |-> p, suites |-> SuitesOf(b),
                             random |-> Bytes(b, RandomAt(b), RandomLen),
                             timestamp |-> q, extensions |-> r]
  <2>1. PICK e : e = Repeat(b[ExtensionsAt(b)], ReadExtension, Cursor(b, ExtensionsAt(b)))
    OBVIOUS
  <2>2. PICK p, q, r : /\ p = b[6] + 256 * b[7] /\ q = Bytes(b, RandomAt(b) + RandomLen, 4)
                       /\ r = ByCipher(e.items)
    OBVIOUS
  <2>3. /\ Len(b) >= 8 /\ Has(b, 0, ExtensionsAt(b)) /\ e.ok
        /\ h = [version |-> p, suites |-> SuitesOf(b),
                random |-> Bytes(b, RandomAt(b), RandomLen),
                timestamp |-> q, extensions |-> r]
    BY <1>1, <1>2, <2>1, <2>2, Zenon DEF ReadClientHello
  <2> QED
    BY <2>3, Zenon
<1>4. PICK u : u = SuitesOf(b)
  OBVIOUS
<1>5. PICK v : v = Bytes(b, RandomAt(b), RandomLen)
  OBVIOUS
<1>6. h.suites = u /\ h.random = v
  BY <1>3, <1>4, <1>5
<1>7. ~(Len(b) < 8) /\ Has(b, RandomAt(b), RandomLen + 4)
  <2>1. PICK n \in Nat : n = b[8]
    OBVIOUS
  <2>2. PICK k \in Nat : k = RandomLen
    BY CodecAssumption
  <2>3. PICK l \in Nat : l = Len(b)
    OBVIOUS
  <2>4. RandomAt(b) = 8 + 2 * n /\ ExtensionsAt(b) = 8 + 2 * n + k + 9
    BY <2>1, <2>2, Zenon DEF RandomAt, ExtensionsAt
  <2>5. 0 + (8 + 2 * n + k + 9) <= l
    BY <1>3, <2>3, <2>4, Zenon DEF Has
  <2>6. ~(l < 8) /\ 8 + 2 * n + (k + 4) <= l
    BY ONLY <2>5, n \in Nat, k \in Nat, l \in Nat
  <2> QED
    BY <2>2, <2>3, <2>4, <2>6, Zenon DEF Has
<1> DEFINE c == Repeat(b[ExtensionsAt(b)], ShowExtension, Cursor(b, ExtensionsAt(b)))
<1>8. c.items = its
  BY GoodFields, Zenon
<1> HIDE DEF c
<1>9. ShowClientHello(b) = [name |-> "ClientHello", suites |-> u, random |-> v, extensions |-> its]
  BY <1>3, <1>4, <1>5, <1>7, <1>8, Zenon DEF ShowClientHello, c
<1> QED
  BY <1>6, <1>9, Zenon DEF IsShown

\* What is shown of a hello are its suites, its random and its extensions.
ShowsHello(f, h, its) == IsShown(f, h, its) /\ AreShown(its, h.extensions)

\* A hello is shown from its parts, if its extensions can be.
LEMMA HelloOfParts ==
  ASSUME NEW type, type \in {Handshake, System}, NEW h, IsClientHello(h),
         NEW b, b = HelloBytes(h), Fits(b), IsFramedHello(b),
         NEW n \in Nat, NEW x, x = 8 + 2 * n, NEW suites, NEW e,
         HelloAt(b, n, x, suites, h.random, h.timestamp, e),
         NEW its, IsGood(Repeat(n, ShowExtension, Cursor(b, x + RandomLen + 9)), b, Len(b), its),
         ~Panics(its)
  PROVE  IsShown(Show(type, b), h, its)
<1>1. /\ b \in Seq(Nat) /\ x \in Nat /\ b[8] = n
      /\ b[x + RandomLen + 9] = n /\ Stands(b, x + RandomLen + 9, e, Len(b))
  BY Zenon DEF HelloAt
<1>2. RandomAt(b) = x
  BY <1>1, Zenon DEF RandomAt
<1>3. ExtensionsAt(b) = x + RandomLen + 9
  BY <1>2, Zenon DEF ExtensionsAt
<1>4. PICK l \in Nat : l = Len(b)
  BY <1>1
<1>5. IsLong(b) /\ b[5] = 1 /\ Len(b) > 5
  <2>1. IsLong(b) /\ b[5] = 1
    BY Zenon DEF IsFramedHello
  <2>2. PICK k \in Nat : k = RandomLen
    BY CodecAssumption
  <2>3. x + k + 9 <= l
    BY <1>1, <1>4, <2>2, StandsType, Zenon
  <2>4. l > 5
    BY ONLY <2>3, x \in Nat, k \in Nat, l \in Nat, <1>1
  <2> QED
    BY <1>4, <2>1, <2>4, Zenon
<1>6. Show(type, b) = ShowClientHello(b)
  BY <1>5, LongIsWhole, ShownByFlag, Zenon
<1>7. IsGood(Repeat(b[ExtensionsAt(b)], ShowExtension, Cursor(b, ExtensionsAt(b))), b, Len(b), its)
  <2>1. b[ExtensionsAt(b)] = n
    BY <1>1, <1>3, Zenon
  <2> QED
    BY <1>3, <2>1, Zenon
<1>8. IsShown(ShowClientHello(b), h, its)
  <2>1. b[8] \in Nat /\ Len(b) \in Nat
    BY <1>1, <1>4, Zenon
  <2> QED
    BY <1>7, <2>1, HelloShown, Zenon
<1> QED
  BY <1>6, <1>8, Zenon

\* A hello of one suite.
LEMMA OneSuiteShown ==
  ASSUME NEW type, type \in {Handshake, System}, NEW h, IsClientHello(h),
         NEW b, b = HelloBytes(h), Fits(b), NEW suite \in Nat, h.suites = <<suite>>,
         NEW data, h.extensions[suite] = data,
         NEW e, ExtensionBytes(suite, data) = e, e \in Seq(Nat),
         \A p, c : Stands(b, p, e, Len(b)) /\ IsGood(c, b, p, <<>>) =>
           IsGood(ShowExtension(c), b, Len(b), Append(<<>>, Item(suite, data)))
  PROVE  \E its : ShowsHello(Show(type, b), h, its)
<1>1. HelloAt(b, 1, 10, U16(suite), h.random, h.timestamp, e) /\ IsFramedHello(b)
  <2>1. ExtensionBytes(suite, h.extensions[suite]) = e
    BY Zenon
  <2> QED
    BY <2>1, LayoutOfOne, Zenon
<1> DEFINE at == 10 + RandomLen + 9
           c == Cursor(b, at)
<1>2. Stands(b, at, e, Len(b))
  BY <1>1, Zenon DEF HelloAt
<1>3. IsGood(c, b, at, <<>>) /\ c.ok = TRUE
  BY NewCursor, Zenon
<1> HIDE DEF c
<1>4. PICK i : i = Item(suite, data)
  OBVIOUS
<1>5. PICK its : its = <<i>>
  OBVIOUS
<1>6. Append(<<>>, i) = its
  BY <1>5, AppendTwo, Zenon
<1>7. IsGood(Repeat(1, ShowExtension, c), b, Len(b), its)
  <2>1. IsGood(ShowExtension(c), b, Len(b), Append(<<>>, Item(suite, data)))
    BY <1>2, <1>3, Zenon
  <2>2. Repeat(1, ShowExtension, c) = ShowExtension(c)
    BY <1>3, ShowOnce, Zenon
  <2> QED
    BY <1>4, <1>6, <2>1, <2>2, Zenon
<1>8. ~Panics(its)
  <2>1. DOMAIN its = {1} /\ its[1] = i
    BY <1>5
  <2>2. i # Panic
    BY <1>4, ItemIsNoPanic, Zenon
  <2> QED
    BY <2>1, <2>2, Zenon DEF Panics
<1>9. IsShown(Show(type, b), h, its)
  <2>1. 1 \in Nat /\ 10 = 8 + 2 * 1
    OBVIOUS
  <2>2. IsGood(Repeat(1, ShowExtension, Cursor(b, 10 + RandomLen + 9)), b, Len(b), its)
    BY <1>7, Zenon DEF c
  <2> HIDE DEF at
  <2> QED
    BY <1>1, <1>8, <2>1, <2>2, HelloOfParts, Zenon
<1>10. AreShown(its, h.extensions)
  <2>1. DOMAIN h.extensions = {suite}
    <3>1. DOMAIN h.extensions = ToSet(h.suites)
      BY ExtensionFields, Zenon
    <3>2. ToSet(<<suite>>) = {suite}
      BY SuiteSets, Zenon
    <3> QED
      BY <3>1, <3>2, Zenon
  <2>2. PICK f : f = h.extensions
    OBVIOUS
  <2>3. DOMAIN f = {suite} /\ f[suite] = data
    BY <2>1, <2>2, Zenon
  <2>4. its = <<Item(suite, data)>>
    BY <1>4, <1>5, Zenon
  <2>5. AreShown(its, f)
    BY <2>3, <2>4, ItemsOfOne, Zenon
  <2> QED
    BY <2>2, <2>5, Zenon
<1> QED
  BY <1>9, <1>10, Zenon DEF ShowsHello

\* A hello of both suites: the ticket is shown first.
LEMMA BothSuitesShown ==
  ASSUME NEW type, type \in {Handshake, System}, NEW h, IsClientHello(h),
         NEW b, b = HelloBytes(h), Fits(b), h.suites = <<ECDHE, PSK>>
  PROVE  \E its : ShowsHello(Show(type, b), h, its)
<1>1. PICK item \in Seq(Nat) : HelloOfBoth(b, h, item)
  BY LayoutOfBoth, Zenon
<1> DEFINE keys == h.extensions[ECDHE]
           x == PskBytes(item)
           y == EcdheBytes(keys)
           e == x \o y
           suites == U16(ECDHE) \o U16(PSK)
           at == 12 + RandomLen + 9
           c == Cursor(b, at)
           d == ShowExtension(c)
<1>2. /\ DOMAIN h.extensions = {PSK, ECDHE}
      /\ keys \in Seq(Seq(Nat)) /\ h.extensions[PSK] = <<item>>
      /\ HelloAt(b, 2, 12, suites, h.random, h.timestamp, e) /\ IsFramedHello(b)
  BY <1>1, Zenon DEF HelloOfBoth
<1> HIDE DEF keys, suites
<1>3. x \in Seq(Nat) /\ y \in Seq(Nat)
  BY <1>2, PskBytesType, EcdheBytesType, Zenon
<1> HIDE DEF x, y
<1>4. Stands(b, at, e, Len(b))
  BY <1>2, Zenon DEF HelloAt
<1> HIDE DEF at
<1>5. PICK m \in Nat : Stands(b, at, x, m) /\ Stands(b, m, y, Len(b))
  BY <1>3, <1>4, Split, Zenon
<1>6. IsGood(c, b, at, <<>>) /\ c.ok = TRUE
  BY NewCursor, Zenon
<1> HIDE DEF c
<1>7. PICK i, k : i = Item(PSK, <<item>>) /\ k = Item(ECDHE, keys)
  OBVIOUS
<1>8. PICK one : one = <<i>>
  OBVIOUS
<1>9. PICK its : its = <<i, k>>
  OBVIOUS
<1>10. Append(<<>>, i) = one /\ Append(one, k) = its
  BY <1>8, <1>9, AppendTwo, Zenon
<1>11. IsGood(d, b, m, one)
  <2>1. IsGood(ShowExtension(c), b, m, Append(<<>>, Item(PSK, <<item>>)))
    BY <1>5, <1>6, PskExtensionShown, Zenon DEF x
  <2> QED
    BY <1>7, <1>10, <2>1, Zenon
<1>12. d.ok = TRUE
  BY <1>11, GoodFields, Zenon
<1> HIDE DEF d
<1>13. IsGood(ShowExtension(d), b, Len(b), its)
  <2>1. IsGood(ShowExtension(d), b, Len(b), Append(one, Item(ECDHE, keys)))
    BY <1>2, <1>5, <1>11, EcdheExtensionShown, Zenon DEF y
  <2> QED
    BY <1>7, <1>10, <2>1, Zenon
<1>14. IsGood(Repeat(2, ShowExtension, c), b, Len(b), its)
  <2>1. Repeat(2, ShowExtension, c) = ShowExtension(d)
    BY <1>6, <1>12, ShowTwice, Zenon DEF d
  <2> QED
    BY <1>13, <2>1, Zenon
<1>15. ~Panics(its)
  <2>1. DOMAIN its = {1, 2} /\ its[1] = i /\ its[2] = k
    BY <1>9
  <2>2. i # Panic /\ k # Panic
    BY <1>7, ItemIsNoPanic, Zenon
  <2> QED
    BY <2>1, <2>2, Zenon DEF Panics
<1>16. IsShown(Show(type, b), h, its)
  <2>1. 2 \in Nat /\ 12 = 8 + 2 * 2
    OBVIOUS
  <2>2. IsGood(Repeat(2, ShowExtension, Cursor(b, 12 + RandomLen + 9)), b, Len(b), its)
    BY <1>14, Zenon DEF c, at
  <2> HIDE DEF e
  <2> QED
    BY <1>2, <1>15, <2>1, <2>2, HelloOfParts, Zenon
<1>17. AreShown(its, h.extensions)
  <2>1. PICK f : f = h.extensions
    OBVIOUS
  <2>2. DOMAIN f = {PSK, ECDHE} /\ f[PSK] = <<item>> /\ f[ECDHE] = keys
    BY <1>2, <2>1, Zenon DEF keys
  <2>3. its = <<Item(PSK, <<item>>), Item(ECDHE, keys)>>
    BY <1>7, <1>9, Zenon
  <2>4. AreShown(its, f)
    BY <2>2, <2>3, ItemsOfTwo, Zenon
  <2> QED
    BY <2>1, <2>4, Zenon
<1> QED
  BY <1>16, <1>17, Zenon DEF ShowsHello

\* Every ClientHello is shown as it was sent.
LEMMA ClientHelloShown ==
  ASSUME NEW type, type \in {Handshake, System}, NEW h, IsClientHello(h),
         NEW b, b = HelloBytes(h), Fits(b)
  PROVE  \E its : ShowsHello(Show(type, b), h, its)
<1>1. h.suites = <<ECDHE>> \/ h.suites = <<PSK>> \/ h.suites = <<ECDHE, PSK>>
  BY HelloFields, Zenon
<1>2. ASSUME NEW suite, h.suites = <<suite>> PROVE suite \in DOMAIN h.extensions
  <2>1. ToSet(<<suite>>) = {suite}
    BY SuiteSets, Zenon
  <2>2. DOMAIN h.extensions = ToSet(h.suites)
    BY ExtensionFields, Zenon
  <2> QED
    BY <1>2, <2>1, <2>2, Zenon
<1>3. CASE h.suites = <<ECDHE>>
  <2>1. PICK keys \in Seq(Seq(Nat)) : keys = h.extensions[ECDHE]
    BY <1>2, <1>3, ExtensionFields, Zenon
  <2>2. ExtensionBytes(ECDHE, keys) = EcdheBytes(keys) /\ EcdheBytes(keys) \in Seq(Nat)
    BY ExtensionIs, EcdheBytesType, Zenon
  <2>3. PICK e \in Seq(Nat) : e = EcdheBytes(keys)
    BY <2>2, Zenon
  <2>4. ASSUME NEW p, NEW c, Stands(b, p, e, Len(b)), IsGood(c, b, p, <<>>)
        PROVE  IsGood(ShowExtension(c), b, Len(b), Append(<<>>, Item(ECDHE, keys)))
    BY <2>3, <2>4, EcdheExtensionShown, Zenon
  <2>5. \A p, c : Stands(b, p, e, Len(b)) /\ IsGood(c, b, p, <<>>) =>
          IsGood(ShowExtension(c), b, Len(b), Append(<<>>, Item(ECDHE, keys)))
    BY <2>4, Zenon
  <2> QED
    BY <1>3, <2>1, <2>2, <2>3, <2>5, SuiteNumbers, OneSuiteShown, Zenon
<1>4. CASE h.suites = <<PSK>>
  <2>1. PICK item \in Seq(Nat) : h.extensions[PSK] = <<item>>
                                 /\ ExtensionBytes(PSK, <<item>>) = PskBytes(item)
    BY <1>2, <1>4, PskItem, Zenon
  <2>2. PICK items : items = <<item>>
    OBVIOUS
  <2>3. PICK e \in Seq(Nat) : e = PskBytes(item)
    BY PskBytesType, Zenon
  <2>4. ASSUME NEW p, NEW c, Stands(b, p, e, Len(b)), IsGood(c, b, p, <<>>)
        PROVE  IsGood(ShowExtension(c), b, Len(b), Append(<<>>, Item(PSK, items)))
    BY <2>2, <2>3, <2>4, PskExtensionShown, Zenon
  <2>5. \A p, c : Stands(b, p, e, Len(b)) /\ IsGood(c, b, p, <<>>) =>
          IsGood(ShowExtension(c), b, Len(b), Append(<<>>, Item(PSK, items)))
    BY <2>4, Zenon
  <2> QED
    BY <1>4, <2>1, <2>2, <2>3, <2>5, SuiteNumbers, OneSuiteShown, Zenon
<1>5. CASE h.suites = <<ECDHE, PSK>>
  BY <1>5, BothSuitesShown, Zenon
<1> QED
  BY <1>1, <1>3, <1>4, <1>5, Zenon

\* A ServerHello with another flag has the same fields.
LEMMA FlaggedFields ==
  ASSUME NEW h, NEW a, NEW l, ServerFields(a, h, l), NEW b, b = ReplaceAt(a, 5, 2)
  PROVE  ServerFields(b, h, l) /\ b[5] = 2
<1>1. /\ a \in Seq(Nat) /\ l \in Nat /\ l = Len(a)
      /\ Number(a, 0, 4) = l - 4
      /\ Stands(a, 5, U16(h.version), 7) /\ Stands(a, 7, U16(h.suite), 9)
      /\ Stands(a, 9, h.random, 9 + RandomLen)
      /\ Stands(a, 9 + RandomLen, U32(KeyLen + 13), 13 + RandomLen)
      /\ Stands(a, 13 + RandomLen, <<1>>, 14 + RandomLen)
      /\ Stands(a, 14 + RandomLen, U32(KeyLen + 8), 18 + RandomLen)
      /\ Stands(a, 18 + RandomLen, <<0, 16, 0, 0, 0, 1>>, 24 + RandomLen)
      /\ Stands(a, 24 + RandomLen, Short(h.key), l)
      /\ l = 26 + RandomLen + KeyLen
  BY Zenon DEF ServerFields
<1>0. a \in Seq(Nat) /\ l \in Nat /\ l = Len(a)
  BY <1>1, Zenon
<1>2. PICK r \in Nat : r = RandomLen
  BY CodecAssumption
<1>3. PICK k \in Nat : k = KeyLen
  BY CodecAssumption
<1>4. 5 \in 1..l
  <2>1. l = 26 + r + k
    BY <1>1, <1>2, <1>3, Zenon
  <2> QED
    BY <1>1, <2>1
<1>5. /\ b \in Seq(Nat) /\ Len(b) = l /\ b[5] = 2
      /\ \A i \in 1..l : i # 5 => b[i] = a[i]
  <2>1. b = [a EXCEPT ![5] = 2]
    BY Zenon DEF ReplaceAt
  <2>2. PICK x, y : x = 5 /\ y = 2 /\ y \in Nat
    OBVIOUS
  <2>3. b = [a EXCEPT ![x] = y] /\ x \in 1..l
    BY <1>4, <2>1, <2>2, Zenon
  <2>4. DOMAIN a = 1..l
    BY ONLY <1>0
  <2>5. b \in Seq(Nat) /\ Len(b) = l
    BY ONLY <1>0, <2>2, <2>3
  <2>6. b[x] = y /\ \A i \in 1..l : i # x => b[i] = a[i]
    BY <2>3, <2>4, Zenon
  <2> QED
    BY <2>2, <2>5, <2>6, Zenon
<1>6. ASSUME NEW p, NEW d, NEW q, p >= 5, Stands(a, p, d, q) PROVE Stands(b, p, d, q)
  <2>1. PICK n \in Nat : n = Len(d)
    BY <1>6 DEF Stands
  <2>2. /\ a \in Seq(Nat) /\ d \in Seq(Nat)
        /\ p \in Nat /\ q \in Nat /\ q = p + n /\ q <= l
        /\ \A i \in 1..n : a[p + i] = d[i]
    BY <1>1, <1>6, <2>1, Zenon DEF Stands
  <2>3. ASSUME NEW i \in 1..n PROVE b[p + i] = d[i]
    <3>1. p + i \in 1..l /\ p + i # 5
      <4>1. p >= 5 /\ p \in Nat /\ p + n <= l
        BY <1>6, <2>2, Zenon
      <4> QED
        BY ONLY <4>1, i \in 1..n, n \in Nat, <1>0
    <3>2. b[p + i] = a[p + i]
      BY <1>5, <3>1, Zenon
    <3> QED
      BY <2>2, <3>2, Zenon
  <2> QED
    BY <1>5, <2>1, <2>2, <2>3, Zenon DEF Stands
<1>7. Number(b, 0, 4) = l - 4
  <2>1. /\ 0 + 1 \in 1..l /\ 0 + 2 \in 1..l /\ 0 + 3 \in 1..l /\ 0 + 4 \in 1..l
        /\ 0 + 1 # 5 /\ 0 + 2 # 5 /\ 0 + 3 # 5 /\ 0 + 4 # 5
    BY <1>1, <1>4
  <2>2. /\ b[0 + 1] = a[0 + 1] /\ b[0 + 2] = a[0 + 2] /\ b[0 + 3] = a[0 + 3]
        /\ b[0 + 4] = a[0 + 4]
    BY <1>5, <2>1, Zenon
  <2>3. Number(b, 0, 4) = Number(a, 0, 4)
    BY ONLY <2>2 DEF Number
  <2> QED
    BY <1>1, <2>3, Zenon
<1>8. /\ 5 >= 5 /\ 7 >= 5 /\ 9 >= 5 /\ 9 + RandomLen >= 5 /\ 13 + RandomLen >= 5
      /\ 14 + RandomLen >= 5 /\ 18 + RandomLen >= 5 /\ 24 + RandomLen >= 5
  BY <1>2
<1> QED
  BY <1>1, <1>5, <1>6, <1>7, <1>8, Zenon DEF ServerFields

\* It is told by its length.
LEMMA ServerHasItsLength ==
  ASSUME NEW h, NEW b, NEW l, ServerFields(b, h, l)
  PROVE  HasItsLength(b)
<1>1. l \in Nat /\ l = Len(b) /\ Number(b, 0, 4) = l - 4 /\ l = 26 + RandomLen + KeyLen
  BY Zenon DEF ServerFields
<1>2. RandomLen \in Nat /\ KeyLen \in Nat
  BY CodecAssumption
<1>3. l > 5
  BY <1>1, <1>2
<1> QED
  BY <1>1, <1>3, Zenon DEF HasItsLength

\* The numbers in front of a ServerHello's key.
LEMMA ServerNumbers ==
  ASSUME NEW h \in ServerHello, NEW b, NEW l, ServerFields(b, h, l)
  PROVE  /\ Number(b, 14 + RandomLen, 4) = KeyLen + 8
         /\ Number(b, 24 + RandomLen, 2) = KeyLen
         /\ b[14 + RandomLen] = 1
<1>1. /\ b \in Seq(Nat) /\ l \in Nat /\ l = Len(b)
      /\ Stands(b, 13 + RandomLen, <<1>>, 14 + RandomLen)
      /\ Stands(b, 14 + RandomLen, U32(KeyLen + 8), 18 + RandomLen)
      /\ Stands(b, 24 + RandomLen, Short(h.key), l)
      /\ l = 26 + RandomLen + KeyLen
  BY Zenon DEF ServerFields
<1>2. PICK r \in Nat : r = RandomLen
  BY CodecAssumption
<1>3. PICK k \in Nat : k = KeyLen /\ k <= 255
  BY CodecAssumption
<1>4. CutFrom(b, b)
  BY <1>1, Whole, Zenon
<1>5. l = 26 + r + k
  BY <1>1, <1>2, <1>3, Zenon
<1>6. Number(b, 14 + RandomLen, 4) = KeyLen + 8
  <2>1. PICK n \in Nat : n = k + 8 /\ n < ShortLimit
    BY <1>3 DEF ShortLimit
  <2>2. Has(b, 14 + r, 4)
    BY <1>1, <1>5 DEF Has
  <2>3. Stands(b, 14 + RandomLen, U32(n), 18 + RandomLen)
    BY <1>1, <1>3, <2>1, Zenon
  <2>4. Has(b, 14 + RandomLen, 4)
    BY <1>2, <2>2, Zenon
  <2>5. Number(b, 14 + RandomLen, 4) = n
    BY <1>4, <2>1, <2>3, <2>4, ReadFour, Zenon
  <2> QED
    BY <1>3, <2>1, <2>5, Zenon
<1>7. Number(b, 24 + RandomLen, 2) = KeyLen
  <2>1. h.key \in Seq(Nat) /\ Len(h.key) = k
    BY <1>3, ServerHelloFields, Zenon DEF Sized
  <2>2. Stands(b, 24 + RandomLen, U16(k) \o h.key, l)
    BY <1>1, <2>1, Zenon DEF Short
  <2>3. U16(k) \in Seq(Nat)
    BY U16Is
  <2>4. PICK m \in Nat : Stands(b, 24 + RandomLen, U16(k), m)
    BY <2>1, <2>2, <2>3, Split, Zenon
  <2>5. Has(b, 24 + r, 2)
    BY <1>1, <1>5 DEF Has
  <2>6. Has(b, 24 + RandomLen, 2)
    BY <1>2, <2>5, Zenon
  <2>7. Number(b, 24 + RandomLen, 2) = k
    BY <1>4, <2>4, <2>6, ReadTwo, Zenon
  <2> QED
    BY <1>3, <2>7, Zenon
<1>8. b[14 + RandomLen] = 1
  BY <1>1, ReadOne
<1> QED
  BY <1>6, <1>7, <1>8, Zenon

\* The loop over the extensions of a ServerHello that is shown.
ShowServerLoop(h, n, c) ==
  h = [i \in 0..n |->
         IF i = 0 THEN c ELSE IF h[i - 1].ok THEN ShowServerExtension(h[i - 1]) ELSE h[i - 1]]

\* One round of it.
LEMMA ShowServerOnce ==
  ASSUME NEW c, c.ok = TRUE
  PROVE  Repeat(1, ShowServerExtension, c) = ShowServerExtension(c)
<1> DEFINE h == CHOOSE g : ShowServerLoop(g, 1, c)
<1>1. \E g : ShowServerLoop(g, 1, c)
  <2>1. PICK d : d = ShowServerExtension(c)
    OBVIOUS
  <2>2. PICK f : f = [i \in 0..1 |-> IF i = 0 THEN c ELSE d]
    OBVIOUS
  <2>3. f[0] = c /\ f = [i \in 0..1 |-> f[i]]
    BY <2>2
  <2>4. ASSUME NEW i \in 0..1
        PROVE  f[i] = IF i = 0 THEN c
                      ELSE IF f[i - 1].ok THEN ShowServerExtension(f[i - 1]) ELSE f[i - 1]
    <3>1. CASE i = 0
      BY <2>3, <3>1, Zenon
    <3>2. CASE i # 0
      <4>1. i - 1 = 0 /\ f[i] = d
        BY <2>2, <3>2
      <4>2. f[i - 1] = c /\ f[i - 1].ok
        BY <2>3, <4>1, Zenon
      <4> QED
        BY <2>1, <3>2, <4>1, <4>2, Zenon
    <3> QED
      BY <3>1, <3>2
  <2>5. ShowServerLoop(f, 1, c)
    BY <2>3, <2>4, Zenon DEF ShowServerLoop
  <2> QED
    BY <2>5, Zenon
<1>2. ShowServerLoop(h, 1, c)
  BY <1>1, Zenon
<1>3. Repeat(1, ShowServerExtension, c) = h[1]
  BY Zenon DEF Repeat, ShowServerLoop
<1> HIDE DEF h
<1>4. \A i \in 0..1 :
        h[i] = IF i = 0 THEN c
               ELSE IF h[i - 1].ok THEN ShowServerExtension(h[i - 1]) ELSE h[i - 1]
  BY <1>2, Zenon DEF ShowServerLoop
<1>5. h[0] = c
  BY <1>4
<1>6. h[1] = IF h[0].ok THEN ShowServerExtension(h[0]) ELSE h[0]
  BY <1>4
<1> QED
  BY <1>3, <1>5, <1>6, Zenon

\* A ServerHello's extension is shown with its key, and to its end.
LEMMA ServerExtensionShown ==
  ASSUME NEW h \in ServerHello, NEW b, NEW l, ServerFields(b, h, l),
         NEW c, IsGood(c, b, 14 + RandomLen, <<>>)
  PROVE  IsGood(ShowServerExtension(c), b, l, <<[key |-> h.key]>>)
<1> DEFINE p == 14 + RandomLen
           at == 24 + RandomLen
<1>1. c.b = b /\ c.pos = p /\ c.items = <<>>
  BY GoodFields, Zenon
<1>2. /\ Len(b) = l /\ l \in Nat /\ l >= 26 + RandomLen
      /\ HasShort(b, at) /\ ShortAt(b, at) = h.key /\ PastShort(b, at) = l
  <2>1. ServerValues(b, h, l)
    BY ServerRead, Zenon
  <2> QED
    BY <2>1, Zenon DEF ServerValues
<1>3. Number(b, p, 4) = KeyLen + 8 /\ Number(b, at, 2) = KeyLen
  BY ServerNumbers, Zenon
<1>4. PICK r \in Nat : r = RandomLen
  BY CodecAssumption
<1>5. PICK k \in Nat : k = KeyLen
  BY CodecAssumption
<1>6. p + 10 = at /\ Has(b, p, 12)
  <2>1. 14 + r + 10 = 24 + r
    OBVIOUS
  <2>2. l >= 26 + r
    BY <1>2, <1>4, Zenon
  <2>3. 14 + r + 12 <= l
    BY <1>2, <2>2
  <2> QED
    BY <1>2, <1>4, <2>1, <2>3, Zenon DEF Has
<1>7. ~(KeyLen + 8 < 8 + KeyLen) /\ (KeyLen + 8) - (8 + KeyLen) = 0
  <2>1. ~(k + 8 < 8 + k) /\ (k + 8) - (8 + k) = 0
    OBVIOUS
  <2> QED
    BY <1>5, <2>1, Zenon
<1> HIDE DEF p, at
<1>8. PICK i : i = [key |-> h.key]
  OBVIOUS
<1>9. PICK its : its = <<i>>
  OBVIOUS
<1>10. Append(<<>>, i) = its
  BY <1>9, AppendTwo, Zenon
<1>11. PICK d : d = [c EXCEPT !.pos = l, !.items = Append(@, i)]
  OBVIOUS
<1>12. d = Move(c, l, its)
  BY <1>1, <1>10, <1>11, Zenon DEF Move
<1>13. IsGood(d, b, l, its)
  BY <1>12, Moved, Zenon
<1>14. ShowServerExtension(c) = Skip(d, 0)
  <2>1. c.pos + 10 = at /\ Has(c.b, c.pos, 12) /\ HasShort(c.b, at)
    BY <1>1, <1>2, <1>6, Zenon
  <2>2. Number(c.b, c.pos, 4) = KeyLen + 8 /\ Number(c.b, at, 2) = KeyLen
    BY <1>1, <1>3, Zenon
  <2>3. ShowServerExtension(c)
          = Skip([c EXCEPT !.pos = PastShort(c.b, at),
                           !.items = Append(@, [key |-> ShortAt(c.b, at)])],
                 (KeyLen + 8) - (8 + KeyLen))
    BY <1>7, <2>1, <2>2, Zenon DEF ShowServerExtension
  <2>4. PastShort(c.b, at) = l /\ [key |-> ShortAt(c.b, at)] = i
    BY <1>1, <1>2, <1>8, Zenon
  <2> QED
    BY <1>7, <1>11, <2>3, <2>4, Zenon
<1>15. d.b = b /\ d.pos = l
  BY <1>13, GoodFields, Zenon
<1>16. Skip(d, 0) = [d EXCEPT !.pos = l]
  <2>1. l + 0 = l /\ l <= Len(b)
    BY <1>2
  <2>2. Has(d.b, d.pos, 0)
    BY <1>15, <2>1, Zenon DEF Has
  <2>3. [d EXCEPT !.pos = @ + 0] = [d EXCEPT !.pos = l]
    BY <1>15, <2>1, Zenon
  <2> QED
    BY <2>2, <2>3, Zenon DEF Skip
<1>17. IsGood([d EXCEPT !.pos = l], b, l, its)
  BY <1>13, MovedOn, Zenon
<1> QED
  BY <1>8, <1>9, <1>14, <1>16, <1>17, Zenon

\* A ServerHello with the flag that is looked for is shown as it was sent.
LEMMA FlaggedShown ==
  ASSUME NEW type, type \in {Handshake, System}, NEW h \in ServerHello,
         NEW a, a = ServerHelloBytes(h), NEW b, b = ReplaceAt(a, 5, 2), Fits(b)
  PROVE  Show(type, b) = [name |-> "ServerHello", suite |-> h.suite, random |-> h.random,
                          extensions |-> <<[key |-> h.key]>>]
<1>1. Len(b) = Len(a)
  <2>1. a = Long(<<1>> \o U16(h.version) \o U16(h.suite) \o h.random
                   \o Long(<<1>> \o Long(<<0, 16, 0, 0, 0, 1>> \o Short(h.key))))
    BY Zenon DEF ServerHelloBytes
  <2> QED
    BY <2>1 DEF ReplaceAt
<1>2. PICK l \in Nat : ServerFields(a, h, l)
  BY <1>1, ServerLayout, Zenon DEF Fits
<1>3. ServerFields(b, h, l) /\ b[5] = 2
  BY <1>2, FlaggedFields, Zenon
<1>4. Show(type, b) = ShowServerHello(b)
  BY <1>3, ServerHasItsLength, ShownByFlag, Zenon
<1> DEFINE at == 14 + RandomLen
           c == Cursor(b, at)
<1>5. IsGood(c, b, at, <<>>) /\ c.ok = TRUE
  BY NewCursor, Zenon
<1> HIDE DEF c
<1>6. PICK i : i = [key |-> h.key]
  OBVIOUS
<1>7. PICK its : its = <<i>>
  OBVIOUS
<1>8. IsGood(Repeat(1, ShowServerExtension, c), b, l, its)
  <2>1. IsGood(ShowServerExtension(c), b, l, its)
    BY <1>3, <1>5, <1>6, <1>7, ServerExtensionShown, Zenon
  <2>2. Repeat(1, ShowServerExtension, c) = ShowServerExtension(c)
    BY <1>5, ShowServerOnce, Zenon
  <2> QED
    BY <2>1, <2>2, Zenon
<1>9. PICK d : d = Repeat(1, ShowServerExtension, c)
  OBVIOUS
<1>10. d.items = its
  BY <1>8, <1>9, GoodFields, Zenon
<1>11. ~Panics(its)
  <2>1. DOMAIN its = {1} /\ its[1] = i
    BY <1>7
  <2>2. DOMAIN i = {"key"}
    BY <1>6
  <2>3. DOMAIN Panic = {"name"}
    BY DEF Panic
  <2>4. {"key"} # {"name"}
    OBVIOUS
  <2>5. i # Panic
    BY <2>2, <2>3, <2>4, Zenon
  <2> QED
    BY <2>1, <2>5, Zenon DEF Panics
<1>12. /\ Len(b) = l /\ l \in Nat /\ l >= 26 + RandomLen
       /\ Number(b, 7, 2) = h.suite /\ Bytes(b, 9, RandomLen) = h.random
       /\ b[at] = 1
  BY <1>3, ServerRead, ServerNumbers, Zenon DEF ServerValues
<1>13. RandomLen + 14 = at /\ Has(b, 0, 9 + RandomLen) /\ Has(b, 0, at)
  <2>1. PICK r \in Nat : r = RandomLen
    BY CodecAssumption
  <2>2. l >= 26 + r
    BY <1>12, <2>1, Zenon
  <2>3. r + 14 = 14 + r /\ 0 + (9 + r) <= l /\ 0 + (14 + r) <= l
    BY <1>12, <2>2
  <2> QED
    BY <1>12, <2>1, <2>3, Zenon DEF Has
<1> HIDE DEF at
<1>14. Repeat(b[at], ShowServerExtension, Cursor(b, at)) = d
  BY <1>9, <1>12, Zenon DEF c
<1>15. ShowServerHello(b) = [name |-> "ServerHello", suite |-> h.suite, random |-> h.random,
                             extensions |-> its]
  BY <1>10, <1>11, <1>12, <1>13, <1>14, Zenon DEF ShowServerHello
<1> QED
  BY <1>4, <1>6, <1>7, <1>15, Zenon

\* Where a hello of no suites has its extensions, a ServerHello has numbers that the
\* parser takes for a count, a length and a type.
ReadAsHello(b, at) ==
  /\ b[at] \in {0, 1} /\ Number(b, at, 4) \in Nat /\ Number(b, at, 4) >= 2
  /\ Number(b, at + 4, 2) = 0

\* See ReadAsHello.
LEMMA MisreadBytes ==
  ASSUME NEW h, NEW b, NEW l, ServerFields(b, h, l)
  PROVE  ReadAsHello(b, 17 + RandomLen)
<1>1. /\ Stands(b, 14 + RandomLen, U32(KeyLen + 8), 18 + RandomLen)
      /\ Stands(b, 18 + RandomLen, <<0, 16, 0, 0, 0, 1>>, 24 + RandomLen)
  BY Zenon DEF ServerFields
<1>2. PICK r \in Nat : r = RandomLen
  BY CodecAssumption
<1>3. PICK k \in Nat : k = KeyLen /\ k <= 255
  BY CodecAssumption
<1>4. PICK x, y \in Nat : /\ x = ((k + 8) \div 256) % 256 /\ y = (k + 8) % 256
                          /\ x \in {0, 1}
  BY <1>3
<1>5. PICK w : w = U32(k + 8)
  OBVIOUS
<1>6. PICK m \in Nat : m = 4
  OBVIOUS
<1>7. Len(w) = m /\ w[3] = x /\ w[4] = y
  BY <1>4, <1>5, <1>6 DEF U32
<1>8. \A i \in 1..m : b[14 + r + i] = w[i]
  <2>1. Stands(b, 14 + r, w, 18 + r)
    BY <1>1, <1>2, <1>3, <1>5, Zenon
  <2> QED
    BY <1>7, <2>1, Zenon DEF Stands
<1>9. b[17 + r] = x /\ b[18 + r] = y
  <2>1. 3 \in 1..m /\ 4 \in 1..m /\ 14 + r + 3 = 17 + r /\ 14 + r + 4 = 18 + r
    BY <1>6
  <2>2. b[14 + r + 3] = w[3] /\ b[14 + r + 4] = w[4]
    BY <1>8, <2>1, Zenon
  <2> QED
    BY <1>7, <2>1, <2>2, Zenon
<1>10. PICK v : v = <<0, 16, 0, 0, 0, 1>>
  OBVIOUS
<1>11. PICK n \in Nat : n = 6
  OBVIOUS
<1>12. Len(v) = n /\ v[1] = 0 /\ v[2] = 16 /\ v[3] = 0 /\ v[4] = 0 /\ v[5] = 0
  BY <1>10, <1>11
<1>13. \A i \in 1..n : b[18 + r + i] = v[i]
  <2>1. Stands(b, 18 + r, v, 24 + r)
    BY <1>1, <1>2, <1>10, Zenon
  <2> QED
    BY <1>12, <2>1, Zenon DEF Stands
<1>14. b[19 + r] = 0 /\ b[20 + r] = 16 /\ b[21 + r] = 0 /\ b[22 + r] = 0 /\ b[23 + r] = 0
  <2>1. /\ 1 \in 1..n /\ 2 \in 1..n /\ 3 \in 1..n /\ 4 \in 1..n /\ 5 \in 1..n
        /\ 18 + r + 1 = 19 + r /\ 18 + r + 2 = 20 + r /\ 18 + r + 3 = 21 + r
        /\ 18 + r + 4 = 22 + r /\ 18 + r + 5 = 23 + r
    BY <1>11
  <2>2. /\ b[18 + r + 1] = v[1] /\ b[18 + r + 2] = v[2] /\ b[18 + r + 3] = v[3]
        /\ b[18 + r + 4] = v[4] /\ b[18 + r + 5] = v[5]
    BY <1>13, <2>1, Zenon
  <2> QED
    BY <1>12, <2>1, <2>2, Zenon
<1>15. Number(b, 17 + r, 4) \in Nat /\ Number(b, 17 + r, 4) >= 2
  <2>1. /\ 17 + r + 1 = 18 + r /\ 17 + r + 2 = 19 + r /\ 17 + r + 3 = 20 + r
        /\ 17 + r + 4 = 21 + r
    OBVIOUS
  <2>2. Number(b, 17 + r, 4) = IF y > 0 THEN Huge ELSE 65536 * 0 + 256 * 16 + 0
    BY <1>9, <1>14, <2>1 DEF Number
  <2>3. Huge \in Nat /\ Huge >= 2
    BY DEF Huge
  <2> QED
    BY <2>2, <2>3
<1>16. Number(b, 17 + r + 4, 2) = 0
  <2>1. 17 + r + 4 + 1 = 22 + r /\ 17 + r + 4 + 2 = 23 + r
    OBVIOUS
  <2>2. Number(b, 17 + r + 4, 2) = 256 * 0 + 0
    BY <1>14, <2>1 DEF Number
  <2> QED
    BY <2>2
<1> QED
  BY <1>2, <1>4, <1>9, <1>15, <1>16, Zenon DEF ReadAsHello

\* A cursor, whatever it has read.
IsCursor(d, its) == \E b, x, t : d = [b |-> b, pos |-> x, ok |-> t, items |-> its]

\* It keeps what it has read when it moves or fails, and reads more when told so.
LEMMA CursorKeeps ==
  ASSUME NEW d, NEW its, IsCursor(d, its)
  PROVE  /\ d.items = its
         /\ \A x : IsCursor([d EXCEPT !.pos = x], its)
         /\ \A x, t : IsCursor([d EXCEPT !.pos = x, !.ok = t], its)
         /\ \A e : IsCursor([d EXCEPT !.items = e], e)
<1>1. PICK b, p, s : d = [b |-> b, pos |-> p, ok |-> s, items |-> its]
  BY Zenon DEF IsCursor
<1>2. d.items = its
  BY <1>1
<1>3. ASSUME NEW x PROVE IsCursor([d EXCEPT !.pos = x], its)
  <2>1. [d EXCEPT !.pos = x] = [b |-> b, pos |-> x, ok |-> s, items |-> its]
    BY <1>1
  <2> QED
    BY <2>1, Zenon DEF IsCursor
<1>4. ASSUME NEW x, NEW t PROVE IsCursor([d EXCEPT !.pos = x, !.ok = t], its)
  <2>1. PICK f : f = [b |-> b, pos |-> x, ok |-> s, items |-> its]
    OBVIOUS
  <2>2. [d EXCEPT !.pos = x] = f
    BY <1>1, <2>1
  <2>3. [f EXCEPT !.ok = t] = [b |-> b, pos |-> x, ok |-> t, items |-> its]
    BY <2>1
  <2>4. [d EXCEPT !.pos = x, !.ok = t] = [[d EXCEPT !.pos = x] EXCEPT !.ok = t]
    BY <1>1
  <2> QED
    BY <2>2, <2>3, <2>4, Zenon DEF IsCursor
<1>5. ASSUME NEW e PROVE IsCursor([d EXCEPT !.items = e], e)
  <2>1. [d EXCEPT !.items = e] = [b |-> b, pos |-> p, ok |-> s, items |-> e]
    BY <1>1
  <2> QED
    BY <2>1, Zenon DEF IsCursor
<1> QED
  BY <1>2, <1>3, <1>4, <1>5, Zenon

\* It is an extension of no type, and long enough to be skipped or to fail.
LEMMA MisreadExtension ==
  ASSUME NEW b, NEW at, ReadAsHello(b, at), NEW c, IsGood(c, b, at, <<>>)
  PROVE  ~Panics(ShowExtension(c).items)
<1>1. c.b = b /\ c.pos = at /\ c.items = <<>>
  BY GoodFields, Zenon
<1>2. PICK n : n = Number(b, at, 4)
  OBVIOUS
<1>3. PICK z : z = Number(b, at + 4, 2)
  OBVIOUS
<1>4. n \in Nat /\ n >= 2 /\ z = 0
  BY <1>2, <1>3, Zenon DEF ReadAsHello
<1>5. z # 15 /\ z # 16 /\ ~(n < 2)
  BY <1>4
<1>6. IsCursor(c, <<>>)
  BY Zenon DEF IsGood, Good, IsCursor
<1>7. PICK d : d = [c EXCEPT !.pos = c.pos + 6]
  OBVIOUS
<1>8. PICK e : e = Skip(d, n - 2)
  OBVIOUS
<1>9. IsCursor(d, <<>>)
  BY <1>6, <1>7, CursorKeeps, Zenon
<1>10. IsCursor(Fail(c), <<>>) /\ IsCursor(e, <<>>)
  <2>1. \A f : IsCursor(f, <<>>) => IsCursor(Fail(f), <<>>)
    BY CursorKeeps, Zenon DEF Fail
  <2>2. PICK x : x = d.pos + (n - 2)
    OBVIOUS
  <2>3. Skip(d, n - 2) = [d EXCEPT !.pos = x] \/ Skip(d, n - 2) = Fail(d)
    BY <2>2, Zenon DEF Skip
  <2>4. IsCursor([d EXCEPT !.pos = x], <<>>)
    BY <1>9, CursorKeeps, Zenon
  <2>5. IsCursor(Fail(c), <<>>) /\ IsCursor(Fail(d), <<>>)
    BY <1>6, <1>9, <2>1, Zenon
  <2> QED
    BY <1>8, <2>3, <2>4, <2>5, Zenon
<1>11. PICK i : i = [suite |-> z, data |-> <<>>]
  OBVIOUS
<1>12. \/ ShowExtension(c) = Fail(c)
       \/ ShowExtension(c) = e
       \/ ShowExtension(c) = [e EXCEPT !.items = Append(<<>>, i)]
  <2>1. Number(c.b, c.pos, 4) = n /\ Number(c.b, c.pos + 4, 2) = z
    BY <1>1, <1>2, <1>3, Zenon
  <2> QED
    BY <1>1, <1>5, <1>7, <1>8, <1>11, <2>1, Zenon DEF ShowExtension
<1>13. PICK one : one = <<i>>
  OBVIOUS
<1>14. Append(<<>>, i) = one
  BY <1>13, AppendTwo, Zenon
<1>15. ShowExtension(c).items = <<>> \/ ShowExtension(c).items = one
  BY <1>10, <1>12, <1>14, CursorKeeps, Zenon
<1>16. ~Panics(<<>>)
  <2>1. DOMAIN <<>> = {}
    OBVIOUS
  <2> QED
    BY <2>1, Zenon DEF Panics
<1>17. ~Panics(one)
  <2>1. DOMAIN one = {1} /\ one[1] = i
    BY <1>13
  <2>2. i # Panic
    BY <1>11, ItemIsNoPanic, Zenon DEF Item
  <2> QED
    BY <2>1, <2>2, Zenon DEF Panics
<1> QED
  BY <1>15, <1>16, <1>17, Zenon

\* A loop of no rounds.
LEMMA ShowNone ==
  ASSUME NEW c
  PROVE  Repeat(0, ShowExtension, c) = c
<1> DEFINE h == CHOOSE g : ShowLoop(g, 0, c)
<1>1. PICK f : f = [i \in 0..0 |-> c]
  OBVIOUS
<1>2. f = [i \in 0..0 |-> f[i]] /\ \A i \in 0..0 : i = 0 /\ f[i] = c
  BY <1>1
<1>3. ShowLoop(f, 0, c)
  BY <1>2, Zenon DEF ShowLoop
<1>4. ShowLoop(h, 0, c)
  BY <1>3, Zenon
<1>5. Repeat(0, ShowExtension, c) = h[0]
  BY Zenon DEF Repeat, ShowLoop
<1> HIDE DEF h
<1>6. 0 \in 0..0
  OBVIOUS
<1> QED
  BY <1>4, <1>5, <1>6, Zenon DEF ShowLoop

\* A ServerHello taken for a hello is shown as ciphertext or as some hello, but does not
\* make the parser panic.
LEMMA UnflaggedShown ==
  ASSUME NEW type, type \in {Handshake, System}, NEW h \in ServerHello,
         NEW b, b = ServerHelloBytes(h), Fits(b)
  PROVE  Show(type, b) # Panic
<1>1. PICK l \in Nat : ServerFields(b, h, l) /\ b[5] = 1
  BY ServerLayout, Zenon
<1>2. Show(type, b) = ShowClientHello(b)
  BY <1>1, ServerHasItsLength, ShownByFlag, Zenon
<1>3. PICK r \in Nat : r = RandomLen
  BY CodecAssumption
<1>4. PICK k \in Nat : k = KeyLen /\ k <= 255
  BY CodecAssumption
<1>5. l = Len(b) /\ l = 26 + r + k /\ Stands(b, 7, U16(h.suite), 9)
  BY <1>1, <1>3, <1>4, Zenon DEF ServerFields
<1>6. b[8] = U16(h.suite)[1]
  <2>1. PICK w : w = U16(h.suite)
    OBVIOUS
  <2>2. PICK m \in Nat : m = 2
    OBVIOUS
  <2>3. Len(w) = m
    <3>1. h.suite \in Nat
      BY ServerHelloFields, Zenon
    <3>2. Len(U16(h.suite)) = 2
      BY <3>1, U16Is, Zenon
    <3> QED
      BY <2>1, <2>2, <3>2, Zenon
  <2>4. \A i \in 1..m : b[7 + i] = w[i]
    BY <1>5, <2>1, <2>3, Zenon DEF Stands
  <2>5. 1 \in 1..m /\ 7 + 1 = 8
    BY <2>2
  <2> QED
    BY <2>1, <2>4, <2>5, Zenon
<1>7. h.suite = ECDHE \/ h.suite = PSK
  BY Zenon DEF ServerHello
<1>8. CASE h.suite = ECDHE
  <2>1. b[8] = 192
    <3>1. U16(ECDHE)[1] = 192
      BY DEF U16, ECDHE
    <3> QED
      BY <1>6, <1>8, <3>1, Zenon
  <2>2. RandomAt(b) = 392
    BY <2>1 DEF RandomAt
  <2>3. ~(392 + (r + 4) <= l)
    BY ONLY <1>5, r \in Nat, k \in Nat, <1>4
  <2>4. ~Has(b, RandomAt(b), RandomLen + 4)
    BY <1>3, <1>5, <2>2, <2>3, Zenon DEF Has
  <2>5. ShowClientHello(b) = Encrypted
    BY <2>4, Zenon DEF ShowClientHello
  <2>6. Encrypted # Panic
    <3>1. PICK e : e = Encrypted
      OBVIOUS
    <3>2. e.name # "panic"
      BY <3>1 DEF Encrypted
    <3> QED
      BY <3>1, <3>2, NamedNoPanic, Zenon
  <2> QED
    BY <1>2, <2>5, <2>6, Zenon
<1>9. CASE h.suite = PSK
  <2>1. b[8] = 0
    <3>1. U16(PSK)[1] = 0
      BY DEF U16, PSK
    <3> QED
      BY <1>6, <1>9, <3>1, Zenon
  <2>2. ExtensionsAt(b) = 17 + RandomLen
    <3>1. RandomAt(b) = 8
      BY <2>1 DEF RandomAt
    <3>2. 8 + r + 9 = 17 + r
      OBVIOUS
    <3> QED
      BY <1>3, <3>1, <3>2, Zenon DEF ExtensionsAt
  <2> DEFINE at == 17 + RandomLen
             c == Cursor(b, at)
  <2>3. ReadAsHello(b, at)
    BY <1>1, MisreadBytes, Zenon
  <2> HIDE DEF at
  <2>4. IsGood(c, b, at, <<>>) /\ c.ok = TRUE
    BY NewCursor, Zenon
  <2> HIDE DEF c
  <2>5. ~Panics(Repeat(b[at], ShowExtension, c).items)
    <3>1. b[at] = 0 \/ b[at] = 1
      BY <2>3, Zenon DEF ReadAsHello
    <3>2. ~Panics(Repeat(0, ShowExtension, c).items)
      <4>1. c.items = <<>>
        BY <2>4, GoodFields, Zenon
      <4>2. DOMAIN <<>> = {}
        OBVIOUS
      <4>3. ~Panics(<<>>)
        BY <4>2, Zenon DEF Panics
      <4> QED
        BY <4>1, <4>3, ShowNone, Zenon
    <3>3. ~Panics(Repeat(1, ShowExtension, c).items)
      BY <2>3, <2>4, ShowOnce, MisreadExtension, Zenon
    <3> QED
      BY <3>1, <3>2, <3>3, Zenon
  <2>6. PICK f : f = ShowClientHello(b)
    OBVIOUS
  <2>7. f = Encrypted \/ \E x, y, z : f = [name |-> "ClientHello", suites |-> x, random |-> y,
                                           extensions |-> z]
    <3>1. ~Panics(Repeat(b[ExtensionsAt(b)], ShowExtension, Cursor(b, ExtensionsAt(b))).items)
      BY <2>2, <2>5, Zenon DEF c, at
    <3> QED
      BY <2>6, <3>1, Zenon DEF ShowClientHello
  <2>8. f.name # "panic"
    <3>1. CASE f = Encrypted
      BY <3>1 DEF Encrypted
    <3>2. ASSUME NEW x, NEW y, NEW z, f = [name |-> "ClientHello", suites |-> x, random |-> y,
                                           extensions |-> z]
          PROVE  f.name # "panic"
      BY <3>2
    <3> QED
      BY <2>7, <3>1, <3>2, Zenon
  <2> QED
    BY <1>2, <2>6, <2>8, NamedNoPanic, Zenon
<1> QED
  BY <1>7, <1>8, <1>9, Zenon

\* See MessageIs: the kinds no library function reads.
LEMMA OtherMessageIs ==
  ASSUME NEW m, IsMessage(m)
  PROVE  /\ m.kind = "psk" => m.timestamp \in Fixed(4)
         /\ m.kind = "data" => m.type \in Fixed(4) /\ m.cmd \in Fixed(4) /\ m.data \in Seq(Byte)
         /\ m.kind = "raw" => m.data \in Seq(Byte)
         /\ m.kind = "cipher" => /\ m.len \in 16 .. ShortLimit - 1
                                 /\ Number(PayloadBytes(m), 0, 4) \notin {m.len - 4, m.len}
BY Zenon DEF IsMessage

\* See OtherMessageIs.
LEMMA OtherPayloadIs ==
  ASSUME NEW m
  PROVE  /\ m.kind = "psk" =>
              PayloadBytes(m) = PskPayload(m.timestamp)
         /\ m.kind = "data" =>
              PayloadBytes(m)
                = U32(Len(m.data) + 16) \o <<0, 16, 0, 1>> \o m.type \o m.cmd \o m.data
         /\ m.kind = "raw" => PayloadBytes(m) = m.data
         /\ m.kind = "cipher" => DOMAIN PayloadBytes(m) = 1 .. m.len
BY Zenon DEF PayloadBytes, PskPayload

\* The kinds of messages.
Kinds == {"clientHello", "serverHello", "flaggedHello", "ticket", "signature", "finish", "psk",
          "data", "raw", "cipher"}

\* Every message is of one of them.
LEMMA MessageKind ==
  ASSUME NEW m, IsMessage(m)
  PROVE  m.kind \in Kinds
BY Zenon DEF IsMessage, Kinds

\* The records a message travels in.
LEMMA TypesAre ==
  ASSUME NEW m, NEW t, t \in TypesOf(m)
  PROVE  /\ m.kind \in {"clientHello", "serverHello", "flaggedHello", "ticket", "signature",
                        "finish", "psk"} => t \in {Handshake, System}
         /\ m.kind = "data" => t = Record
         /\ m.kind = "raw" => t \in RecordTypes /\ (Len(m.data) <= 5 \/ t = Abort)
         /\ m.kind = "cipher" => t \in RecordTypes
<1>1. Abort \in RecordTypes
  BY Zenon DEF RecordTypes
<1>2. ASSUME m.kind \in {"clientHello", "serverHello", "flaggedHello", "ticket", "signature",
                        "finish", "psk"}
      PROVE  t \in {Handshake, System}
  <2>1. m.kind # "data" /\ m.kind # "raw" /\ m.kind # "cipher"
    BY ONLY <1>2
  <2> QED
    BY <2>1, Zenon DEF TypesOf
<1>3. ASSUME m.kind = "data" PROVE t = Record
  BY <1>3, Zenon DEF TypesOf
<1>4. ASSUME m.kind = "raw" PROVE t \in RecordTypes /\ (Len(m.data) <= 5 \/ t = Abort)
  <2>1. m.kind # "data"
    BY ONLY <1>4
  <2>2. t \in (IF Len(m.data) <= 5 THEN RecordTypes ELSE {Abort})
    BY <1>4, <2>1, Zenon DEF TypesOf
  <2> QED
    BY <1>1, <2>2, Zenon
<1>5. ASSUME m.kind = "cipher" PROVE t \in RecordTypes
  <2>1. m.kind # "data" /\ m.kind # "raw"
    BY ONLY <1>5
  <2> QED
    BY <1>5, <2>1, Zenon DEF TypesOf
<1> QED
  BY <1>2, <1>3, <1>4, <1>5, Zenon

\* What is shown of a message, by its kind.
ShownAs(m, f) ==
  /\ m.kind = "clientHello" =>
       /\ f.name = "ClientHello" /\ f.suites = m.hello.suites /\ f.random = m.hello.random
       /\ AreShown(f.extensions, m.hello.extensions)
  /\ m.kind = "flaggedHello" =>
       f = [name |-> "ServerHello", suite |-> m.hello.suite, random |-> m.hello.random,
            extensions |-> <<[key |-> m.hello.key]>>]
  /\ m.kind = "ticket" => f = [name |-> "NewSessionTicket", tickets |-> m.tickets.tickets]
  /\ m.kind = "signature" => f = [name |-> "Signature", data |-> m.tagged.data]
  /\ m.kind = "finish" => f = [name |-> "ServerFinish", data |-> m.tagged.data]
  /\ m.kind = "psk" => f.timestamp = m.timestamp
  /\ m.kind = "data" =>
       f = [name |-> "Application Data", type |-> m.type, cmd |-> m.cmd, data |-> m.data]
  /\ m.kind = "cipher" =>
       f \in Ciphers
  /\ f # Panic

\* A hello.
LEMMA ClientHelloIsShown ==
  ASSUME NEW m, NEW t, NEW b, NEW f, Delivered(m, t, b, f), m.kind = "clientHello"
  PROVE  ShownAs(m, f)
<1>1. IsClientHello(m.hello) /\ t \in {Handshake, System} /\ b = HelloBytes(m.hello) /\ Fits(b)
      /\ f = Show(t, b)
  BY MessageIs, PayloadIs, TypesAre, Zenon DEF Delivered
<1>2. PICK its : ShowsHello(f, m.hello, its)
  BY <1>1, ClientHelloShown, Zenon
<1>3. PICK u, v : u = m.hello.suites /\ v = m.hello.random
  OBVIOUS
<1>4. f = [name |-> "ClientHello", suites |-> u, random |-> v, extensions |-> its]
  BY <1>2, <1>3, Zenon DEF ShowsHello, IsShown
<1>5. f.name = "ClientHello" /\ f.suites = u /\ f.random = v /\ f.extensions = its
  BY <1>4
<1>6. AreShown(f.extensions, m.hello.extensions)
  BY <1>2, <1>5, Zenon DEF ShowsHello
<1>7. f # Panic
  <2>1. f.name # "panic"
    BY <1>5
  <2> QED
    BY <2>1, NamedNoPanic, Zenon
<1>8. PICK k : k = m.kind
  OBVIOUS
<1>9. /\ k # "flaggedHello" /\ k # "ticket" /\ k # "signature" /\ k # "finish" /\ k # "psk"
      /\ k # "data" /\ k # "cipher"
  BY ONLY <1>8, m.kind = "clientHello"
<1> QED
  BY <1>3, <1>5, <1>6, <1>7, <1>8, <1>9, Zenon DEF ShownAs

\* The other handshake messages.
LEMMA HandshakeIsShown ==
  ASSUME NEW m, NEW t, NEW b, NEW f, Delivered(m, t, b, f),
         m.kind \in {"serverHello", "flaggedHello", "ticket", "signature", "finish", "psk"}
  PROVE  ShownAs(m, f)
<1>1. /\ IsMessage(m) /\ t \in {Handshake, System} /\ b = PayloadBytes(m) /\ Fits(b)
      /\ f = Show(t, b)
  BY TypesAre, Zenon DEF Delivered
<1>2. PICK k : k = m.kind
  OBVIOUS
<1>3. CASE k = "serverHello"
  <2>1. m.hello \in ServerHello /\ b = ServerHelloBytes(m.hello)
    BY <1>1, <1>2, <1>3, MessageIs, PayloadIs, Zenon
  <2>2. f # Panic
    BY <1>1, <2>1, UnflaggedShown, Zenon
  <2>3. /\ k # "clientHello" /\ k # "flaggedHello" /\ k # "ticket" /\ k # "signature"
        /\ k # "finish" /\ k # "psk" /\ k # "data" /\ k # "cipher"
    BY ONLY <1>3
  <2> QED
    BY <1>2, <2>2, <2>3, Zenon DEF ShownAs
<1>4. CASE k = "flaggedHello"
  <2>1. m.hello \in ServerHello /\ b = ReplaceAt(ServerHelloBytes(m.hello), 5, 2)
    BY <1>1, <1>2, <1>4, MessageIs, PayloadIs, Zenon
  <2>2. PICK u, v, x : u = m.hello.suite /\ v = m.hello.random /\ x = m.hello.key
    OBVIOUS
  <2>3. f = [name |-> "ServerHello", suite |-> u, random |-> v, extensions |-> <<[key |-> x]>>]
    BY <1>1, <2>1, <2>2, FlaggedShown, Zenon
  <2>4. f # Panic
    <3>1. f.name # "panic"
      BY <2>3
    <3> QED
      BY <3>1, NamedNoPanic, Zenon
  <2>5. /\ k # "clientHello" /\ k # "ticket" /\ k # "signature"
        /\ k # "finish" /\ k # "psk" /\ k # "data" /\ k # "cipher"
    BY ONLY <1>4
  <2> QED
    BY <1>2, <2>2, <2>3, <2>4, <2>5, Zenon DEF ShownAs
<1>5. CASE k = "ticket"
  <2>1. m.tickets \in NewSessionTicket /\ b = NewSessionTicketBytes(m.tickets)
    BY <1>1, <1>2, <1>5, MessageIs, PayloadIs, Zenon
  <2>2. PICK u : u = m.tickets.tickets
    OBVIOUS
  <2>3. f = [name |-> "NewSessionTicket", tickets |-> u]
    BY <1>1, <2>1, <2>2, TicketShown, Zenon
  <2>4. f # Panic
    <3>1. f.name # "panic"
      BY <2>3
    <3> QED
      BY <3>1, NamedNoPanic, Zenon
  <2>5. /\ k # "clientHello" /\ k # "flaggedHello" /\ k # "signature"
        /\ k # "finish" /\ k # "psk" /\ k # "data" /\ k # "cipher"
    BY ONLY <1>5
  <2> QED
    BY <1>2, <2>2, <2>3, <2>4, <2>5, Zenon DEF ShownAs
<1>6. CASE k = "signature"
  <2>1. m.tagged \in Tagged /\ m.tagged.type = 15 /\ b = TaggedBytes(m.tagged)
    BY <1>1, <1>2, <1>6, MessageIs, PayloadIs, Zenon
  <2>2. PICK u : u = m.tagged.data
    OBVIOUS
  <2>3. f = [name |-> "Signature", data |-> u]
    BY <1>1, <2>1, <2>2, TaggedShown, Zenon
  <2>4. f # Panic
    <3>1. f.name # "panic"
      BY <2>3
    <3> QED
      BY <3>1, NamedNoPanic, Zenon
  <2>5. /\ k # "clientHello" /\ k # "flaggedHello" /\ k # "ticket"
        /\ k # "finish" /\ k # "psk" /\ k # "data" /\ k # "cipher"
    BY ONLY <1>6
  <2> QED
    BY <1>2, <2>2, <2>3, <2>4, <2>5, Zenon DEF ShownAs
<1>7. CASE k = "finish"
  <2>1. m.tagged \in Tagged /\ m.tagged.type = 20 /\ b = TaggedBytes(m.tagged)
    BY <1>1, <1>2, <1>7, MessageIs, PayloadIs, Zenon
  <2>2. PICK u : u = m.tagged.data
    OBVIOUS
  <2>3. f = [name |-> "ServerFinish", data |-> u]
    BY <1>1, <2>1, <2>2, TaggedShown, Zenon
  <2>4. f # Panic
    <3>1. f.name # "panic"
      BY <2>3
    <3> QED
      BY <3>1, NamedNoPanic, Zenon
  <2>5. /\ k # "clientHello" /\ k # "flaggedHello" /\ k # "ticket"
        /\ k # "signature" /\ k # "psk" /\ k # "data" /\ k # "cipher"
    BY ONLY <1>7
  <2> QED
    BY <1>2, <2>2, <2>3, <2>4, <2>5, Zenon DEF ShownAs
<1>8. CASE k = "psk"
  <2>1. /\ m.timestamp \in Fixed(4)
        /\ b = PskPayload(m.timestamp)
    BY <1>1, <1>2, <1>8, OtherMessageIs, OtherPayloadIs, Zenon
  <2>2. f.timestamp = m.timestamp /\ f.name = "PSK Extensions (0-RTT)"
    <3>1. PskTime(Show(t, b), m.timestamp)
      BY <1>1, <2>1, PskShown, Zenon
    <3> QED
      BY <1>1, <3>1, Zenon DEF PskTime
  <2>3. f # Panic
    <3>1. f.name # "panic"
      BY <2>2
    <3> QED
      BY <3>1, NamedNoPanic, Zenon
  <2>4. /\ k # "clientHello" /\ k # "flaggedHello" /\ k # "ticket"
        /\ k # "signature" /\ k # "finish" /\ k # "data" /\ k # "cipher"
    BY ONLY <1>8
  <2> QED
    BY <1>2, <2>2, <2>3, <2>4, Zenon DEF ShownAs
<1> QED
  BY <1>2, <1>3, <1>4, <1>5, <1>6, <1>7, <1>8, Zenon

\* What is no handshake message.
LEMMA RestIsShown ==
  ASSUME NEW m, NEW t, NEW b, NEW f, Delivered(m, t, b, f), m.kind \in {"data", "raw", "cipher"}
  PROVE  ShownAs(m, f)
<1>1. /\ IsMessage(m) /\ t \in TypesOf(m) /\ b = PayloadBytes(m) /\ Fits(b)
      /\ f = Show(t, b) /\ b \in Seq(Byte)
  BY Zenon DEF Delivered
<1>2. PICK k : k = m.kind
  OBVIOUS
<1>3. CASE k = "data"
  <2>1. /\ m.type \in Fixed(4) /\ m.cmd \in Fixed(4) /\ m.data \in Seq(Byte) /\ t = Record
        /\ b = U32(Len(m.data) + 16) \o <<0, 16, 0, 1>> \o m.type \o m.cmd \o m.data
    BY <1>1, <1>2, <1>3, OtherMessageIs, OtherPayloadIs, TypesAre, Zenon
  <2>2. PICK u, v, w : u = m.type /\ v = m.cmd /\ w = m.data
    OBVIOUS
  <2>3. f = [name |-> "Application Data", type |-> u, cmd |-> v, data |-> w]
    BY <1>1, <2>1, <2>2, DataShown, Zenon
  <2>4. f # Panic
    <3>1. f.name # "panic"
      BY <2>3
    <3> QED
      BY <3>1, NamedNoPanic, Zenon
  <2>5. /\ k # "clientHello" /\ k # "flaggedHello" /\ k # "ticket"
        /\ k # "signature" /\ k # "finish" /\ k # "psk" /\ k # "cipher"
    BY ONLY <1>3
  <2> QED
    BY <1>2, <2>2, <2>3, <2>4, <2>5, Zenon DEF ShownAs
<1>4. CASE k = "raw"
  <2>1. t \in RecordTypes /\ (Len(b) <= 5 \/ t = Abort)
    BY <1>1, <1>2, <1>4, OtherPayloadIs, TypesAre, Zenon
  <2>2. Len(b) \in Nat
    BY <1>1
  <2>3. f # Panic
    BY <1>1, <2>1, <2>2, RawShown, Zenon
  <2>4. /\ k # "clientHello" /\ k # "flaggedHello" /\ k # "ticket"
        /\ k # "signature" /\ k # "finish" /\ k # "psk" /\ k # "cipher" /\ k # "data"
    BY ONLY <1>4
  <2> QED
    BY <1>2, <2>3, <2>4, Zenon DEF ShownAs
<1>5. CASE k = "cipher"
  <2>1. /\ m.len \in 16 .. ShortLimit - 1 /\ t \in RecordTypes
        /\ DOMAIN b = 1 .. m.len
        /\ Number(b, 0, 4) # m.len - 4 /\ Number(b, 0, 4) # m.len
    <3>1. m.kind = "cipher" /\ PayloadBytes(m) = b
      BY <1>1, <1>2, <1>5, Zenon
    <3>2. m.len \in 16 .. ShortLimit - 1 /\ Number(PayloadBytes(m), 0, 4) \notin {m.len - 4, m.len}
      BY <1>1, <3>1, OtherMessageIs, Zenon
    <3>3. DOMAIN PayloadBytes(m) = 1 .. m.len
      BY <3>1, OtherPayloadIs, Zenon
    <3>4. t \in RecordTypes
      BY <1>1, <3>1, TypesAre, Zenon
    <3> QED
      BY <3>1, <3>2, <3>3, <3>4, Zenon
  <2>2. PICK n \in Nat : n = m.len /\ n > 5
    <3>1. PICK x : x = m.len
      OBVIOUS
    <3>2. PICK y \in Nat : y = ShortLimit - 1
      BY DEF ShortLimit
    <3>3. x \in 16 .. y
      BY <2>1, <3>1, <3>2, Zenon
    <3>4. x \in Nat /\ x > 5
      BY ONLY <3>3, y \in Nat
    <3> QED
      BY <3>1, <3>4, Zenon
  <2>3. Len(b) = n
    <3>1. DOMAIN b = 1 .. n
      BY <2>1, <2>2, Zenon
    <3> QED
      BY <1>1, <3>1
  <2>4. f \in Ciphers
    <3>1. Len(b) \in Nat /\ Len(b) > 5 /\ Number(b, 0, 4) # Len(b) - 4 /\ Number(b, 0, 4) # Len(b)
      BY <2>1, <2>2, <2>3, Zenon
    <3>2. Show(t, b) \in Ciphers
      BY <2>1, <3>1, CipherShown, Zenon
    <3> QED
      BY <1>1, <3>2, Zenon
  <2>5. f # Panic
    <3>1. \/ f = [name |-> "Encrypted Payload"] \/ f = [name |-> "Application Data"]
          \/ f = [name |-> "Abort (encrypted)"]
      BY <2>4, Zenon DEF Encrypted, Ciphers
    <3>2. f.name # "panic"
      <4>1. ASSUME NEW x, f = [name |-> x], x # "panic" PROVE f.name # "panic"
        BY <4>1
      <4> QED
        BY <3>1, <4>1
    <3> QED
      BY <3>2, NamedNoPanic, Zenon
  <2>6. /\ k # "clientHello" /\ k # "flaggedHello" /\ k # "ticket"
        /\ k # "signature" /\ k # "finish" /\ k # "psk" /\ k # "data"
    BY ONLY <1>5
  <2> QED
    BY <1>2, <2>4, <2>5, <2>6, Zenon DEF ShownAs
<1> QED
  BY <1>2, <1>3, <1>4, <1>5, Zenon

\* Every message is shown as what it is, whatever its keys, its tickets, its data and
\* their lengths; ciphertext is not taken for a message; and nothing a peer of this library
\* sends makes the parser panic, not even its ServerHello, which is read as a hello.
THEOREM MessagesAreShown == ParseSpec => []ShownIsSent
<1>1. AtARecord => ShownIsSent
  <2>1. SUFFICES ASSUME AtARecord, shown # <<>>
                 PROVE  ShownIsSent
    BY Zenon DEF ShownIsSent
  <2>2. PICK m, t, b, f : /\ m = Sent /\ t = shown[Len(shown)].type /\ b = Got
                          /\ f = shown[Len(shown)].fields
    OBVIOUS
  <2>3. Delivered(m, t, b, f)
    BY <2>1, <2>2, LastDelivered, Zenon
  <2>4. m.kind \in Kinds
    BY <2>3, MessageKind, Zenon DEF Delivered
  <2>5. ShownAs(m, f)
    <3>1. \/ m.kind = "clientHello"
          \/ m.kind \in {"serverHello", "flaggedHello", "ticket", "signature", "finish", "psk"}
          \/ m.kind \in {"data", "raw", "cipher"}
      BY <2>4, Zenon DEF Kinds
    <3> QED
      BY <2>3, <3>1, ClientHelloIsShown, HandshakeIsShown, RestIsShown, Zenon
  <2>6. m.kind = "clientHello" => ReadClientHello(b) = m.hello
    <3>1. ASSUME m.kind = "clientHello" PROVE ReadClientHello(b) = m.hello
      <4>1. IsClientHello(m.hello) /\ b = HelloBytes(m.hello) /\ Fits(b)
        BY <2>3, <3>1, MessageIs, PayloadIs, Zenon DEF Delivered
      <4> QED
        BY <4>1, ClientHelloReadBack, Zenon
    <3> QED
      BY <3>1, Zenon
  <2>7. m.kind = "clientHello" =>
          {f.extensions[i] : i \in DOMAIN f.extensions} = ReadExtensions(ReadClientHello(b))
    BY <2>5, <2>6, Zenon DEF ShownAs, AreShown, ReadExtensions
  <2> QED
    BY <2>2, <2>5, <2>7, Zenon DEF ShownIsSent, ShownAs, Ciphers
<1> QED
  BY <1>1, AlwaysAtARecord, PTL
-----------------------------------------------------------------------------
\* Dates.

\* Days before a month, before a year and of a date.  Years and months are those
\* of civil_from_days: they begin in March, and months count from zero.
DaysBeforeMonth(m) == (153 * m + 2) \div 5
DaysBeforeYear(y) == 365 * y + y \div 4 - y \div 100 + y \div 400
MarchYear(y, mo) == IF mo <= 2 THEN y - 1 ELSE y
MarchMonth(mo) == IF mo <= 2 THEN mo + 9 ELSE mo - 3
DayNumber(y, mo, d) == DaysBeforeYear(MarchYear(y, mo)) + DaysBeforeMonth(MarchMonth(mo)) + d - 1

\* A date since 1970, and the one a day number names.
IsDay(y, mo, d) == y \in Nat /\ y >= 1970 /\ mo \in 1..12 /\ d \in 1..DaysIn(y, mo)
Names(days, y, mo, d) == IsDay(y, mo, d) /\ days + 719468 = DayNumber(y, mo, d)

\* The calendar names the day it has reached.  That is more than DatesAreCivil
\* says: the closed form is the inverse of the day number, not of the calendar.
CountsDays ==
 /\ day \in Nat
 /\ \E y, mo, d : date = <<y, mo, d>> /\ Names(day, y, mo, d)

\* Days are inserted at the end of a year: the difference of two years is the
\* length of the February between them.
LEMMA YearLength ==
  ASSUME NEW y \in Nat, y >= 1
  PROVE DaysBeforeYear(y) = DaysBeforeYear(y - 1) + DaysIn(y, 2) + 337
<1>1. DaysIn(y, 2) = IF Leap(y) THEN 29 ELSE 28
  BY DEF DaysIn
<1>2. Leap(y) => y \div 4 - y \div 100 + y \div 400
                   = (y - 1) \div 4 - (y - 1) \div 100 + (y - 1) \div 400 + 1
  BY SMTT(60) DEF Leap
<1>3. ~Leap(y) => y \div 4 - y \div 100 + y \div 400
                   = (y - 1) \div 4 - (y - 1) \div 100 + (y - 1) \div 400
  BY SMTT(60) DEF Leap
<1> QED
  BY <1>1, <1>2, <1>3 DEF DaysBeforeYear

\* The closed form of the days before a month adds up the lengths of months.
LEMMA MonthLength ==
  ASSUME NEW y \in Nat, NEW mo \in 1..12
  PROVE /\ DaysIn(y, mo) \in 1..31
        /\ mo \notin {2, 12} => DaysBeforeMonth(MarchMonth(mo + 1))
                                   = DaysBeforeMonth(MarchMonth(mo)) + DaysIn(y, mo)
        /\ mo # 2 => \A d \in 1..DaysIn(y,mo) : DaysBeforeMonth(MarchMonth(mo)) + d <= 337
        /\ mo = 2 => DaysBeforeMonth(MarchMonth(mo)) = 337
<1>1. mo = 2 => DaysIn(y, mo) \in {28, 29} BY DEF DaysIn
<1>2. mo \in {4, 6, 9, 11} => DaysIn(y, mo) = 30 BY DEF DaysIn
<1>3. mo \notin {2, 4, 6, 9, 11} => DaysIn(y, mo) = 31 BY DEF DaysIn
<1> QED
  BY <1>1, <1>2, <1>3 DEF DaysBeforeMonth, MarchMonth

\* The day after the last of a month, within a year and at its end.
LEMMA NextDay ==
  ASSUME NEW y \in Nat, y >= 1970
  PROVE \A mo \in 1..11 : DayNumber(y, mo + 1, 1) = DayNumber(y, mo, DaysIn(y, mo)) + 1
<1> SUFFICES ASSUME NEW mo \in 1..11
             PROVE  DayNumber(y, mo + 1, 1) = DayNumber(y, mo, DaysIn(y, mo)) + 1
  OBVIOUS
<1>1. CASE mo = 2
  <2>1. DaysBeforeYear(y) \in Int /\ DaysBeforeYear(y - 1) \in Int /\ DaysIn(y, 2) \in Int
    BY MonthLength DEF DaysBeforeYear
  <2>2. DaysBeforeMonth(0) = 0 /\ DaysBeforeMonth(11) = 337
    BY DEF DaysBeforeMonth
  <2>3. DayNumber(y, 3, 1) = DaysBeforeYear(y)
    <3>1. MarchYear(y, 3) = y /\ MarchMonth(3) = 0
      BY DEF MarchYear, MarchMonth
    <3> QED
      BY <2>1, <2>2, <3>1 DEF DayNumber
  <2>4. DayNumber(y, 2, DaysIn(y, 2)) = DaysBeforeYear(y - 1) + DaysIn(y, 2) + 336
    <3>1. MarchYear(y, 2) = y - 1 /\ MarchMonth(2) = 11
      BY DEF MarchYear, MarchMonth
    <3> QED
      BY <2>1, <2>2, <3>1 DEF DayNumber
  <2>5. DaysBeforeYear(y) = DaysBeforeYear(y - 1) + DaysIn(y, 2) + 337
    BY YearLength
  <2>6. DayNumber(y, 3, 1) = DayNumber(y, 2, DaysIn(y, 2)) + 1
    BY <2>1, <2>3, <2>4, <2>5
  <2> QED
    BY <1>1, <2>6
<1>2. CASE mo # 2
  <2>1. PICK z \in Int : /\ z = DaysBeforeYear(MarchYear(y, mo))
                         /\ z = DaysBeforeYear(MarchYear(y, mo + 1))
    BY <1>2 DEF MarchYear, DaysBeforeYear
  <2>2. DaysBeforeMonth(MarchMonth(mo)) \in Int /\ DaysIn(y, mo) \in 1..31
    BY MonthLength DEF DaysBeforeMonth, MarchMonth
  <2>3. DaysBeforeMonth(MarchMonth(mo + 1)) = DaysBeforeMonth(MarchMonth(mo)) + DaysIn(y, mo)
    BY <1>2, MonthLength
  <2> QED
    BY <2>1, <2>2, <2>3 DEF DayNumber
<1> QED
  BY <1>1, <1>2

\* And from December to January.
LEMMA NextYear ==
  ASSUME NEW y \in Nat, y >= 1970
  PROVE DayNumber(y + 1, 1, 1) = DayNumber(y, 12, DaysIn(y, 12)) + 1
<1>1. DaysIn(y, 12) = 31 BY DEF DaysIn
<1> QED
  BY <1>1 DEF DayNumber, MarchYear, MarchMonth, DaysBeforeMonth, DaysBeforeYear

\* Days of an era of 400 years before its year yoe.
DaysInEra(yoe) == 365 * yoe + yoe \div 4 - yoe \div 100

\* civil_from_days's year of a day of an era, and the days there are.
YearInEra(doe) == (doe - doe \div 1460 + doe \div 36524 - doe \div 146096) \div 365
InEra(doe) == doe \in Int /\ 0 <= doe /\ doe <= 146096

\* The day doy of year q of the four from year 4b of century c.
EraDay(c, b, q, doy) == 36524 * c + 1461 * b + 365 * q + doy

EraYear(c, b, q) == 100 * c + 4 * b + q

\* There is such a day: year 99 of a century has a leap day in the last one only.
DayOfCentury(c, b, q, doy) ==
  /\ c \in 0..3 /\ b \in 0..24 /\ q \in 0..3 /\ doy \in 0..365
  /\ doy = 365 => q = 3 /\ (b # 24 \/ c = 3)

\* The year of such a day: it is found on the last day of the era as on any other.
LEMMA EraArithmetic ==
  ASSUME NEW c, NEW b, NEW q, NEW doy, DayOfCentury(c, b, q, doy)
  PROVE  InEra(EraDay(c, b, q, doy)) /\ YearInEra(EraDay(c, b, q, doy)) = EraYear(c, b, q)
<1>1. /\ c \in 0..3 /\ b \in 0..24 /\ q \in 0..3 /\ doy \in 0..365
      /\ doy = 365 => q = 3 /\ (b # 24 \/ c = 3)
  BY SMT DEF DayOfCentury
<1>2. PICK doe \in Int : /\ doe = 36524 * c + 1461 * b + 365 * q + doy
                         /\ EraDay(c, b, q, doy) = doe
  BY <1>1, SMT DEF EraDay
<1>3. 0 <= doe /\ doe <= 146096
  BY <1>2, <1>1, SMT
<1>4. ASSUME doe = 146096 PROVE InEra(doe) /\ YearInEra(doe) = 100 * c + 4 * b + q
  <2>1. c = 3 /\ b = 24 /\ q = 3
    BY <1>2, <1>4, <1>1, SMT
  <2>2. /\ doe \div 1460 = 100 /\ doe \div 36524 = 4 /\ doe \div 146096 = 1
        /\ (doe - 100 + 4 - 1) \div 365 = 399
    BY <1>4, SMT
  <2> QED
    BY <1>2, <1>3, <2>1, <2>2, SMT DEF YearInEra, InEra
<1>5. ASSUME doe # 146096 PROVE InEra(doe) /\ YearInEra(doe) = 100 * c + 4 * b + q
  <2>1. doe \div 146096 = 0
    BY <1>3, <1>5, SMT
  <2>2. 0 <= 1461 * b + 365 * q + doy /\ 1461 * b + 365 * q + doy <= 36523
    BY <1>2, <1>5, <1>1, SMT
  <2>3. doe \div 36524 = c
    BY <1>2, <1>1, <2>2, SMT
  <2> DEFINE h == IF 365 * q + doy + b + 24 * c >= 1460 THEN 1 ELSE 0
  <2>4. doe = 1460 * (25 * c + b) + (365 * q + doy + b + 24 * c)
    BY <1>2, <1>1, SMT
  <2>5. doe \div 1460 = 25 * c + b + h
    BY <1>1, <2>4, SMT
  <2>6. doy - h \in Int /\ 0 <= doy - h /\ doy - h <= 364 /\ h \in Int
    BY <1>1, SMT
  <2> HIDE DEF h
  <2>7. doe - doe \div 1460 + doe \div 36524 - doe \div 146096
          = 365 * (100 * c + 4 * b + q) + (doy - h)
    BY <1>2, <1>1, <2>1, <2>3, <2>5, <2>6, SMT
  <2>8. (365 * (100 * c + 4 * b + q) + (doy - h)) \div 365 = 100 * c + 4 * b + q
    BY <1>1, <2>6, SMT
  <2> QED
    BY <1>2, <1>3, <1>1, <2>7, <2>8, SMT DEF YearInEra, InEra
<1>6. InEra(doe) /\ YearInEra(doe) = 100 * c + 4 * b + q
  BY <1>4, <1>5, SMT
<1>7. InEra(EraDay(c, b, q, doy)) /\ YearInEra(EraDay(c, b, q, doy)) = YearInEra(doe)
  BY <1>2, <1>6, SMT
<1>8. YearInEra(doe) = EraYear(c, b, q)
  BY <1>6, SMT DEF EraYear
<1> QED
  BY <1>7, <1>8, SMT

\* The correction of civil_from_days for leap days finds the year, on the last
\* day of a leap year, of a century and of the era too.
LEMMA YearOfEra ==
  ASSUME NEW yoe \in 0..399, NEW doy \in 0..365, doy = 365 => Leap(yoe + 1)
  PROVE  InEra(DaysInEra(yoe) + doy) /\ YearInEra(DaysInEra(yoe) + doy) = yoe
<1> DEFINE c == yoe \div 100
           r == yoe % 100
           b == r \div 4
           q == r % 4
<1>1. c \in 0..3 /\ r \in 0..99 /\ yoe = 100 * c + r
  BY SMT
<1> HIDE DEF c, r
<1>2. b \in 0..24 /\ q \in 0..3 /\ r = 4 * b + q
  BY <1>1, SMT
<1> HIDE DEF b, q
<1>3. yoe = 100 * c + 4 * b + q
  BY <1>1, <1>2, SMT
<1>4. DaysInEra(yoe) = 36524 * c + 1461 * b + 365 * q
  <2>1. yoe \div 4 = 25 * c + b /\ yoe \div 100 = c
    BY <1>1, <1>2, <1>3, SMT
  <2> QED
    BY <1>1, <1>2, <1>3, <2>1, SMT DEF DaysInEra
<1>5. doy = 365 => q = 3 /\ (b # 24 \/ c = 3)
  <2>1. SUFFICES ASSUME doy = 365 PROVE q = 3 /\ (b # 24 \/ c = 3)
    OBVIOUS
  <2>2. (yoe + 1) % 4 = 0 /\ ((yoe + 1) % 100 # 0 \/ (yoe + 1) % 400 = 0)
    BY <2>1, SMT DEF Leap
  <2>3. q = 3
    BY <1>1, <1>2, <1>3, <2>2, SMT
  <2>4. b = 24 => yoe + 1 = 100 * (c + 1)
    BY <1>1, <1>2, <1>3, <2>3, SMT
  <2>5. b = 24 => c = 3
    BY <1>1, <1>2, <2>2, <2>4, SMT
  <2> QED
    BY <2>3, <2>5, SMT
<1> DEFINE doe == DaysInEra(yoe) + doy
<1>6. doe = EraDay(c, b, q, doy)
  BY <1>1, <1>2, <1>4, SMT DEF EraDay
<1> HIDE DEF doe
<1>7. InEra(doe) /\ YearInEra(doe) = EraYear(c, b, q)
  <2>1. DayOfCentury(c, b, q, doy)
    BY <1>1, <1>2, <1>5, SMT DEF DayOfCentury
  <2>2. InEra(EraDay(c, b, q, doy)) /\ YearInEra(EraDay(c, b, q, doy)) = EraYear(c, b, q)
    BY <2>1, EraArithmetic, Zenon
  <2> QED
    BY <1>6, <2>2, Zenon
<1>8. EraYear(c, b, q) = yoe
  BY <1>3, SMT DEF EraYear
<1> QED
  BY <1>7, <1>8, Zenon DEF doe

DayOfYear(mo, d) == DaysBeforeMonth(MarchMonth(mo)) + d - 1
MonthOfDay(doy) == (5 * doy + 2) \div 153

\* The month is found from the day of the year.
LEMMA MonthOfYear ==
  ASSUME NEW y \in Nat, NEW mo \in 1..12, NEW d \in 1..DaysIn(y, mo)
  PROVE  /\ DayOfYear(mo, d) \in 0..365
         /\ DayOfYear(mo, d) = 365 => mo = 2 /\ Leap(y)
         /\ MonthOfDay(DayOfYear(mo, d)) = MarchMonth(mo)
<1>1. mo = 2 => DaysIn(y, mo) = IF Leap(y) THEN 29 ELSE 28
  BY SMT DEF DaysIn
<1>2. mo \in {4, 6, 9, 11} => DaysIn(y, mo) = 30
  BY SMT DEF DaysIn
<1>3. mo \notin {2, 4, 6, 9, 11} => DaysIn(y, mo) = 31
  BY SMT DEF DaysIn
<1> QED
  BY <1>1, <1>2, <1>3, SMT DEF DayOfYear, MonthOfDay, DaysBeforeMonth, MarchMonth

\* civil_from_days inverts the day number.
LEMMA CivilOfDayNumber ==
  ASSUME NEW days \in Nat, NEW y, NEW mo, NEW d, Names(days, y, mo, d)
  PROVE  CivilFromDays(days) = <<y, mo, d>>
<1>1. /\ y \in Nat /\ y >= 1970 /\ mo \in 1..12 /\ d \in 1..DaysIn(y, mo)
  BY SMT DEF Names, IsDay
<1>21. days + 719468 = DayNumber(y, mo, d)
  BY SMT DEF Names
<1>22. DaysIn(y, mo) \in 1..31
  BY <1>1, MonthLength, SMT
<1> DEFINE my == MarchYear(y, mo)
           e == my \div 400
           yoe == my % 400
           doy == DayOfYear(mo, d)
           mm == MarchMonth(mo)
<1>2. my \in Nat /\ (mo <= 2 => y = my + 1) /\ (mo > 2 => y = my)
  BY <1>1, SMT DEF MarchYear
<1> HIDE DEF my
<1>3. e \in Nat /\ yoe \in 0..399 /\ my = 400 * e + yoe
  BY <1>2, SMT
<1> HIDE DEF e, yoe
<1>4. mm \in 0..11 /\ mo = IF mm < 10 THEN mm + 3 ELSE mm - 9
  BY <1>1, SMT DEF MarchMonth
<1>5. doy \in 0..365 /\ (doy = 365 => mo = 2 /\ Leap(y)) /\ MonthOfDay(doy) = mm
  <2>1. y \in Nat /\ mo \in 1..12 /\ d \in 1..DaysIn(y, mo)
    BY <1>1, SMT
  <2>2. /\ DayOfYear(mo, d) \in 0..365
        /\ DayOfYear(mo, d) = 365 => mo = 2 /\ Leap(y)
        /\ MonthOfDay(DayOfYear(mo, d)) = MarchMonth(mo)
    BY <2>1, MonthOfYear, Zenon
  <2> HIDE DEF doy, mm
  <2> QED
    BY <2>2, Zenon DEF doy, mm
<1>6. DaysBeforeMonth(mm) \in Int /\ doy = DaysBeforeMonth(mm) + d - 1
  BY <1>1, <1>4, <1>22, SMT DEF DayOfYear, DaysBeforeMonth
<1> HIDE DEF doy, mm
<1>7. doy = 365 => Leap(yoe + 1)
  BY <1>2, <1>3, <1>5, SMT DEF Leap
<1>8. DaysInEra(yoe) \in Int /\ DaysBeforeYear(my) = 146097 * e + DaysInEra(yoe)
  BY <1>3, SMT DEF DaysBeforeYear, DaysInEra
<1> DEFINE doe == DaysInEra(yoe) + doy
<1>9. InEra(doe) /\ YearInEra(doe) = yoe
  BY <1>3, <1>5, <1>7, YearOfEra, Zenon
<1>10. days + 719468 = 146097 * e + doe
  <2>1. DayNumber(y, mo, d) = DaysBeforeYear(my) + DaysBeforeMonth(mm) + d - 1
    BY SMT DEF DayNumber, my, mm
  <2> QED
    BY <1>1, <1>3, <1>5, <1>6, <1>8, <1>21, <1>22, <2>1, SMT
<1>11. doe - DaysInEra(yoe) = doy
  BY <1>5, <1>8, SMT
<1> HIDE DEF doe
<1>12. (days + 719468) \div 146097 = e /\ (days + 719468) - e * 146097 = doe
  BY <1>3, <1>9, <1>10, SMT DEF InEra
<1>13. YearOf(yoe + e * 400, mo) = y
  BY <1>1, <1>2, <1>3, SMT DEF YearOf
<1>14. doy - (153 * mm + 2) \div 5 + 1 = d
  BY <1>1, <1>5, <1>6, <1>22, SMT DEF DaysBeforeMonth
<1> DEFINE era == (days + 719468) \div 146097
           dayOfEra == (days + 719468) - era * 146097
           year == (dayOfEra - dayOfEra \div 1460 + dayOfEra \div 36524
                     - dayOfEra \div 146096) \div 365
           dayOfYear == dayOfEra - (365 * year + year \div 4 - year \div 100)
           mp == (5 * dayOfYear + 2) \div 153
           month == IF mp < 10 THEN mp + 3 ELSE mp - 9
<1>15. CivilFromDays(days)
         = <<YearOf(year + era * 400, month), month, dayOfYear - (153 * mp + 2) \div 5 + 1>>
  BY SMT DEF CivilFromDays
<1>16. era = e /\ dayOfEra = doe
  BY <1>12, SMT
<1> HIDE DEF era, dayOfEra
<1>17. year = yoe
  BY <1>9, <1>16, SMT DEF YearInEra
<1> HIDE DEF year
<1>18. dayOfYear = doy
  BY <1>11, <1>16, <1>17, SMT DEF DaysInEra
<1> HIDE DEF dayOfYear
<1>19. mp = mm
  BY <1>5, <1>18, SMT DEF MonthOfDay
<1> HIDE DEF mp
<1>20. month = mo
  BY <1>4, <1>19, SMT
<1> HIDE DEF month
<1> QED
  BY <1>13, <1>14, <1>15, <1>16, <1>17, <1>18, <1>19, <1>20, SMT

\* 1970-01-01 is day zero.
LEMMA InitDays == DateInit => CountsDays
<1>1. Names(0, 1970, 1, 1)
  <2>1. DayNumber(1970, 1, 1) = 719468
    BY SMT DEF DayNumber, DaysBeforeYear, DaysBeforeMonth, MarchYear, MarchMonth
  <2>2. DaysIn(1970, 1) \in 1..31
    BY MonthLength
  <2>3. IsDay(1970, 1, 1)
    BY <2>2 DEF IsDay
  <2> QED
    BY <2>1, <2>3, SMT DEF Names
<1> QED
  BY <1>1 DEF DateInit, CountsDays

\* The day number of tomorrow, in each of the ways a date turns.
LEMMA Tomorrow ==
  ASSUME NEW days \in Nat, NEW y, NEW mo, NEW d, Names(days, y, mo, d)
  PROVE  /\ y \in Nat /\ mo \in 1..12 /\ d \in 1..DaysIn(y, mo) /\ DaysIn(y, mo) \in 1..31
         /\ d < DaysIn(y, mo) => Names(days + 1, y, mo, d + 1)
         /\ d = DaysIn(y, mo) /\ mo < 12 => Names(days + 1, y, mo + 1, 1)
         /\ d = DaysIn(y, mo) /\ mo = 12 => Names(days + 1, y + 1, 1, 1)
<1>1. /\ y \in Nat /\ y >= 1970 /\ mo \in 1..12 /\ d \in 1..DaysIn(y, mo)
      /\ DaysIn(y, mo) \in 1..31
  BY MonthLength, SMT DEF Names, IsDay
<1>2. DayNumber(y, mo, d) \in Int
  BY <1>1 DEF DayNumber, DaysBeforeYear, DaysBeforeMonth, MarchYear, MarchMonth
<1>3. d < DaysIn(y, mo) => Names(days + 1, y, mo, d + 1)
  <2>1. DayNumber(y, mo, d + 1) = DayNumber(y, mo, d) + 1
    BY <1>1 DEF DayNumber, DaysBeforeYear, DaysBeforeMonth, MarchYear, MarchMonth
  <2> QED
    BY <1>1, <1>2, <2>1, SMT DEF Names, IsDay
<1>4. d = DaysIn(y, mo) /\ mo < 12 => Names(days + 1, y, mo + 1, 1)
  <2>1. d = DaysIn(y, mo) /\ mo < 12 => DayNumber(y, mo + 1, 1) = DayNumber(y, mo, d) + 1
    BY <1>1, NextDay
  <2>2. mo < 12 => DaysIn(y, mo + 1) \in 1..31 /\ mo + 1 \in 1..12
    BY <1>1, MonthLength
  <2>3. mo < 12 => IsDay(y, mo + 1, 1)
    BY <1>1, <2>2 DEF IsDay
  <2> QED
    BY <1>2, <2>1, <2>3, SMT DEF Names
<1>5. d = DaysIn(y, mo) /\ mo = 12 => Names(days + 1, y + 1, 1, 1)
  <2>1. d = DaysIn(y, mo) /\ mo = 12 => DayNumber(y + 1, 1, 1) = DayNumber(y, mo, d) + 1
    BY <1>1, NextYear
  <2>2. DaysIn(y + 1, 1) \in 1..31
    BY <1>1, MonthLength
  <2>3. IsDay(y + 1, 1, 1)
    BY <1>1, <2>2 DEF IsDay
  <2> QED
    BY <1>2, <2>1, <2>3, SMT DEF Names
<1> QED
  BY <1>1, <1>3, <1>4, <1>5

\* The calendar stays with its day number.
LEMMA MidnightDays ==
  ASSUME CountsDays, Midnight
  PROVE  CountsDays'
<1>1. PICK y, mo, d : date = <<y, mo, d>> /\ Names(day, y, mo, d)
  BY DEF CountsDays
<1>2. day' = day + 1 /\ day \in Nat
  BY DEF Midnight, CountsDays
<1>3. date' = IF d < DaysIn(y, mo) THEN <<y, mo, d + 1>>
              ELSE IF mo < 12 THEN <<y, mo + 1, 1>> ELSE <<y + 1, 1, 1>>
  BY <1>1 DEF Midnight
<1>4. \E z, n, e : date' = <<z, n, e>> /\ Names(day + 1, z, n, e)
  BY <1>1, <1>2, <1>3, Tomorrow
<1> QED
  BY <1>2, <1>4 DEF CountsDays

\* For every day number, however far a timestamp reaches: the closed form
\* civil_from_days computes a date with (parser.rs) is that day's date in the
\* calendar.
THEOREM DatesCivil == DateSpec => []DatesAreCivil
<1>1. CountsDays /\ [Midnight]_dateVars => CountsDays'
  <2>1. CountsDays /\ UNCHANGED dateVars => CountsDays'
    BY DEF CountsDays, dateVars
  <2> QED
    BY <2>1, MidnightDays
<1>2. CountsDays => DatesAreCivil
  BY CivilOfDayNumber DEF CountsDays, DatesAreCivil
<1> QED
  BY <1>1, <1>2, InitDays, PTL DEF DateSpec
=============================================================================
