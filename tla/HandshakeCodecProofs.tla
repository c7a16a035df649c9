------------------------ MODULE HandshakeCodecProofs ------------------------
(***************************************************************************)
(* Proofs about HandshakeCodec: every handshake message and every session  *)
(* is read as it was written, whatever its lengths and counts, and no part *)
(* of a session file is read at all.                                       *)
(*                                                                         *)
(* What a serialize function joins stands, part by part, in the bytes it   *)
(* returns (Split); what stands in bytes is what a read from there finds   *)
(* (ReadBytes, ReadShort, ReadFour); a loop over entries or extensions is  *)
(* stepped along the places they stand at.                                 *)
(***************************************************************************)
EXTENDS HandshakeCodec, WellFoundedInduction, TLAPS

\* Induction on the naturals.
LEMMA AllNaturals ==
  ASSUME NEW T \in SUBSET Nat, 0 \in T, \A n \in T : n + 1 \in T
  PROVE  T = Nat
<1> DEFINE R == {ss \in Nat \X Nat : ss[1] < ss[2]}
<1>1. IsWellFoundedOn(R, Nat)
  BY ONLY NatLessThanWellFounded DEF OpToRel
<1>2. SUFFICES ASSUME Nat \ T # {} PROVE FALSE
  OBVIOUS
<1>3. PICK n \in Nat \ T : \A m \in Nat \ T : <<m, n>> \notin R
  <2> HIDE DEF R
  <2> QED
    BY <1>1, <1>2, WFMin, Zenon
<1>4. n # 0 /\ n - 1 \in Nat /\ <<n - 1, n>> \in R
  OBVIOUS
<1>5. n - 1 \in T
  BY <1>3, <1>4
<1> QED
  BY <1>3, <1>4, <1>5

\* The function FlattenSeq is the last value of.
Joins(g, s, n) == g = [i \in 1..n |-> IF i = 1 THEN s[i] ELSE g[i - 1] \o s[i]]

\* What it is at a place.
LEMMA JoinsAt ==
  ASSUME NEW g, NEW s, NEW n \in Nat, Joins(g, s, n), NEW i \in 1..n
  PROVE  g[i] = IF i = 1 THEN s[i] ELSE g[i - 1] \o s[i]
<1>1. [k \in 1..n |-> IF k = 1 THEN s[k] ELSE g[k - 1] \o s[k]][i]
        = IF i = 1 THEN s[i] ELSE g[i - 1] \o s[i]
  BY Zenon
<1> QED
  BY <1>1, Zenon DEF Joins

\* A sequence of sequences, each the one before it and one element of s more.
Grows(f, s, n) == f[1] = s[1] /\ \A i \in 2..n : f[i] = f[i - 1] \o s[i]

\* Its last one is what s flattens to.
LEMMA FlattenIs ==
  ASSUME NEW s, NEW n \in Nat, n >= 1, Len(s) = n,
         NEW f, Grows(f, s, n)
  PROVE  FlattenSeq(s) = f[n]
<1>7. f[1] = s[1] /\ \A i \in 2..n : f[i] = f[i - 1] \o s[i]
  BY Zenon DEF Grows
<1> DEFINE h == CHOOSE g : Joins(g, s, n)
<1>1. \E g : Joins(g, s, n)
  <2>1. PICK e : e = [i \in 1..n |-> f[i]]
    OBVIOUS
  <2>2. ASSUME NEW i \in 1..n PROVE f[i] = IF i = 1 THEN s[i] ELSE e[i - 1] \o s[i]
    <3>1. CASE i = 1
      BY <1>7, <3>1, Zenon
    <3>2. CASE i # 1
      <4>1. i \in 2..n /\ i - 1 \in 1..n
        BY <3>2
      <4>2. e[i - 1] = f[i - 1]
        BY <2>1, <4>1
      <4> QED
        BY <1>7, <3>2, <4>1, <4>2, Zenon
    <3> QED
      BY <3>1, <3>2
  <2>3. e = [i \in 1..n |-> IF i = 1 THEN s[i] ELSE e[i - 1] \o s[i]]
    BY <2>1, <2>2, Zenon
  <2> QED
    BY <2>3, Zenon DEF Joins
<1>2. Joins(h, s, n)
  BY <1>1, Zenon
<1>3. FlattenSeq(s) = h[n]
  <2>1. Len(s) # 0
    OBVIOUS
  <2> QED
    BY <2>1, Zenon DEF FlattenSeq, Joins
<1> HIDE DEF h
<1> DEFINE T == {m \in Nat : m \in 1..n => h[m] = f[m]}
<1>4. 0 \in T
  OBVIOUS
<1>5. ASSUME NEW m \in T PROVE m + 1 \in T
  <2>1. PICK i \in Nat : i = m + 1 /\ i # 0
    OBVIOUS
  <2>2. SUFFICES ASSUME i \in 1..n PROVE h[i] = f[i]
    BY <2>1
  <2>3. CASE i = 1
    <3>1. h[i] = s[i]
      BY <1>2, <2>2, <2>3, JoinsAt
    <3> QED
      BY <1>7, <2>3, <3>1
  <2>4. CASE i # 1
    <3>1. h[i] = h[i - 1] \o s[i]
      <4>1. h[i] = IF i = 1 THEN s[i] ELSE h[i - 1] \o s[i]
        BY <1>2, <2>2, JoinsAt
      <4> QED
        BY <2>4, <4>1, Zenon
    <3>2. i \in 2..n
      BY <2>2, <2>4
    <3>3. f[i] = f[i - 1] \o s[i]
      BY <1>7, <3>2, Zenon
    <3>4. h[i - 1] = f[i - 1]
      BY <2>1, <2>2, <2>4
    <3> QED
      BY <3>1, <3>3, <3>4, Zenon
  <2> QED
    BY <2>3, <2>4
<1>6. T = Nat
  <2>1. T \in SUBSET Nat
    OBVIOUS
  <2> HIDE DEF T
  <2> QED
    BY <1>4, <1>5, <2>1, AllNaturals
<1> QED
  BY <1>3, <1>6

\* f starts with v and takes step i with s.
Iterates(f, s, v, n) == f[0] = v /\ \A i \in 1..n : f[i] = s[<<i, f[i-1]>>]

\* Steps can be taken one after the other.
LEMMA Iteration ==
  ASSUME NEW V, NEW n \in Nat, NEW s \in [(1..n) \X V -> V], NEW v \in V
  PROVE \E f \in [0..n -> V] : Iterates(f, s, v, n)
<1> DEFINE T == {m \in Nat : m <= n => \E f \in [0..m -> V] : Iterates(f, s, v, m)}
<1>1. 0 \in T
  <2>1. [i \in 0..0 |-> v] \in [0..0 -> V] /\ [i \in 0..0 |-> v][0] = v
    OBVIOUS
  <2>2. Iterates([i \in 0..0 |-> v], s, v, 0)
    BY <2>1 DEF Iterates
  <2> QED
    BY <2>1, <2>2
<1>2. ASSUME NEW m \in T PROVE m + 1 \in T
  <2>1. SUFFICES ASSUME m + 1 <= n PROVE \E f \in [0..m + 1 -> V] : Iterates(f, s, v, m + 1)
    OBVIOUS
  <2>2. m \in Nat /\ m + 1 \in 1..n
    BY <2>1
  <2>3. PICK f \in [0..m -> V] : Iterates(f, s, v, m)
    BY <2>1
  <2>4. PICK x \in V : x = s[<<m + 1, f[m]>>]
    BY <2>2
  <2> DEFINE g == [i \in 0..m + 1 |-> IF i = m + 1 THEN x ELSE f[i]]
  <2>5. g \in [0..m + 1 -> V]
    BY <2>2
  <2>6. /\ \A i \in 0..m : g[i] = f[i]
        /\ g[m + 1] = x
    BY <2>2
  <2>7. Iterates(g, s, v, m + 1)
    <3> HIDE DEF g
    <3>1. g[0] = v
      BY <2>2, <2>3, <2>6 DEF Iterates
    <3>2. ASSUME NEW i \in 1..m PROVE g[i] = s[<<i, g[i - 1]>>]
      <4>1. f[i] = s[<<i, f[i - 1]>>] /\ i \in 0..m /\ i - 1 \in 0..m
        BY <2>2, <2>3 DEF Iterates
      <4> QED
        BY <2>6, <4>1
    <3>3. g[m + 1] = s[<<m + 1, g[m]>>]
      BY <2>2, <2>4, <2>6
    <3>4. ASSUME NEW i \in 1..m + 1 PROVE g[i] = s[<<i, g[i - 1]>>]
      <4>1. m \in Nat
        BY <2>2
      <4>2. CASE i = m + 1
        <5>1. i - 1 = m
          BY <4>1, <4>2
        <5> QED
          BY <3>3, <4>2, <5>1
      <4>3. CASE i # m + 1
        <5>1. i \in 1..m
          BY <4>1, <4>3
        <5> QED
          BY <3>2, <5>1
      <4> QED
        BY <4>2, <4>3
    <3> QED
      BY <3>1, <3>4 DEF Iterates
  <2> QED
    BY <2>5, <2>7
<1>3. T \in SUBSET Nat
  OBVIOUS
<1>4. T = Nat
  <2> HIDE DEF T
  <2> QED
    BY <1>1, <1>2, <1>3, AllNaturals
<1> QED
  BY <1>4
-----------------------------------------------------------------------------
\* The bytes d stand in b, from position p to position q.
Stands(b, p, d, q) ==
  /\ b \in Seq(Nat) /\ d \in Seq(Nat)
  /\ p \in Nat /\ q \in Nat /\ q = p + Len(d) /\ q <= Len(b)
  /\ \A i \in 1..Len(d) : b[p + i] = d[i]

\* b is s, or a beginning of it.
CutFrom(b, s) ==
  /\ b \in Seq(Nat) /\ s \in Seq(Nat) /\ Len(b) <= Len(s)
  /\ \A i \in 1..Len(b) : b[i] = s[i]

\* All of a sequence stands in it.
LEMMA Whole ==
  ASSUME NEW s \in Seq(Nat)
  PROVE  Stands(s, 0, s, Len(s)) /\ CutFrom(s, s)
<1>1. PICK n \in Nat : n = Len(s)
  OBVIOUS
<1>2. Stands(s, 0, s, n)
  BY <1>1 DEF Stands
<1>3. CutFrom(s, s)
  BY <1>1 DEF CutFrom
<1> QED
  BY <1>1, <1>2, <1>3, Zenon

\* What stands somewhere has an end there.
LEMMA StandsType ==
  ASSUME NEW b, NEW p, NEW d, NEW q, Stands(b, p, d, q)
  PROVE  /\ p \in Nat /\ q \in Nat /\ p <= q /\ q <= Len(b)
         /\ b \in Seq(Nat) /\ d \in Seq(Nat) /\ Len(b) \in Nat
         /\ Len(d) \in Nat /\ q = p + Len(d)
BY DEF Stands

\* The two parts of a concatenation stand one behind the other.
LEMMA Split ==
  ASSUME NEW b, NEW p, NEW q, NEW x \in Seq(Nat), NEW y \in Seq(Nat), Stands(b, p, x \o y, q)
  PROVE  \E m \in Nat : Stands(b, p, x, m) /\ Stands(b, m, y, q)
<1>1. PICK j \in Nat : j = Len(x)
  OBVIOUS
<1>2. PICK k \in Nat : k = Len(y)
  OBVIOUS
<1> DEFINE z == x \o y
<1>3. z \in Seq(Nat) /\ Len(z) = j + k
  BY <1>1, <1>2
<1>4. \A i \in 1..j : z[i] = x[i]
  BY <1>1, <1>2
<1>5. \A i \in 1..k : z[j + i] = y[i]
  BY <1>1, <1>2
<1> HIDE DEF z
<1>6. Stands(b, p, z, q)
  BY Zenon DEF z
<1>7. PICK m \in Nat : m = p + j
  BY <1>6, StandsType
<1>8. /\ b \in Seq(Nat) /\ p \in Nat /\ q \in Nat /\ q = p + (j + k) /\ q <= Len(b)
      /\ \A i \in 1..j + k : b[p + i] = z[i]
  BY <1>3, <1>6 DEF Stands
<1>9. Stands(b, p, x, m)
  BY <1>1, <1>4, <1>7, <1>8 DEF Stands
<1>10. Stands(b, m, y, q)
  <2>1. ASSUME NEW i \in 1..k PROVE b[m + i] = y[i]
    <3>1. j + i \in 1..j + k /\ m + i = p + (j + i)
      BY <1>7, <1>8
    <3>2. b[p + (j + i)] = z[j + i]
      BY <1>8, <3>1, Zenon
    <3> QED
      BY <1>5, <3>1, <3>2
  <2> QED
    BY <1>2, <1>7, <1>8, <2>1 DEF Stands
<1> QED
  BY <1>9, <1>10

\* What stands before the cut stands in what is left.
LEMMA Kept ==
  ASSUME NEW b, NEW s, NEW p, NEW d, NEW q, CutFrom(b, s), Stands(s, p, d, q), q <= Len(b)
  PROVE  Stands(b, p, d, q)
<1>1. PICK n \in Nat : n = Len(d) /\ q = p + n
  BY DEF Stands
<1>2. PICK l \in Nat : l = Len(b) /\ q <= l
  BY DEF CutFrom
<1>3. /\ s \in Seq(Nat) /\ d \in Seq(Nat) /\ p \in Nat /\ q \in Nat
      /\ \A i \in 1..n : s[p + i] = d[i]
  BY <1>1 DEF Stands
<1>4. b \in Seq(Nat) /\ \A i \in 1..l : b[i] = s[i]
  BY <1>2 DEF CutFrom
<1>5. ASSUME NEW i \in 1..n PROVE b[p + i] = d[i]
  <2>1. p + i \in 1..l
    BY <1>1, <1>2, <1>3
  <2> QED
    BY <1>3, <1>4, <2>1
<1> QED
  BY <1>1, <1>2, <1>3, <1>4, <1>5 DEF Stands

\* What stands from p on is what a read of its length returns.
LEMMA ReadBytes ==
  ASSUME NEW b, NEW p, NEW d, NEW q, NEW n \in Nat, Stands(b, p, d, q), Len(d) = n
  PROVE  q = p + n /\ Has(b, p, n) /\ Bytes(b, p, n) = d
<1>1. /\ b \in Seq(Nat) /\ d \in Seq(Nat) /\ p \in Nat /\ q = p + n /\ q <= Len(b)
      /\ \A i \in 1..n : b[p + i] = d[i]
  BY DEF Stands
<1> DEFINE z == SubSeq(b, p + 1, p + n)
<1>2. z \in Seq(Nat) /\ Len(z) = n /\ \A i \in 1..n : z[i] = b[p + i]
  BY <1>1
<1> HIDE DEF z
<1>3. z = d
  <2>1. Len(d) = n /\ \A i \in 1..n : z[i] = d[i]
    BY <1>1, <1>2
  <2> QED
    BY <1>1, <1>2, <2>1
<1>4. Bytes(b, p, n) = z
  BY Zenon DEF Bytes, z
<1> QED
  BY <1>1, <1>3, <1>4 DEF Has

\* One byte.
LEMMA ReadOne ==
  ASSUME NEW b, NEW p, NEW x, NEW q, Stands(b, p, <<x>>, q)
  PROVE  q = p + 1 /\ b[q] = x
<1>1. PICK n \in Nat : n = 1
  OBVIOUS
<1>2. Len(<<x>>) = n /\ <<x>>[1] = x
  BY <1>1
<1>3. p \in Nat /\ q = p + n /\ \A i \in 1..n : b[p + i] = <<x>>[i]
  BY <1>2 DEF Stands
<1> QED
  BY <1>1, <1>2, <1>3

\* The numbers in front of data.
LEMMA U16Is ==
  ASSUME NEW n \in Nat
  PROVE  U16(n) \in Seq(Nat) /\ Len(U16(n)) = 2 /\ 256 * U16(n)[1] + U16(n)[2] = n
<1> DEFINE h == n \div 256
           l == n % 256
<1>1. h \in Nat /\ l \in Nat
  OBVIOUS
<1>2. 256 * h + l = n
  OBVIOUS
<1>3. U16(n) = <<h, l>>
  BY DEF U16
<1> HIDE DEF h, l
<1> QED
  BY <1>1, <1>2, <1>3

\* See U16Is: those of a message fit the lower bytes.
LEMMA U32Is ==
  ASSUME NEW n \in Nat, n < ShortLimit
  PROVE  /\ U32(n) \in Seq(Nat) /\ Len(U32(n)) = 4
         /\ U32(n)[1] = 0
         /\ 65536 * U32(n)[2] + 256 * U32(n)[3] + U32(n)[4] = n
<1> DEFINE x == n \div 65536
           h == (n \div 256) % 256
           l == n % 256
<1>1. x \in Nat /\ h \in Nat /\ l \in Nat /\ 65536 * x + 256 * h + l = n
  BY SMT DEF ShortLimit
<1>2. U32(n) = <<0, x, h, l>>
  BY DEF U32
<1> HIDE DEF x, h, l
<1> QED
  BY <1>1, <1>2, SMT

\* A number of four bytes, whatever it is.
LEMMA U32Type ==
  ASSUME NEW n \in Nat
  PROVE  U32(n) \in Seq(Nat) /\ Len(U32(n)) = 4
<1> DEFINE x == n \div 65536
           h == (n \div 256) % 256
           l == n % 256
<1>1. x \in Nat /\ h \in Nat /\ l \in Nat
  BY SMT
<1>2. U32(n) = <<0, x, h, l>>
  BY DEF U32
<1> HIDE DEF x, h, l
<1> QED
  BY <1>1, <1>2, SMT

\* What joins sequences of numbers is one.
LEMMA JoinType ==
  ASSUME NEW x \in Seq(Nat), NEW y \in Seq(Nat)
  PROVE  x \o y \in Seq(Nat)
OBVIOUS

\* Data behind its length, in two bytes, are bytes.
LEMMA ShortType ==
  ASSUME NEW d \in Seq(Nat)
  PROVE  Short(d) \in Seq(Nat)
<1>1. Len(d) \in Nat
  OBVIOUS
<1>2. U16(Len(d)) \in Seq(Nat)
  BY <1>1, U16Is, Zenon
<1> QED
  BY <1>2, JoinType, Zenon DEF Short

\* Data behind its length, in four bytes, are bytes.
LEMMA LongType ==
  ASSUME NEW d \in Seq(Nat)
  PROVE  Long(d) \in Seq(Nat)
<1>1. Len(d) \in Nat
  OBVIOUS
<1>2. U32(Len(d)) \in Seq(Nat)
  BY <1>1, U32Type, Zenon
<1> QED
  BY <1>2, JoinType, Zenon DEF Long

\* A number of two bytes is read as it was written.
LEMMA ReadTwo ==
  ASSUME NEW b, NEW s, NEW p, NEW n \in Nat, NEW q, CutFrom(b, s), Stands(s, p, U16(n), q)
  PROVE  q = p + 2 /\ (Has(b, p, 2) => Number(b, p, 2) = n)
<1> DEFINE w == U16(n)
<1>1. w \in Seq(Nat) /\ Len(w) = 2 /\ 256 * w[1] + w[2] = n
  BY U16Is
<1>2. Stands(s, p, w, q)
  OBVIOUS
<1> HIDE DEF w
<1>3. PICK k \in Nat : k = 2
  OBVIOUS
<1>4. p \in Nat /\ q = p + k /\ \A i \in 1..k : s[p + i] = w[i]
  BY <1>1, <1>2, <1>3 DEF Stands
<1>5. PICK l \in Nat : l = Len(b) /\ \A i \in 1..l : b[i] = s[i]
  BY DEF CutFrom
<1>6. ASSUME Has(b, p, 2) PROVE Number(b, p, 2) = n
  <2>1. p + 2 <= l
    BY <1>5, <1>6 DEF Has
  <2>2. b[p + 1] = w[1] /\ b[p + 2] = w[2]
    <3>1. p + 1 \in 1..l /\ p + 2 \in 1..l /\ 1 \in 1..k /\ 2 \in 1..k
      BY <1>3, <1>4, <2>1
    <3> QED
      BY <1>4, <1>5, <3>1, Zenon
  <2>3. Number(b, p, 2) = 256 * b[p + 1] + b[p + 2]
    BY DEF Number
  <2> QED
    BY <1>1, <2>2, <2>3
<1> QED
  BY <1>3, <1>4, <1>6

\* A number of four bytes too, if it is that of a message.
LEMMA ReadFour ==
  ASSUME NEW b, NEW s, NEW p, NEW n \in Nat, NEW q,
         CutFrom(b, s), Stands(s, p, U32(n), q), n < ShortLimit
  PROVE  q = p + 4 /\ (Has(b, p, 4) => Number(b, p, 4) = n)
<1> DEFINE w == U32(n)
<1>1. w \in Seq(Nat) /\ Len(w) = 4 /\ w[1] = 0 /\ 65536 * w[2] + 256 * w[3] + w[4] = n
  BY U32Is
<1>2. Stands(s, p, w, q)
  OBVIOUS
<1> HIDE DEF w
<1>3. PICK k \in Nat : k = 4
  OBVIOUS
<1>4. p \in Nat /\ q = p + k /\ \A i \in 1..k : s[p + i] = w[i]
  BY <1>1, <1>2, <1>3 DEF Stands
<1>5. PICK l \in Nat : l = Len(b) /\ \A i \in 1..l : b[i] = s[i]
  BY DEF CutFrom
<1>6. ASSUME Has(b, p, 4) PROVE Number(b, p, 4) = n
  <2>1. p + 4 <= l
    BY <1>5, <1>6 DEF Has
  <2>2. b[p + 1] = w[1] /\ b[p + 2] = w[2] /\ b[p + 3] = w[3] /\ b[p + 4] = w[4]
    <3>1. /\ p + 1 \in 1..l /\ p + 2 \in 1..l /\ p + 3 \in 1..l /\ p + 4 \in 1..l
          /\ 1 \in 1..k /\ 2 \in 1..k /\ 3 \in 1..k /\ 4 \in 1..k
      BY <1>3, <1>4, <2>1
    <3> QED
      BY <1>4, <1>5, <3>1, Zenon
  <2>3. Number(b, p, 4) = IF b[p + 1] > 0 THEN Huge
                          ELSE 65536 * b[p + 2] + 256 * b[p + 3] + b[p + 4]
    BY DEF Number
  <2> QED
    BY <1>1, <2>2, <2>3
<1> QED
  BY <1>3, <1>4, <1>6

\* Data of a known length behind the length, in two bytes.
ShortRead(b, p, d, q) ==
  /\ HasShort(b, p) <=> q <= Len(b)
  /\ HasShort(b, p) => ShortAt(b, p) = d /\ PastShort(b, p) = q

Fits(d) == Len(d) < ShortLimit

\* Data behind a length of two bytes are read as they were written, if they are there
\* to their end, and not at all otherwise.
LEMMA ReadShort ==
  ASSUME NEW b, NEW s, NEW p, NEW d \in Seq(Nat), NEW q, CutFrom(b, s),
         Stands(s, p, Short(d), q)
  PROVE  ShortRead(b, p, d, q)
<1>1. PICK n \in Nat : n = Len(d)
  OBVIOUS
<1>2. U16(n) \in Seq(Nat)
  BY U16Is
<1>3. PICK m \in Nat : Stands(s, p, U16(n), m) /\ Stands(s, m, d, q)
  BY <1>1, <1>2, Split, Zenon DEF Short
<1>4. m = p + 2 /\ (Has(b, p, 2) => Number(b, p, 2) = n)
  BY <1>3, ReadTwo, Zenon
<1>5. p \in Nat /\ q = m + n /\ Len(b) \in Nat
  BY <1>1, <1>3, StandsType DEF CutFrom
<1>6. HasShort(b, p) <=> q <= Len(b)
  <2>1. CASE Has(b, p, 2)
    <3>1. Number(b, p, 2) = n
      BY <1>4, <2>1
    <3> QED
      BY <1>4, <1>5, <2>1, <3>1 DEF HasShort, Has
  <2>2. CASE ~Has(b, p, 2)
    BY <1>4, <1>5, <2>2 DEF HasShort, Has
  <2> QED
    BY <2>1, <2>2
<1>7. ASSUME HasShort(b, p) PROVE ShortAt(b, p) = d /\ PastShort(b, p) = q
  <2>1. Number(b, p, 2) = n
    BY <1>4, <1>7, Zenon DEF HasShort
  <2>2. Stands(b, m, d, q)
    BY <1>3, <1>6, <1>7, Kept
  <2>3. Bytes(b, m, n) = d
    <3>1. Len(d) = n
      BY <1>1
    <3> QED
      BY <2>2, <3>1, ReadBytes
  <2> QED
    BY <1>4, <1>5, <2>1, <2>3 DEF ShortAt, PastShort
<1> QED
  BY <1>6, <1>7 DEF ShortRead

\* The parts of data behind its length, in four bytes.
LEMMA LongParts ==
  ASSUME NEW s, NEW p, NEW d \in Seq(Nat), NEW q, Stands(s, p, Long(d), q)
  PROVE  \E m \in Nat : m = p + 4 /\ Stands(s, p, U32(Len(d)), m) /\ Stands(s, m, d, q)
<1>1. PICK n \in Nat : n = Len(d)
  OBVIOUS
<1>2. U32(n) \in Seq(Nat) /\ Len(U32(n)) = 4
  BY U32Type
<1>3. PICK m \in Nat : Stands(s, p, U32(n), m) /\ Stands(s, m, d, q)
  BY <1>1, <1>2, Split, Zenon DEF Long
<1>4. PICK k \in Nat : k = 4
  OBVIOUS
<1>5. m = p + k
  BY <1>2, <1>3, <1>4, StandsType
<1> QED
  BY <1>1, <1>3, <1>4, <1>5

\* What FlattenSeq joins, one after the other.
LEMMA Flattening ==
  ASSUME NEW s \in Seq(Seq(Nat)), NEW n \in Nat, Len(s) = n
  PROVE  \E f \in [0..n -> Seq(Nat)] :
           /\ f[0] = <<>>
           /\ \A i \in 1..n : f[i] = f[i - 1] \o s[i]
           /\ FlattenSeq(s) = f[n]
<1> DEFINE V == Seq(Nat)
           step == [x \in (1..n) \X V |-> x[2] \o s[x[1]]]
<1>1. step \in [(1..n) \X V -> V]
  <2>1. ASSUME NEW x \in (1..n) \X V PROVE x[2] \o s[x[1]] \in V
    <3>1. x[1] \in 1..n /\ x[2] \in V
      OBVIOUS
    <3>2. s[x[1]] \in V
      BY <3>1
    <3> QED
      BY <3>1, <3>2
  <2> QED
    BY <2>1
<1>2. <<>> \in V
  OBVIOUS
<1>3. \A i \in 1..n, v \in V : step[<<i, v>>] = v \o s[i]
  OBVIOUS
<1> HIDE DEF step, V
<1>4. PICK f \in [0..n -> V] : Iterates(f, step, <<>>, n)
  BY <1>1, <1>2, Iteration
<1>5. f[0] = <<>> /\ \A i \in 1..n : f[i] = f[i - 1] \o s[i]
  <2>1. f[0] = <<>> /\ \A i \in 1..n : f[i] = step[<<i, f[i - 1]>>]
    BY <1>4, Zenon DEF Iterates
  <2>2. ASSUME NEW i \in 1..n PROVE f[i] = f[i - 1] \o s[i]
    <3>1. f[i - 1] \in V
      BY <1>4
    <3> QED
      BY <1>3, <2>1, <3>1, Zenon
  <2> QED
    BY <2>1, <2>2
<1>6. FlattenSeq(s) = f[n]
  <2>1. CASE n = 0
    <3>1. s = <<>>
      BY <2>1
    <3>2. FlattenSeq(s) = <<>>
      BY <3>1, Zenon DEF FlattenSeq
    <3> QED
      BY <1>5, <2>1, <3>2
  <2>2. CASE n # 0
    <3>1. n >= 1
      BY <2>2
    <3>2. f[1] = s[1]
      <4>1. 1 \in 1..n /\ 1 - 1 = 0
        BY <3>1
      <4>2. f[1] = f[0] \o s[1]
        BY <1>5, <4>1
      <4>3. PICK e \in Seq(Nat) : e = s[1]
        BY <4>1
      <4>4. <<>> \o e = e
        OBVIOUS
      <4> QED
        BY <1>5, <4>2, <4>3, <4>4, Zenon
    <3>3. \A i \in 2..n : f[i] = f[i - 1] \o s[i]
      <4>1. \A i \in 2..n : i \in 1..n
        OBVIOUS
      <4> QED
        BY <1>5, <4>1, Zenon
    <3>4. Grows(f, s, n)
      BY <3>2, <3>3, Zenon DEF Grows
    <3> QED
      BY <3>1, <3>4, FlattenIs
  <2> QED
    BY <2>1, <2>2
<1> QED
  BY <1>4, <1>5, <1>6 DEF V

\* Where the members of a sequence stand.
Places(P, b, p, s, n, q) ==
  /\ P \in [0..n -> Nat]
  /\ P[0] = p /\ P[n] = q
  /\ \A i \in 1..n : Stands(b, P[i - 1], s[i], P[i])

\* Where the members of a flattened sequence stand.
LEMMA FlattenPlaces ==
  ASSUME NEW s \in Seq(Seq(Nat)), NEW n \in Nat, Len(s) = n,
         NEW b, NEW p, NEW q, Stands(b, p, FlattenSeq(s), q)
  PROVE  \E P : Places(P, b, p, s, n, q)
<1>1. PICK f \in [0..n -> Seq(Nat)] :
           /\ f[0] = <<>>
           /\ \A i \in 1..n : f[i] = f[i - 1] \o s[i]
           /\ FlattenSeq(s) = f[n]
  BY Flattening
<1>2. p \in Nat
  BY StandsType
<1>3. \A i \in 0..n : Len(f[i]) \in Nat
  BY <1>1
<1> DEFINE P == [i \in 0..n |-> p + Len(f[i])]
<1>4. P \in [0..n -> Nat] /\ \A i \in 0..n : P[i] = p + Len(f[i])
  BY <1>2, <1>3
<1> HIDE DEF P
<1> DEFINE good(i) == Stands(b, p, f[i], P[i])
<1>5. ASSUME NEW i \in 1..n, good(i)
      PROVE  good(i - 1) /\ Stands(b, P[i - 1], s[i], P[i])
  <2>1. f[i] = f[i - 1] \o s[i]
    BY <1>1, Zenon
  <2>2. f[i - 1] \in Seq(Nat) /\ s[i] \in Seq(Nat) /\ i - 1 \in 0..n
    <3>1. i - 1 \in 0..n
      OBVIOUS
    <3>2. s[i] \in Seq(Nat)
      OBVIOUS
    <3> QED
      BY <3>1, <3>2, Zenon
  <2>3. PICK m \in Nat : Stands(b, p, f[i - 1], m) /\ Stands(b, m, s[i], P[i])
    <3>1. Stands(b, p, f[i - 1] \o s[i], P[i])
      BY <1>5, <2>1, Zenon
    <3> QED
      BY <2>2, <3>1, Split, Zenon
  <2>4. m = p + Len(f[i - 1])
    BY <2>3, StandsType
  <2>5. P[i - 1] = m
    BY <1>4, <2>2, <2>4
  <2> QED
    BY <2>3, <2>5
<1>6. good(n)
  <2>1. n \in 0..n
    OBVIOUS
  <2>2. q = p + Len(f[n])
    BY <1>1, StandsType
  <2> QED
    BY <1>1, <1>4, <2>1, <2>2
<1> DEFINE T == {m \in Nat : m <= n => good(n - m)}
<1> HIDE DEF good
<1>7. 0 \in T
  BY <1>6
<1>8. ASSUME NEW m \in T PROVE m + 1 \in T
  <2>1. SUFFICES ASSUME m + 1 <= n PROVE good(n - (m + 1))
    OBVIOUS
  <2>2. PICK i \in 1..n : i = n - m
    BY <2>1
  <2>3. good(i)
    BY <2>1, <2>2
  <2>4. good(i - 1) /\ i - 1 = n - (m + 1)
    BY <1>5, <2>2, <2>3
  <2> QED
    BY <2>4
<1>9. T = Nat
  <2>1. T \in SUBSET Nat
    OBVIOUS
  <2> HIDE DEF T
  <2> QED
    BY <1>7, <1>8, <2>1, AllNaturals
<1>10. \A i \in 1..n : good(i)
  <2> TAKE i \in 1..n
  <2>1. PICK m \in Nat : m = n - i
    OBVIOUS
  <2>2. n - m = i /\ m <= n
    BY <2>1
  <2>3. m \in T
    BY <1>9, <2>1
  <2> QED
    BY <2>2, <2>3
<1>11. P[0] = p
  <2>1. Len(f[0]) = 0
    BY <1>1
  <2> QED
    BY <1>2, <1>4, <2>1
<1>12. P[n] = q
  <2>1. n \in 0..n
    OBVIOUS
  <2>2. q = p + Len(f[n])
    BY <1>1, StandsType
  <2> QED
    BY <1>4, <2>1, <2>2
<1>13. \A i \in 1..n : Stands(b, P[i - 1], s[i], P[i])
  BY <1>5, <1>10
<1>14. Places(P, b, p, s, n, q)
  BY <1>4, <1>11, <1>12, <1>13, Zenon DEF Places
<1> QED
  BY <1>14

\* A cursor that has not failed.
Good(b, pos, items) == [b |-> b, pos |-> pos, ok |-> TRUE, items |-> items]

\* Data behind a length of w bytes at p, that ends at q.
ItemRead(b, p, w, d, q) ==
  /\ (Has(b, p, w) /\ Has(b, p + w, Number(b, p, w))) <=> q <= Len(b)
  /\ q <= Len(b) => p + w + Number(b, p, w) = q /\ Bytes(b, p + w, Number(b, p, w)) = d

\* Data behind a length of two bytes are an item.
LEMMA ShortItem ==
  ASSUME NEW b, NEW p, NEW d, NEW q, ShortRead(b, p, d, q)
  PROVE  ItemRead(b, p, 2, d, q)
BY DEF ShortRead, ItemRead, HasShort, ShortAt, PastShort

\* Data behind a length of four bytes are an item.
LEMMA LongItem ==
  ASSUME NEW b, NEW s, NEW p, NEW d \in Seq(Nat), NEW q, CutFrom(b, s),
         Stands(s, p, Long(d), q), Fits(d)
  PROVE  ItemRead(b, p, 4, d, q)
<1>1. PICK n \in Nat : n = Len(d) /\ n < ShortLimit
  BY DEF Fits
<1>2. PICK m \in Nat : m = p + 4 /\ Stands(s, p, U32(n), m) /\ Stands(s, m, d, q)
  BY <1>1, LongParts, Zenon
<1>3. Has(b, p, 4) => Number(b, p, 4) = n
  BY <1>1, <1>2, ReadFour, Zenon
<1>4. p \in Nat /\ q = m + n /\ Len(b) \in Nat
  BY <1>1, <1>2, StandsType DEF CutFrom
<1>5. (Has(b, p, 4) /\ Has(b, p + 4, Number(b, p, 4))) <=> q <= Len(b)
  <2>1. CASE Has(b, p, 4)
    <3>1. Number(b, p, 4) = n
      BY <1>3, <2>1
    <3> QED
      BY <1>2, <1>4, <2>1, <3>1 DEF Has
  <2>2. CASE ~Has(b, p, 4)
    BY <1>2, <1>4, <2>2 DEF Has
  <2> QED
    BY <2>1, <2>2
<1>6. ASSUME q <= Len(b)
      PROVE  p + 4 + Number(b, p, 4) = q /\ Bytes(b, p + 4, Number(b, p, 4)) = d
  <2>1. Number(b, p, 4) = n
    BY <1>3, <1>5, <1>6, Zenon
  <2>2. Stands(b, m, d, q)
    BY <1>2, <1>6, Kept
  <2>3. Bytes(b, m, n) = d
    <3>1. Len(d) = n /\ n \in Nat
      BY <1>1
    <3> QED
      BY ONLY <2>2, <3>1, ReadBytes
  <2> QED
    BY <1>2, <1>4, <2>1, <2>3
<1> QED
  BY <1>5, <1>6 DEF ItemRead

IsGood(c, b, x, its) == c = Good(b, x, its)
Move(c, p, e) == [c EXCEPT !.pos = p, !.items = e]

\* A cursor that moves on and keeps something.
LEMMA Moved ==
  ASSUME NEW b, NEW x, NEW its, NEW c, NEW p, NEW e, IsGood(c, b, x, its)
  PROVE  IsGood(Move(c, p, e), b, p, e)
<1> DEFINE r(t) == [b |-> b, pos |-> x, ok |-> t, items |-> its]
<1>1. ASSUME NEW t, c = r(t)
      PROVE  [c EXCEPT !.pos = p, !.items = e] = [b |-> b, pos |-> p, ok |-> t, items |-> e]
  <2>1. [c EXCEPT !.pos = p, !.items = e] = [[c EXCEPT !.pos = p] EXCEPT !.items = e]
    BY <1>1
  <2>2. PICK d : d = [b |-> b, pos |-> p, ok |-> t, items |-> its]
    OBVIOUS
  <2>3. [c EXCEPT !.pos = p] = d
    BY <1>1, <2>2
  <2>4. [d EXCEPT !.items = e] = [b |-> b, pos |-> p, ok |-> t, items |-> e]
    BY <2>2
  <2> QED
    BY <2>1, <2>3, <2>4, Zenon
<1> QED
  BY <1>1, Zenon DEF Good, Move, IsGood

\* One entry.
LEMMA EntryIs ==
  ASSUME NEW b, NEW x \in Nat, NEW its, NEW skip \in Nat, NEW w \in Nat, NEW d, NEW y,
         ItemRead(b, x + skip, w, d, y)
  PROVE  Entry(Good(b, x, its), skip, w)
           = IF y <= Len(b) THEN Good(b, y, Append(its, d)) ELSE Fail(Good(b, x, its))
<1>0. PICK c : c = Good(b, x, its)
  OBVIOUS
<1> DEFINE at == x + skip
           n == Number(b, at, w)
<1>1. c.b = b /\ c.pos = x /\ c.items = its /\ c.ok = TRUE
  BY <1>0, Zenon DEF Good
<1>2. Entry(c, skip, w)
        = IF Has(b, at, w) /\ Has(b, at + w, n)
            THEN Move(c, at + w + n, Append(its, Bytes(b, at + w, n)))
            ELSE Fail(c)
  BY <1>1, Zenon DEF Entry, Move
<1>3. \A p, e : IsGood(Move(c, p, e), b, p, e)
  <2>1. IsGood(c, b, x, its)
    BY <1>0, Zenon DEF IsGood
  <2> QED
    BY <2>1, Moved, Zenon
<1>4. CASE y <= Len(b)
  <2>1. at + w + n = y /\ Bytes(b, at + w, n) = d /\ Has(b, at, w) /\ Has(b, at + w, n)
    BY <1>4, Zenon DEF ItemRead
  <2>2. Entry(c, skip, w) = Move(c, y, Append(its, d))
    <3> HIDE DEF n, at
    <3> QED
      BY <1>2, <2>1, Zenon
  <2> QED
    BY <1>0, <1>3, <1>4, <2>2, Zenon DEF IsGood
<1>5. CASE ~(y <= Len(b))
  <2>1. ~(Has(b, at, w) /\ Has(b, at + w, n))
    BY <1>5, Zenon DEF ItemRead
  <2>2. Entry(c, skip, w) = Fail(c)
    BY <1>2, <2>1, Zenon
  <2> QED
    BY <1>0, <1>5, <2>2, Zenon
<1> QED
  BY <1>0, <1>4, <1>5, Zenon

\* The loop over entries, from its steps.
EntrySteps(f, n, skip, w, c) ==
  /\ f[0] = c
  /\ \A i \in 1..n : f[i] = IF f[i - 1].ok THEN Entry(f[i - 1], skip, w) ELSE f[i - 1]

EntryLoop(h, n, skip, w, c) ==
  h = [i \in 0..n |->
         IF i = 0 THEN c ELSE IF h[i - 1].ok THEN Entry(h[i - 1], skip, w) ELSE h[i - 1]]

\* A loop over entries ends where steps like its own end.
LEMMA EntriesAre ==
  ASSUME NEW n \in Nat, NEW skip, NEW w, NEW c, NEW f, EntrySteps(f, n, skip, w, c)
  PROVE  Entries(n, skip, w, c) = f[n]
<1> DEFINE h == CHOOSE g : EntryLoop(g, n, skip, w, c)
<1>1. \E g : EntryLoop(g, n, skip, w, c)
  <2>1. PICK e : e = [i \in 0..n |-> f[i]]
    OBVIOUS
  <2>2. ASSUME NEW i \in 0..n
        PROVE  f[i] = IF i = 0 THEN c
                      ELSE IF e[i - 1].ok THEN Entry(e[i - 1], skip, w) ELSE e[i - 1]
    <3>1. CASE i = 0
      BY <3>1, Zenon DEF EntrySteps
    <3>2. CASE i # 0
      <4>1. i \in 1..n /\ i - 1 \in 0..n
        BY <3>2
      <4>2. e[i - 1] = f[i - 1]
        BY <2>1, <4>1
      <4> QED
        BY <3>2, <4>1, <4>2, Zenon DEF EntrySteps
    <3> QED
      BY <3>1, <3>2
  <2>3. EntryLoop(e, n, skip, w, c)
    BY <2>1, <2>2, Zenon DEF EntryLoop
  <2> QED
    BY <2>3, Zenon
<1>2. EntryLoop(h, n, skip, w, c)
  BY <1>1, Zenon
<1>3. Entries(n, skip, w, c) = h[n]
  BY Zenon DEF Entries, Repeat, EntryLoop
<1> HIDE DEF h
<1>4. \A i \in 0..n :
        h[i] = IF i = 0 THEN c ELSE IF h[i - 1].ok THEN Entry(h[i - 1], skip, w) ELSE h[i - 1]
  BY <1>2, Zenon DEF EntryLoop
<1> DEFINE T == {m \in Nat : m <= n => h[m] = f[m]}
<1>5. 0 \in T
  <2>1. h[0] = c
    BY <1>4
  <2> QED
    BY <2>1 DEF EntrySteps
<1>6. ASSUME NEW m \in T PROVE m + 1 \in T
  <2>1. SUFFICES ASSUME m + 1 <= n PROVE h[m + 1] = f[m + 1]
    OBVIOUS
  <2>2. PICK i \in 1..n : i = m + 1 /\ i - 1 = m /\ i \in 0..n /\ i # 0
    BY <2>1
  <2>3. h[i - 1] = f[i - 1]
    BY <2>1, <2>2
  <2>4. h[i] = IF h[i - 1].ok THEN Entry(h[i - 1], skip, w) ELSE h[i - 1]
    BY <1>4, <2>2, Zenon
  <2>5. f[i] = IF f[i - 1].ok THEN Entry(f[i - 1], skip, w) ELSE f[i - 1]
    BY <2>2, Zenon DEF EntrySteps
  <2>6. h[i] = f[i]
    BY <2>3, <2>4, <2>5
  <2> QED
    BY <2>2, <2>6, Zenon
<1>7. T = Nat
  <2>1. T \in SUBSET Nat
    OBVIOUS
  <2> HIDE DEF T
  <2> QED
    BY <1>5, <1>6, <2>1, AllNaturals
<1>8. h[n] = f[n]
  <2>1. n \in T
    BY <1>7
  <2> QED
    BY <2>1
<1> QED
  BY <1>3, <1>8, Zenon

\* The items D[i], each behind its length, end at P[i].
Rows(b, P, D, n, skip, w) ==
  /\ P \in [0..n -> Nat] /\ Len(b) \in Nat /\ P[0] <= Len(b)
  /\ \A i \in 1..n : P[i - 1] <= P[i] /\ ItemRead(b, P[i - 1] + skip, w, D[i], P[i])

Firsts(D, i) == [j \in 1..i |-> D[j]]

\* One item more.
LEMMA FirstsGrow ==
  ASSUME NEW D, NEW i \in Nat, i >= 1
  PROVE  Append(Firsts(D, i - 1), D[i]) = Firsts(D, i)
BY DEF Firsts

\* No item.
LEMMA NoFirsts ==
  ASSUME NEW D
  PROVE  Firsts(D, 0) = <<>>
BY DEF Firsts

\* A cursor that failed.
LEMMA FailedIs ==
  ASSUME NEW b, NEW p, NEW its
  PROVE  Fail(Good(b, p, its)).ok = FALSE
<1> DEFINE r(t) == [b |-> b, pos |-> p, ok |-> t, items |-> its]
<1>1. ASSUME NEW t, NEW v, NEW g, g = r(t), NEW x
      PROVE  [g EXCEPT !.pos = x, !.ok = v].ok = v
  <2>1. [g EXCEPT !.pos = x, !.ok = v] = [[g EXCEPT !.pos = x] EXCEPT !.ok = v]
    BY <1>1
  <2> QED
    BY <1>1, <2>1
<1> QED
  BY <1>1, Zenon DEF Fail, Good

\* The items there to their end are the first k.
CutAfter(P, b, n, k) ==
  /\ k \in 0..n
  /\ \A i \in 0..k : P[i] <= Len(b)
  /\ k < n => ~(P[k + 1] <= Len(b))

\* The loop stops after them.
LEMMA EntriesStop ==
  ASSUME NEW b, NEW P, NEW D, NEW n \in Nat, NEW skip \in Nat, NEW w \in Nat,
         Rows(b, P, D, n, skip, w), NEW k, CutAfter(P, b, n, k)
  PROVE  LET e == Entries(n, skip, w, Cursor(b, P[0]))
         IN IF k = n THEN IsGood(e, b, P[n], Firsts(D, n)) ELSE ~e.ok
<1> DEFINE good(i) == Good(b, P[i], Firsts(D, i))
           fail == Fail(good(k))
           f == [i \in 0..n |-> IF i <= k THEN good(i) ELSE fail]
           c == Cursor(b, P[0])
<1>1. \A i \in 0..n : f[i] = IF i <= k THEN good(i) ELSE fail
  BY Zenon
<1>2. good(0) = c
  BY NoFirsts, Zenon DEF Good, Cursor
<1>3. \A i : good(i).ok = TRUE
  BY Zenon DEF Good
<1>4. fail.ok = FALSE
  BY FailedIs, Zenon
<1>5. k \in 0..n /\ \A i \in 1..n : i <= k => P[i] <= Len(b)
  BY DEF CutAfter
<1>6. \A i \in 1..n : P[i - 1] \in Nat /\ ItemRead(b, P[i - 1] + skip, w, D[i], P[i])
  BY DEF Rows
<1>7. ASSUME NEW i \in 1..n PROVE f[i] = IF f[i - 1].ok THEN Entry(f[i - 1], skip, w) ELSE f[i - 1]
  <2>1. i \in 0..n /\ i - 1 \in 0..n /\ i \in Nat /\ i >= 1
    OBVIOUS
  <2>2. Entry(good(i - 1), skip, w)
          = IF P[i] <= Len(b)
              THEN Good(b, P[i], Append(Firsts(D, i - 1), D[i]))
              ELSE Fail(good(i - 1))
    BY <1>6, EntryIs, Zenon
  <2>3. Entry(good(i - 1), skip, w) = IF P[i] <= Len(b) THEN good(i) ELSE Fail(good(i - 1))
    BY <2>1, <2>2, FirstsGrow, Zenon
  <2>4. CASE i <= k
    <3>1. i - 1 <= k /\ P[i] <= Len(b)
      BY <1>5, <2>4
    <3>2. f[i] = good(i) /\ f[i - 1] = good(i - 1)
      BY <1>1, <2>1, <2>4, <3>1, Zenon
    <3> QED
      BY <1>3, <2>3, <3>1, <3>2, Zenon
  <2>5. CASE i = k + 1
    <3>1. k \in 0..n /\ i - 1 = k /\ k <= k /\ k < n /\ ~(i <= k)
      BY <1>5, <2>5
    <3>2. f[i] = fail /\ f[i - 1] = good(k)
      BY <1>1, <2>1, <3>1, Zenon
    <3>3. ~(P[i] <= Len(b))
      BY <2>5, <3>1, Zenon DEF CutAfter
    <3>4. Entry(good(k), skip, w) = Fail(good(k))
      BY <2>3, <3>1, <3>3, Zenon
    <3> QED
      BY <1>3, <3>2, <3>4, Zenon
  <2>6. CASE i > k + 1
    <3>1. ~(i <= k) /\ ~(i - 1 <= k)
      BY <1>5, <2>6
    <3>2. f[i] = fail /\ f[i - 1] = fail
      BY <1>1, <2>1, <3>1, Zenon
    <3> QED
      BY <1>4, <3>2, Zenon
  <2>7. i <= k \/ i = k + 1 \/ i > k + 1
    BY <1>5
  <2> QED
    BY <2>4, <2>5, <2>6, <2>7, Zenon
<1>8. f[0] = c
  <2>1. 0 \in 0..n /\ 0 <= k
    BY <1>5
  <2> QED
    BY <1>1, <1>2, <2>1, Zenon
<1>9. EntrySteps(f, n, skip, w, c)
  BY <1>7, <1>8, Zenon DEF EntrySteps
<1>10. Entries(n, skip, w, c) = f[n]
  <2> HIDE DEF f, c
  <2> QED
    BY <1>9, EntriesAre, Zenon
<1>11. n \in 0..n /\ (n <= k <=> k = n)
  BY <1>5
<1>12. f[n] = IF k = n THEN good(n) ELSE fail
  BY <1>1, <1>11, Zenon
<1> QED
  BY <1>4, <1>10, <1>12, Zenon DEF IsGood

\* All items are there, or not all.
LEMMA EntriesRead ==
  ASSUME NEW b, NEW P, NEW D, NEW n \in Nat, NEW skip \in Nat, NEW w \in Nat,
         Rows(b, P, D, n, skip, w)
  PROVE  /\ P[n] <= Len(b) => IsGood(Entries(n, skip, w, Cursor(b, P[0])), b, P[n], Firsts(D, n))
         /\ ~(P[n] <= Len(b)) => ~Entries(n, skip, w, Cursor(b, P[0])).ok
<1>1. PICK l \in Nat : l = Len(b)
  BY DEF Rows
<1>2. P \in [0..n -> Nat] /\ P[0] <= l /\ \A i \in 1..n : P[i - 1] <= P[i]
  BY <1>1 DEF Rows
<1>3. ASSUME P[n] <= l PROVE CutAfter(P, b, n, n)
  <2> DEFINE T == {m \in Nat : m <= n => P[n - m] <= l}
  <2>1. 0 \in T
    BY <1>3
  <2>2. ASSUME NEW m \in T PROVE m + 1 \in T
    <3>1. SUFFICES ASSUME m + 1 <= n PROVE P[n - (m + 1)] <= l
      OBVIOUS
    <3>2. PICK i \in 1..n : i = n - m /\ i - 1 = n - (m + 1) /\ i \in 0..n /\ i - 1 \in 0..n
      BY <3>1
    <3>3. P[i] <= l
      BY <3>1, <3>2
    <3>4. P[i - 1] <= P[i] /\ P[i] \in Nat /\ P[i - 1] \in Nat
      BY <1>2, <3>2
    <3>5. P[i - 1] <= l
      BY <1>1, <3>3, <3>4
    <3> QED
      BY <3>2, <3>5
  <2>3. T = Nat
    <3>1. T \in SUBSET Nat
      OBVIOUS
    <3> HIDE DEF T
    <3> QED
      BY <2>1, <2>2, <3>1, AllNaturals
  <2>4. ASSUME NEW i \in 0..n PROVE P[i] <= l
    <3>1. PICK m \in Nat : m = n - i /\ i = n - m /\ m <= n
      OBVIOUS
    <3>2. m \in T
      BY <2>3
    <3> QED
      BY <3>1, <3>2
  <2>5. n \in 0..n /\ ~(n < n)
    OBVIOUS
  <2> QED
    BY <1>1, <2>4, <2>5, Zenon DEF CutAfter
<1>4. ASSUME ~(P[n] <= l) PROVE \E k : k # n /\ CutAfter(P, b, n, k)
  <2> DEFINE T == {m \in Nat : m <= n /\ \A i \in 0..m : P[i] <= l}
  <2>1. 0 \in T
    BY <1>2
  <2>2. n \notin T
    BY <1>4
  <2>3. T # Nat
    BY <2>2
  <2>4. PICK k \in T : k + 1 \notin T
    <3>1. T \in SUBSET Nat
      OBVIOUS
    <3> HIDE DEF T
    <3> QED
      BY <2>1, <2>3, <3>1, AllNaturals
  <2>5. k \in 0..n /\ k # n /\ k + 1 <= n
    BY <2>2, <2>4
  <2>6. \A i \in 0..k : P[i] <= l
    BY <2>4
  <2>7. ~(P[k + 1] <= l)
    BY <2>4, <2>5, <2>6
  <2>8. CutAfter(P, b, n, k)
    BY <1>1, <2>5, <2>6, <2>7, Zenon DEF CutAfter
  <2> QED
    BY <2>5, <2>8
<1>5. ASSUME P[n] <= l
      PROVE  IsGood(Entries(n, skip, w, Cursor(b, P[0])), b, P[n], Firsts(D, n))
  <2>1. CutAfter(P, b, n, n)
    BY <1>3, <1>5
  <2> QED
    BY <2>1, EntriesStop, Zenon
<1>6. ASSUME ~(P[n] <= l) PROVE ~Entries(n, skip, w, Cursor(b, P[0])).ok
  <2>1. PICK k : k # n /\ CutAfter(P, b, n, k)
    BY <1>4, <1>6
  <2> QED
    BY <2>1, EntriesStop, Zenon
<1> QED
  BY <1>1, <1>5, <1>6, Zenon

Sized(d, n) == n \in Nat /\ Len(d) = n
BytesAre(b, p, n, d, q) == q = p + n /\ Has(b, p, n) /\ Bytes(b, p, n) = d

\* A field of a fixed length.
LEMMA FixedRead ==
  ASSUME NEW b, NEW p, NEW d, NEW q, NEW n, Stands(b, p, d, q), Sized(d, n)
  PROVE  BytesAre(b, p, n, d, q)
<1>1. n \in Nat /\ Len(d) = n
  BY DEF Sized
<1> QED
  BY <1>1, ReadBytes DEF BytesAre

\* Bytes are numbers.
LEMMA BytesNat ==
  ASSUME NEW s \in Seq(Byte)
  PROVE  s \in Seq(Nat)
<1>1. PICK n \in Nat : n = Len(s)
  OBVIOUS
<1>2. s \in [1..n -> Byte]
  BY <1>1
<1>3. Byte \subseteq Nat
  BY DEF Byte
<1>4. s \in [1..n -> Nat]
  BY <1>2, <1>3
<1> QED
  BY <1>4

\* Data behind its length in a message is short enough.
LEMMA LongFits ==
  ASSUME NEW s, NEW p, NEW d \in Seq(Nat), NEW q, Stands(s, p, Long(d), q), Fits(s)
  PROVE  Fits(d)
<1>1. PICK m \in Nat : m = p + 4 /\ Stands(s, m, d, q)
  BY LongParts, Zenon
<1>2. PICK j \in Nat : j = Len(d)
  OBVIOUS
<1>3. PICK l \in Nat : l = Len(s)
  BY <1>1, StandsType
<1>4. q = m + j /\ q <= l
  BY <1>1, <1>2, <1>3, StandsType
<1>5. l < ShortLimit
  BY <1>3 DEF Fits
<1>6. j < ShortLimit
  BY <1>4, <1>5 DEF ShortLimit
<1> QED
  BY <1>2, <1>6, Zenon DEF Fits

\* The six parts of the bytes of a ticket.
StandSix(b, p, q, u, v, w, x, y, z) ==
  \E a1, a2, a3, a4, a5 \in Nat :
    /\ Stands(b, p, u, a1) /\ Stands(b, a1, v, a2) /\ Stands(b, a2, w, a3)
    /\ Stands(b, a3, x, a4) /\ Stands(b, a4, y, a5) /\ Stands(b, a5, z, q)

\* The parts of six things joined, and where they stand.
LEMMA SixParts ==
  ASSUME NEW u \in Seq(Nat), NEW v \in Seq(Nat), NEW w \in Seq(Nat), NEW x \in Seq(Nat),
         NEW y \in Seq(Nat), NEW z \in Seq(Nat), NEW b, NEW p, NEW q,
         Stands(b, p, u \o v \o w \o x \o y \o z, q)
  PROVE  StandSix(b, p, q, u, v, w, x, y, z)
<1>1. u \o v \in Seq(Nat)
  BY JoinType, Zenon
<1>2. (u \o v) \o w \in Seq(Nat)
  BY <1>1, JoinType, Zenon
<1>3. ((u \o v) \o w) \o x \in Seq(Nat)
  BY <1>2, JoinType, Zenon
<1>4. (((u \o v) \o w) \o x) \o y \in Seq(Nat)
  BY <1>3, JoinType, Zenon
<1>5. PICK a5 \in Nat : Stands(b, p, u \o v \o w \o x \o y, a5) /\ Stands(b, a5, z, q)
  BY <1>4, Split, Zenon
<1>6. PICK a4 \in Nat : Stands(b, p, u \o v \o w \o x, a4) /\ Stands(b, a4, y, a5)
  BY <1>3, <1>5, Split, Zenon
<1>7. PICK a3 \in Nat : Stands(b, p, u \o v \o w, a3) /\ Stands(b, a3, x, a4)
  BY <1>2, <1>6, Split, Zenon
<1>8. PICK a2 \in Nat : Stands(b, p, u \o v, a2) /\ Stands(b, a2, w, a3)
  BY <1>1, <1>7, Split, Zenon
<1>9. PICK a1 \in Nat : Stands(b, p, u, a1) /\ Stands(b, a1, v, a2)
  BY <1>8, Split, Zenon
<1> QED
  BY <1>5, <1>6, <1>7, <1>8, <1>9, Zenon DEF StandSix

\* The types of a ticket's fields.
LEMMA TicketFields ==
  ASSUME NEW t \in SessionTicket
  PROVE  /\ <<t.type>> \in Seq(Nat) /\ t.lifetime \in Seq(Nat) /\ t.ageAdd \in Seq(Nat)
         /\ t.reserved \in Seq(Nat) /\ t.nonce \in Seq(Nat) /\ t.ticket \in Seq(Nat)
         /\ Len(t.lifetime) = 4 /\ Len(t.reserved) = 4
<1>1. /\ t.type \in Byte /\ t.lifetime \in Seq(Byte) /\ t.ageAdd \in Seq(Byte)
      /\ t.reserved \in Seq(Byte) /\ t.nonce \in Seq(Byte) /\ t.ticket \in Seq(Byte)
      /\ Len(t.lifetime) = 4 /\ Len(t.reserved) = 4
  BY DEF SessionTicket, Fixed
<1>2. <<t.type>> \in Seq(Nat)
  <2>0. t.type \in Byte
    BY <1>1, Zenon
  <2>1. PICK x \in Nat : x = t.type
    BY <2>0 DEF Byte
  <2>2. <<x>> \in Seq(Nat)
    OBVIOUS
  <2> QED
    BY <2>1, <2>2, Zenon
<1> QED
  BY <1>1, <1>2, BytesNat, Zenon

\* The bytes of a ticket are bytes.
LEMMA TicketBytesType ==
  ASSUME NEW t \in SessionTicket
  PROVE  TicketBytes(t) \in Seq(Nat)
<1>1. /\ <<t.type>> \in Seq(Nat) /\ t.lifetime \in Seq(Nat) /\ Short(t.ageAdd) \in Seq(Nat)
      /\ t.reserved \in Seq(Nat) /\ Short(t.nonce) \in Seq(Nat) /\ Short(t.ticket) \in Seq(Nat)
  BY TicketFields, ShortType, Zenon
<1> QED
  BY <1>1, JoinType, Zenon DEF TicketBytes

\* A ticket is read as it was written.
THEOREM TicketReadBack ==
  ASSUME NEW t \in SessionTicket
  PROVE  ReadTicket(TicketBytes(t)) = t
<1>1. PICK b \in Seq(Nat) : b = TicketBytes(t)
  BY TicketBytesType
<1>2. /\ <<t.type>> \in Seq(Nat) /\ t.lifetime \in Seq(Nat) /\ Short(t.ageAdd) \in Seq(Nat)
      /\ t.reserved \in Seq(Nat) /\ Short(t.nonce) \in Seq(Nat) /\ Short(t.ticket) \in Seq(Nat)
  BY TicketFields, ShortType, Zenon
<1>3. PICK l \in Nat : l = Len(b)
  OBVIOUS
<1>4. Stands(b, 0, b, l) /\ CutFrom(b, b)
  BY <1>3, Whole, Zenon
<1>5. PICK a1, a2, a3, a4, a5 \in Nat :
        /\ Stands(b, 0, <<t.type>>, a1) /\ Stands(b, a1, t.lifetime, a2)
        /\ Stands(b, a2, Short(t.ageAdd), a3) /\ Stands(b, a3, t.reserved, a4)
        /\ Stands(b, a4, Short(t.nonce), a5) /\ Stands(b, a5, Short(t.ticket), l)
  <2>1. Stands(b, 0, TicketBytes(t), l)
    BY <1>1, <1>4, Zenon
  <2>2. Stands(b, 0, <<t.type>> \o t.lifetime \o Short(t.ageAdd) \o t.reserved
                       \o Short(t.nonce) \o Short(t.ticket), l)
    BY <2>1, Zenon DEF TicketBytes
  <2>3. StandSix(b, 0, l, <<t.type>>, t.lifetime, Short(t.ageAdd), t.reserved, Short(t.nonce),
                 Short(t.ticket))
    BY <1>2, <2>2, SixParts, Zenon
  <2> QED
    BY <2>3, Zenon DEF StandSix
<1>6. a1 = 0 + 1 /\ b[a1] = t.type
  BY <1>5, ReadOne
<1>7. a2 = a1 + 4 /\ Bytes(b, a1, 4) = t.lifetime
  <2>1. Stands(b, a1, t.lifetime, a2) /\ Len(t.lifetime) = 4
    BY <1>5, TicketFields, Zenon
  <2>2. Sized(t.lifetime, 4)
    BY <2>1 DEF Sized
  <2>3. BytesAre(b, a1, 4, t.lifetime, a2)
    BY <2>1, <2>2, FixedRead, Zenon
  <2> QED
    BY <2>3, Zenon DEF BytesAre
<1>8. a4 = a3 + 4 /\ Bytes(b, a3, 4) = t.reserved
  <2>1. Stands(b, a3, t.reserved, a4) /\ Len(t.reserved) = 4
    BY <1>5, TicketFields, Zenon
  <2>2. Sized(t.reserved, 4)
    BY <2>1 DEF Sized
  <2>3. BytesAre(b, a3, 4, t.reserved, a4)
    BY <2>1, <2>2, FixedRead, Zenon
  <2> QED
    BY <2>3, Zenon DEF BytesAre
<1>9. a1 = 1 /\ a2 = 5
  BY <1>6, <1>7
<1>10. HasShort(b, 5) /\ ShortAt(b, 5) = t.ageAdd /\ PastShort(b, 5) = a3
  <2>1. a3 <= l
    BY <1>3, <1>5, StandsType, Zenon
  <2>2. ShortRead(b, a2, t.ageAdd, a3)
    BY <1>4, <1>5, TicketFields, ReadShort, Zenon
  <2> QED
    BY <1>3, <1>9, <2>1, <2>2, Zenon DEF ShortRead
<1>11. HasShort(b, a4) /\ ShortAt(b, a4) = t.nonce /\ PastShort(b, a4) = a5
  <2>1. a5 <= l
    BY <1>3, <1>5, StandsType, Zenon
  <2>2. ShortRead(b, a4, t.nonce, a5)
    BY <1>4, <1>5, TicketFields, ReadShort, Zenon
  <2> QED
    BY <1>3, <2>1, <2>2, Zenon DEF ShortRead
<1>12. HasShort(b, a5) /\ ShortAt(b, a5) = t.ticket
  <2>1. l <= Len(b)
    BY <1>3
  <2>2. ShortRead(b, a5, t.ticket, l)
    BY <1>4, <1>5, TicketFields, ReadShort, Zenon
  <2> QED
    BY <2>1, <2>2, Zenon DEF ShortRead
<1>13. b[1] = t.type /\ Bytes(b, 1, 4) = t.lifetime
  BY <1>6, <1>7, <1>9, Zenon
<1>14. ReadTicket(b)
         = [type |-> t.type, lifetime |-> t.lifetime, ageAdd |-> t.ageAdd,
            reserved |-> t.reserved, nonce |-> t.nonce, ticket |-> t.ticket]
  BY <1>8, <1>10, <1>11, <1>12, <1>13 DEF ReadTicket
<1>15. t = [type |-> t.type, lifetime |-> t.lifetime, ageAdd |-> t.ageAdd,
            reserved |-> t.reserved, nonce |-> t.nonce, ticket |-> t.ticket]
  BY DEF SessionTicket
<1> QED
  BY <1>1, <1>14, <1>15, Zenon

\* A ticket is no error.
LEMMA TicketIsNoError ==
  ASSUME NEW t \in SessionTicket
  PROVE  t # Error
<1>1. DOMAIN t = {"type", "lifetime", "ageAdd", "reserved", "nonce", "ticket"}
  BY DEF SessionTicket
<1>2. DOMAIN Error = {"failed"}
  BY DEF Error
<1> QED
  BY <1>1, <1>2

\* What read_new_session_ticket returns, and with it the parser.
ListOf(nst) == [reserved |-> 4, count |-> nst.count, tickets |-> nst.tickets]

Encoded(nst) == [i \in DOMAIN nst.tickets |-> TicketBytes(nst.tickets[i])]
Framed(nst) == [i \in DOMAIN nst.tickets |-> Long(TicketBytes(nst.tickets[i]))]

\* What is framed is a sequence of bytes.
LEMMA FramedType ==
  ASSUME NEW nst \in NewSessionTicket, NEW n \in Nat, Len(nst.tickets) = n
  PROVE  /\ nst.count = n /\ n \in Byte /\ DOMAIN nst.tickets = 1..n
         /\ \A i \in 1..n : nst.tickets[i] \in SessionTicket
         /\ Framed(nst) \in Seq(Seq(Nat)) /\ Len(Framed(nst)) = n
<1>1. nst.count = n /\ n \in Byte /\ nst.tickets \in Seq(SessionTicket)
  BY DEF NewSessionTicket
<1>2. DOMAIN nst.tickets = 1..n /\ \A i \in 1..n : nst.tickets[i] \in SessionTicket
  BY <1>1
<1>3. \A i \in 1..n : Long(TicketBytes(nst.tickets[i])) \in Seq(Nat)
  BY <1>2, TicketBytesType, LongType, Zenon
<1>4. Framed(nst) = [i \in 1..n |-> Long(TicketBytes(nst.tickets[i]))]
  BY <1>2, Zenon DEF Framed
<1>5. Framed(nst) \in [1..n -> Seq(Nat)]
  BY <1>3, <1>4, Zenon
<1>6. Framed(nst) \in Seq(Seq(Nat)) /\ Len(Framed(nst)) = n
  BY <1>5
<1> QED
  BY <1>1, <1>2, <1>6, Zenon

\* Where the entries of a list stand.
LEMMA ListPlaces ==
  ASSUME NEW nst \in NewSessionTicket, NEW n \in Nat, Len(nst.tickets) = n,
         NEW s \in Seq(Nat), s = NewSessionTicketBytes(nst), NEW l \in Nat, l = Len(s)
  PROVE  /\ l >= 6 /\ s[5] = 4 /\ s[6] = n
         /\ \E P : Places(P, s, 6, Framed(nst), n, l)
<1> DEFINE f == FlattenSeq(Framed(nst))
           h == <<4, nst.count>>
<1>1. nst.count = n /\ Framed(nst) \in Seq(Seq(Nat)) /\ Len(Framed(nst)) = n
  BY FramedType, Zenon
<1>2. f \in Seq(Nat)
  <2>1. PICK g \in [0..n -> Seq(Nat)] : FlattenSeq(Framed(nst)) = g[n]
    BY <1>1, Flattening
  <2>2. g[n] \in Seq(Nat)
    BY <2>1
  <2> QED
    BY <2>1, <2>2, Zenon
<1>3. h \in Seq(Nat) /\ Len(h) = 2 /\ h[1] = 4 /\ h[2] = n
  BY <1>1
<1>4. s = Long(h \o f)
  BY Zenon DEF NewSessionTicketBytes, Framed
<1> HIDE DEF f, h
<1>5. h \o f \in Seq(Nat)
  BY <1>2, <1>3, JoinType, Zenon
<1>6. Stands(s, 0, Long(h \o f), l)
  BY <1>4, Whole, Zenon
<1>7. PICK m \in Nat : m = 0 + 4 /\ Stands(s, m, h \o f, l)
  BY <1>5, <1>6, LongParts, Zenon
<1>8. PICK k \in Nat : Stands(s, m, h, k) /\ Stands(s, k, f, l)
  BY <1>2, <1>3, <1>7, Split, Zenon
<1>9. k = 6 /\ l >= 6 /\ s[5] = 4 /\ s[6] = n
  <2>1. PICK two \in Nat : two = 2
    OBVIOUS
  <2>2. m = 4
    BY <1>7
  <2>3. k = m + two /\ \A i \in 1..two : s[m + i] = h[i]
    BY <1>3, <1>8, <2>1 DEF Stands
  <2>4. k <= l
    BY <1>8, StandsType
  <2> QED
    BY <1>3, <2>1, <2>2, <2>3, <2>4
<1>10. Stands(s, 6, FlattenSeq(Framed(nst)), l)
  BY <1>8, <1>9, Zenon DEF f
<1>11. \E P : Places(P, s, 6, Framed(nst), n, l)
  BY <1>1, <1>10, FlattenPlaces
<1> QED
  BY <1>9, <1>11, Zenon

\* The entries of a list that was cut behind its count.
LEMMA ListRows ==
  ASSUME NEW nst \in NewSessionTicket, NEW n \in Nat, Len(nst.tickets) = n,
         NEW s \in Seq(Nat), Fits(s), NEW l \in Nat,
         NEW P, Places(P, s, 6, Framed(nst), n, l), NEW b, CutFrom(b, s), 6 <= Len(b)
  PROVE  Rows(b, P, Encoded(nst), n, 0, 4)
<1>1. P \in [0..n -> Nat] /\ P[0] = 6
  BY DEF Places
<1>2. Len(b) \in Nat
  BY DEF CutFrom
<1>3. ASSUME NEW i \in 1..n
      PROVE  P[i - 1] <= P[i] /\ ItemRead(b, P[i - 1] + 0, 4, Encoded(nst)[i], P[i])
  <2>1. nst.tickets[i] \in SessionTicket /\ DOMAIN nst.tickets = 1..n
    BY FramedType, Zenon
  <2>2. TicketBytes(nst.tickets[i]) \in Seq(Nat)
    BY <2>1, TicketBytesType, Zenon
  <2>3. /\ Framed(nst)[i] = Long(TicketBytes(nst.tickets[i]))
        /\ Encoded(nst)[i] = TicketBytes(nst.tickets[i])
    BY <2>1, Zenon DEF Framed, Encoded
  <2>4. Stands(s, P[i - 1], Long(Encoded(nst)[i]), P[i])
    BY <2>3, Zenon DEF Places
  <2>5. Fits(Encoded(nst)[i])
    <3>1. Encoded(nst)[i] \in Seq(Nat)
      BY <2>2, <2>3, Zenon
    <3> QED
      BY <2>4, <3>1, LongFits, Zenon
  <2>6. ItemRead(b, P[i - 1], 4, Encoded(nst)[i], P[i])
    BY <2>2, <2>3, <2>4, <2>5, LongItem, Zenon
  <2>7. P[i - 1] <= P[i] /\ P[i - 1] \in Nat
    BY <2>4, StandsType, Zenon
  <2>8. P[i - 1] + 0 = P[i - 1]
    BY <2>7
  <2> QED
    BY <2>6, <2>7, <2>8, Zenon
<1> QED
  BY <1>1, <1>2, <1>3 DEF Rows

\* The three ways a list is read.
LEMMA ReadingList ==
  ASSUME NEW b
  PROVE  LET entries == TicketEntries(b[6], Cursor(b, 6))
             tickets == [i \in DOMAIN entries.items |-> ReadTicket(entries.items[i])]
         IN /\ ~(Len(b) >= 6) => ReadNewSessionTicket(b) = Error
            /\ ~entries.ok => ReadNewSessionTicket(b) = Error
            /\ Len(b) >= 6 /\ entries.ok /\ (\A i \in DOMAIN tickets : tickets[i] # Error) =>
                 ReadNewSessionTicket(b)
                   = [reserved |-> b[5], count |-> b[6], tickets |-> tickets]
<1> DEFINE entries == TicketEntries(b[6], Cursor(b, 6))
           tickets == [i \in DOMAIN entries.items |-> ReadTicket(entries.items[i])]
           good == \A i \in DOMAIN tickets : tickets[i] # Error
           list == [reserved |-> b[5], count |-> b[6], tickets |-> tickets]
           long == Len(b) >= 6
<1>1. ReadNewSessionTicket(b) = IF long /\ entries.ok /\ good THEN list ELSE Error
  BY Zenon DEF ReadNewSessionTicket
<1> HIDE DEF good, list, entries, tickets, long
<1>2. /\ ~long => ReadNewSessionTicket(b) = Error
      /\ ~entries.ok => ReadNewSessionTicket(b) = Error
      /\ long /\ entries.ok /\ good => ReadNewSessionTicket(b) = list
  BY <1>1, Zenon
<1> QED
  BY <1>2, Zenon DEF good, list, entries, tickets, long

\* A list of tickets is read as it was written, and no part of it is.
TicketsRead(b, nst, l) ==
  /\ l <= Len(b) => ReadNewSessionTicket(b) = ListOf(nst)
  /\ ~(l <= Len(b)) => ReadNewSessionTicket(b) = Error

\* However many tickets there are: a list of tickets is read as it was written.
THEOREM ListReadBack ==
  ASSUME NEW nst \in NewSessionTicket, NEW s \in Seq(Nat), s = NewSessionTicketBytes(nst),
         Fits(s), NEW b, CutFrom(b, s), NEW l \in Nat, l = Len(s)
  PROVE  TicketsRead(b, nst, l)
<1>1. PICK n \in Nat : n = Len(nst.tickets)
  BY DEF NewSessionTicket
<1>2. PICK P : l >= 6 /\ s[5] = 4 /\ s[6] = n /\ Places(P, s, 6, Framed(nst), n, l)
  BY <1>1, ListPlaces
<1>3. PICK k \in Nat : k = Len(b)
  BY DEF CutFrom
<1>4. CASE k < 6
  <2>1. ~(Len(b) >= 6) /\ ~(l <= Len(b))
    BY <1>2, <1>3, <1>4
  <2>2. ReadNewSessionTicket(b) = Error
    BY <2>1, ReadingList, Zenon
  <2> QED
    BY <2>1, <2>2 DEF TicketsRead
<1>5. CASE k >= 6
  <2>1. b[5] = 4 /\ b[6] = n
    <3>1. \A i \in 1..k : b[i] = s[i]
      BY <1>3, Zenon DEF CutFrom
    <3>2. 5 \in 1..k /\ 6 \in 1..k
      BY <1>5
    <3> QED
      BY <1>2, <3>1, <3>2, Zenon
  <2> DEFINE e == Entries(n, 0, 4, Cursor(b, 6))
             D == Encoded(nst)
  <2>2. Rows(b, P, D, n, 0, 4)
    <3>1. 6 <= Len(b) /\ Len(nst.tickets) = n
      BY <1>1, <1>3, <1>5
    <3> QED
      BY <1>2, <3>1, ListRows, Zenon
  <2>3. P[0] = 6 /\ P[n] = l
    BY <1>2, Zenon DEF Places
  <2>4. /\ l <= Len(b) => IsGood(e, b, l, Firsts(D, n))
        /\ ~(l <= Len(b)) => ~e.ok
    <3>1. 0 \in Nat /\ 4 \in Nat
      OBVIOUS
    <3>2. /\ P[n] <= Len(b) => IsGood(Entries(n, 0, 4, Cursor(b, P[0])), b, P[n], Firsts(D, n))
          /\ ~(P[n] <= Len(b)) => ~Entries(n, 0, 4, Cursor(b, P[0])).ok
      <4> HIDE DEF D, e
      <4> QED
        BY <2>2, <3>1, EntriesRead, Zenon
    <3> QED
      BY <2>3, <3>2, Zenon
  <2>5. e = TicketEntries(b[6], Cursor(b, 6))
    BY <2>1, Zenon DEF TicketEntries
  <2> DEFINE tickets == [i \in DOMAIN e.items |-> ReadTicket(e.items[i])]
  <2>6. /\ Len(b) >= 6
        /\ ~e.ok => ReadNewSessionTicket(b) = Error
        /\ e.ok /\ (\A i \in DOMAIN tickets : tickets[i] # Error) =>
             ReadNewSessionTicket(b) = [reserved |-> b[5], count |-> b[6], tickets |-> tickets]
    <3>1. Len(b) >= 6
      BY <1>3, <1>5
    <3> QED
      BY <2>5, <3>1, ReadingList, Zenon
  <2>7. CASE ~(l <= Len(b))
    <3>1. ReadNewSessionTicket(b) = Error
      <4> HIDE DEF e, tickets
      <4> QED
        BY <2>4, <2>6, <2>7, Zenon
    <3> QED
      BY <2>7, <3>1 DEF TicketsRead
  <2>8. CASE l <= Len(b)
    <3>1. e.ok = TRUE /\ e.items = Firsts(D, n)
      <4>1. e = Good(b, l, Firsts(D, n))
        <5> HIDE DEF e
        <5> QED
          BY <2>4, <2>8, Zenon DEF IsGood
      <4> HIDE DEF e, D
      <4> QED
        BY <4>1, Zenon DEF Good
    <3>2. /\ DOMAIN nst.tickets = 1..n /\ nst.count = n
          /\ \A i \in 1..n : nst.tickets[i] \in SessionTicket
      <4>1. Len(nst.tickets) = n
        BY <1>1
      <4> QED
        BY <4>1, FramedType, Zenon
    <3>3. DOMAIN e.items = 1..n /\ \A i \in 1..n : e.items[i] = TicketBytes(nst.tickets[i])
      <4>1. \A i \in 1..n : D[i] = TicketBytes(nst.tickets[i])
        BY <3>2, Zenon DEF Encoded
      <4> HIDE DEF D, e
      <4> QED
        BY <3>1, <4>1, Zenon DEF Firsts
    <3>4. DOMAIN tickets = 1..n /\ \A i \in 1..n : tickets[i] = nst.tickets[i]
      <4> HIDE DEF e
      <4>1. \A i \in 1..n : tickets[i] = ReadTicket(e.items[i])
        BY <3>3, Zenon
      <4>2. DOMAIN tickets = 1..n
        BY <3>3, Zenon
      <4> HIDE DEF tickets
      <4> QED
        BY <3>2, <3>3, <4>1, <4>2, TicketReadBack, Zenon
    <3>5. tickets = nst.tickets
      <4>1. tickets = [i \in 1..n |-> nst.tickets[i]]
        <5> HIDE DEF e
        <5>1. tickets = [i \in 1..n |-> ReadTicket(e.items[i])]
          BY <3>3, Zenon
        <5>2. \A i \in 1..n : ReadTicket(e.items[i]) = nst.tickets[i]
          BY <3>3, <3>4, Zenon
        <5> QED
          BY <5>1, <5>2, Zenon
      <4>2. nst.tickets = [i \in 1..n |-> nst.tickets[i]]
        <5>1. nst.tickets \in Seq(SessionTicket)
          BY DEF NewSessionTicket
        <5> QED
          BY <3>2, <5>1
      <4> QED
        BY <4>1, <4>2, Zenon
    <3>6. \A i \in DOMAIN tickets : tickets[i] # Error
      BY <3>2, <3>5, TicketIsNoError, Zenon
    <3> HIDE DEF tickets, e
    <3>7. ReadNewSessionTicket(b) = [reserved |-> b[5], count |-> b[6], tickets |-> tickets]
      BY <2>6, <3>1, <3>6, Zenon
    <3> QED
      BY <2>1, <2>8, <3>2, <3>5, <3>7, Zenon DEF TicketsRead, ListOf
  <2> QED
    BY <2>7, <2>8, Zenon
<1> QED
  BY <1>3, <1>4, <1>5

\* The bytes of a list of tickets are bytes.
LEMMA ListBytesType ==
  ASSUME NEW nst \in NewSessionTicket
  PROVE  NewSessionTicketBytes(nst) \in Seq(Nat)
<1>1. PICK n \in Nat : Len(nst.tickets) = n
  BY DEF NewSessionTicket
<1>2. nst.count = n /\ Framed(nst) \in Seq(Seq(Nat)) /\ Len(Framed(nst)) = n
  BY <1>1, FramedType, Zenon
<1>3. FlattenSeq(Framed(nst)) \in Seq(Nat)
  <2>1. PICK g \in [0..n -> Seq(Nat)] : FlattenSeq(Framed(nst)) = g[n]
    BY <1>2, Flattening
  <2>2. g[n] \in Seq(Nat)
    BY <2>1
  <2> QED
    BY <2>1, <2>2, Zenon
<1>4. <<4, nst.count>> \in Seq(Nat)
  BY <1>2
<1>5. NewSessionTicketBytes(nst) = Long(<<4, nst.count>> \o FlattenSeq(Framed(nst)))
  BY Zenon DEF NewSessionTicketBytes, Framed
<1> QED
  BY <1>3, <1>4, <1>5, JoinType, LongType, Zenon

\* What is left of a sequence behind its first elements.
LEMMA RestOf ==
  ASSUME NEW b \in Seq(Nat), NEW a \in Nat, NEW k \in Nat, k = Len(b), a <= k
  PROVE  /\ SubSeq(b, a + 1, k) \in Seq(Nat)
         /\ Len(SubSeq(b, a + 1, k)) = k - a
         /\ \A i \in 1..(k - a) : SubSeq(b, a + 1, k)[i] = b[a + i]
<1>1. \A i \in (a + 1)..k : b[i] \in Nat
  OBVIOUS
<1>2. SubSeq(b, a + 1, k) \in Seq(Nat)
  BY <1>1
<1>3. Len(SubSeq(b, a + 1, k)) = k - a
  OBVIOUS
<1>4. ASSUME NEW i \in 1..(k - a)
      PROVE  SubSeq(b, a + 1, k)[i] = b[a + i]
  <2>1. (a + 1) + i - 1 = a + i
    OBVIOUS
  <2> QED
    BY <2>1
<1> QED
  BY <1>2, <1>3, <1>4, Zenon

\* What is left of a cut behind a part that stands is a cut of what follows.
LEMMA TailCut ==
  ASSUME NEW b, NEW s, NEW a, NEW d, NEW l, CutFrom(b, s), Stands(s, a, d, l), l = Len(s),
         a <= Len(b)
  PROVE  /\ CutFrom(SubSeq(b, a + 1, Len(b)), d)
         /\ Len(SubSeq(b, a + 1, Len(b))) = Len(b) - a
<1>1. PICK k \in Nat : k = Len(b)
  BY DEF CutFrom
<1>2. PICK n \in Nat : n = Len(d) /\ l = a + n
  BY DEF Stands
<1>3. /\ b \in Seq(Nat) /\ s \in Seq(Nat) /\ d \in Seq(Nat) /\ a \in Nat /\ l \in Nat
      /\ k <= l /\ a <= k
      /\ \A i \in 1..k : b[i] = s[i]
      /\ \A i \in 1..n : s[a + i] = d[i]
  BY <1>1, <1>2 DEF CutFrom, Stands
<1> DEFINE t == SubSeq(b, a + 1, k)
<1>4. PICK j \in Nat : j = k - a
  BY <1>3
<1>5. t \in Seq(Nat) /\ Len(t) = j /\ \A i \in 1..j : t[i] = b[a + i]
  <2>1. b \in Seq(Nat) /\ a \in Nat /\ a <= k
    BY <1>3, Zenon
  <2>2. /\ t \in Seq(Nat) /\ Len(t) = k - a
        /\ \A i \in 1..(k - a) : t[i] = b[a + i]
    BY <1>1, <2>1, RestOf, Zenon
  <2> QED
    BY <1>4, <2>2, Zenon
<1> HIDE DEF t
<1>6. j <= n
  BY <1>2, <1>3, <1>4
<1>7. ASSUME NEW i \in 1..j PROVE t[i] = d[i]
  <2>1. a + i \in 1..k /\ i \in 1..n
    BY <1>3, <1>4, <1>6
  <2> QED
    BY <1>3, <1>5, <2>1
<1>8. CutFrom(t, d)
  BY <1>2, <1>3, <1>5, <1>6, <1>7 DEF CutFrom
<1> QED
  BY <1>1, <1>4, <1>5, <1>8 DEF t

\* A list is no error.
LEMMA ListIsNoError ==
  ASSUME NEW nst
  PROVE  ListOf(nst) # Error
<1>1. DOMAIN ListOf(nst) = {"reserved", "count", "tickets"}
  BY DEF ListOf
<1>2. DOMAIN Error = {"failed"}
  BY DEF Error
<1> QED
  BY <1>1, <1>2

\* The ways a session file is read.
LEMMA LoadingSession ==
  ASSUME NEW b
  PROVE  LET at == PastShort(b, 0)
             rest == PastShort(b, at)
             tickets == ReadNewSessionTicket(SubSeq(b, rest + 1, Len(b)))
         IN /\ ~HasShort(b, 0) \/ ~HasShort(b, at) \/ tickets = Error => LoadSession(b) = Error
            /\ HasShort(b, 0) /\ HasShort(b, at) /\ tickets # Error =>
                 LoadSession(b) = [access |-> ShortAt(b, 0), refresh |-> ShortAt(b, at),
                                   tickets |-> tickets]
<1> DEFINE at == PastShort(b, 0)
           rest == PastShort(b, at)
           tickets == ReadNewSessionTicket(SubSeq(b, rest + 1, Len(b)))
           one == HasShort(b, 0)
           two == HasShort(b, at)
           good == [access |-> ShortAt(b, 0), refresh |-> ShortAt(b, at), tickets |-> tickets]
<1>1. LoadSession(b) = IF one /\ two /\ tickets # Error THEN good ELSE Error
  BY Zenon DEF LoadSession
<1> HIDE DEF good, tickets, one, two
<1>2. /\ ~one \/ ~two \/ tickets = Error => LoadSession(b) = Error
      /\ one /\ two /\ tickets # Error => LoadSession(b) = good
  BY <1>1, Zenon
<1> QED
  BY <1>2, Zenon DEF good, tickets, one, two

\* A session file is loaded as it was saved, and no part of it is.
SessionRead(b, session, l) ==
  /\ l <= Len(b) => LoadSession(b) = [access |-> session.access, refresh |-> session.refresh,
                                      tickets |-> ListOf(session.tickets)]
  /\ ~(l <= Len(b)) => LoadSession(b) = Error

\* Whatever its keys and tickets: a session is loaded as it was saved, and no part of
\* the file is, however long the part.
THEOREM SessionReadBack ==
  ASSUME NEW session, session.access \in Seq(Nat), session.refresh \in Seq(Nat),
         session.tickets \in NewSessionTicket, Fits(NewSessionTicketBytes(session.tickets)),
         NEW s, s = SessionBytes(session), NEW b, CutFrom(b, s), NEW l \in Nat, l = Len(s)
  PROVE  SessionRead(b, session, l)
<1> DEFINE x == session.access
           y == session.refresh
           nst == session.tickets
<1>1. PICK z \in Seq(Nat) : z = NewSessionTicketBytes(nst)
  BY ListBytesType
<1>2. Fits(z)
  BY <1>1, Zenon
<1>3. Short(x) \in Seq(Nat) /\ Short(y) \in Seq(Nat) /\ Short(x) \o Short(y) \in Seq(Nat)
  BY ShortType, JoinType, Zenon
<1>4. s = Short(x) \o Short(y) \o z
  BY <1>1, Zenon DEF SessionBytes
<1>5. s \in Seq(Nat)
  BY <1>3, <1>4, JoinType, Zenon
<1>6. Stands(s, 0, s, l)
  BY <1>5, Whole, Zenon
<1>7. PICK a2 \in Nat : Stands(s, 0, Short(x) \o Short(y), a2) /\ Stands(s, a2, z, l)
  <2>1. Stands(s, 0, (Short(x) \o Short(y)) \o z, l)
    BY <1>4, <1>6, Zenon
  <2> QED
    BY <1>3, <2>1, Split, Zenon
<1>8. PICK a1 \in Nat : Stands(s, 0, Short(x), a1) /\ Stands(s, a1, Short(y), a2)
  BY <1>3, <1>7, Split, Zenon
<1>9. PICK k \in Nat : k = Len(b)
  BY DEF CutFrom
<1>10. PICK n \in Nat : n = Len(z) /\ l = a2 + n
  BY <1>7, StandsType
<1>11. a1 <= a2
  BY <1>8, StandsType, Zenon
<1>12. ShortRead(b, 0, x, a1) /\ ShortRead(b, a1, y, a2)
  BY <1>8, ReadShort, Zenon
<1>13. /\ HasShort(b, 0) <=> a1 <= k
       /\ HasShort(b, 0) => ShortAt(b, 0) = x /\ PastShort(b, 0) = a1
       /\ HasShort(b, a1) <=> a2 <= k
       /\ HasShort(b, a1) => ShortAt(b, a1) = y /\ PastShort(b, a1) = a2
  BY <1>9, <1>12, Zenon DEF ShortRead
<1> HIDE DEF x, y, nst
<1>14. CASE ~(a2 <= k)
  <2>1. ~HasShort(b, 0) \/ ~HasShort(b, PastShort(b, 0))
    BY <1>13, <1>14, Zenon
  <2>2. LoadSession(b) = Error
    BY <2>1, LoadingSession, Zenon
  <2>3. ~(l <= Len(b))
    BY <1>9, <1>10, <1>14
  <2> QED
    BY <2>2, <2>3, Zenon DEF SessionRead
<1>15. CASE a2 <= k
  <2>1. a1 <= k
    BY <1>11, <1>15
  <2>2. /\ HasShort(b, 0) /\ ShortAt(b, 0) = x /\ PastShort(b, 0) = a1
        /\ HasShort(b, a1) /\ ShortAt(b, a1) = y /\ PastShort(b, a1) = a2
    BY <1>13, <1>15, <2>1, Zenon
  <2> DEFINE t == SubSeq(b, a2 + 1, Len(b))
  <2>3. CutFrom(t, z) /\ Len(t) = k - a2
    BY <1>7, <1>9, <1>15, TailCut
  <2> HIDE DEF t
  <2>4. TicketsRead(t, nst, n)
    <3>1. nst \in NewSessionTicket
      BY Zenon DEF nst
    <3> QED
      BY <1>1, <1>2, <1>10, <2>3, <3>1, ListReadBack
  <2>5. n <= Len(t) <=> l <= Len(b)
    BY <1>9, <1>10, <1>15, <2>3
  <2>6. CASE ~(l <= Len(b))
    <3>1. ReadNewSessionTicket(t) = Error
      BY <2>4, <2>5, <2>6, Zenon DEF TicketsRead
    <3>2. LoadSession(b) = Error
      BY <2>2, <3>1, LoadingSession, Zenon DEF t
    <3> QED
      BY <2>6, <3>2, Zenon DEF SessionRead
  <2>7. CASE l <= Len(b)
    <3>1. ReadNewSessionTicket(t) = ListOf(nst)
      BY <2>4, <2>5, <2>7, Zenon DEF TicketsRead
    <3>2. ReadNewSessionTicket(t) # Error
      BY <3>1, ListIsNoError, Zenon
    <3>3. LoadSession(b) = [access |-> x, refresh |-> y, tickets |-> ReadNewSessionTicket(t)]
      BY <2>2, <3>2, LoadingSession, Zenon DEF t
    <3> QED
      BY <2>7, <3>1, <3>3, Zenon DEF SessionRead, x, y, nst
  <2> QED
    BY <2>6, <2>7, Zenon
<1> QED
  BY <1>14, <1>15, Zenon

\* A session a client saves with its tickets.
SavedSession(nst) == [access |-> <<1, 2>>, refresh |-> <<>>, tickets |-> nst]

\* So is the session with the keys that the invariant takes.
LEMMA SavedSessionReadBack ==
  ASSUME NEW nst \in NewSessionTicket, Fits(NewSessionTicketBytes(nst))
  PROVE  LET saved == SessionBytes(SavedSession(nst))
         IN /\ LoadSession(saved).tickets.tickets = nst.tickets
            /\ \A n \in 0..Len(saved) - 1 : LoadSession(SubSeq(saved, 1, n)) = Error
<1>1. PICK session : session = SavedSession(nst)
  OBVIOUS
<1>2. session.access \in Seq(Nat) /\ session.refresh \in Seq(Nat) /\ session.tickets = nst
  BY <1>1 DEF SavedSession
<1>3. PICK s : s = SessionBytes(session)
  OBVIOUS
<1>4. s \in Seq(Nat)
  BY <1>2, <1>3, ShortType, ListBytesType, JoinType, Zenon DEF SessionBytes
<1>5. PICK l \in Nat : l = Len(s)
  BY <1>4
<1>6. \A b : CutFrom(b, s) => SessionRead(b, session, l)
  BY <1>2, <1>3, <1>5, SessionReadBack, Zenon
<1>7. LoadSession(s).tickets.tickets = nst.tickets
  <2>1. CutFrom(s, s) /\ l <= Len(s)
    BY <1>4, <1>5, Whole
  <2>2. LoadSession(s) = [access |-> session.access, refresh |-> session.refresh,
                          tickets |-> ListOf(session.tickets)]
    BY <1>6, <2>1, Zenon DEF SessionRead
  <2> QED
    <3>1. LoadSession(s).tickets = ListOf(session.tickets)
      <4>1. PICK r : r = ListOf(session.tickets)
        OBVIOUS
      <4>2. PICK f : f = LoadSession(s)
        OBVIOUS
      <4>3. f = [access |-> session.access, refresh |-> session.refresh, tickets |-> r]
        BY <2>2, <4>1, <4>2, Zenon
      <4>4. f.tickets = r
        BY ONLY <4>3
      <4> QED
        BY <4>1, <4>2, <4>4, Zenon
    <3>2. ListOf(nst).tickets = nst.tickets
      BY Zenon DEF ListOf
    <3> QED
      BY <1>2, <3>1, <3>2, Zenon
<1>8. ASSUME NEW n \in 0..l - 1 PROVE LoadSession(SubSeq(s, 1, n)) = Error
  <2>1. PICK b : b = SubSeq(s, 1, n)
    OBVIOUS
  <2>2. b \in Seq(Nat) /\ Len(b) = n /\ \A i \in 1..n : b[i] = s[i]
    BY <1>4, <1>5, <2>1
  <2>3. CutFrom(b, s) /\ ~(l <= Len(b))
    BY <1>4, <1>5, <2>2 DEF CutFrom
  <2> QED
    BY <1>6, <2>1, <2>3, Zenon DEF SessionRead
<1> QED
  BY <1>1, <1>3, <1>5, <1>7, <1>8, Zenon

\* A signature or a finish is read as it was written.
THEOREM TaggedReadBack ==
  ASSUME NEW m \in Tagged
  PROVE  ReadTagged(TaggedBytes(m)) = m
<1>1. m = [type |-> m.type, data |-> m.data] /\ m.type \in Byte /\ m.data \in Seq(Byte)
  BY DEF Tagged
<1>2. PICK x \in Nat : x = m.type
  <2>1. m.type \in Byte
    BY <1>1, Zenon
  <2> QED
    BY <2>1 DEF Byte
<1>3. PICK d \in Seq(Nat) : d = m.data
  BY <1>1, BytesNat
<1>4. <<x>> \in Seq(Nat) /\ Len(<<x>>) = 1
  OBVIOUS
<1>5. Short(d) \in Seq(Nat) /\ <<x>> \o Short(d) \in Seq(Nat)
  BY <1>4, ShortType, JoinType, Zenon
<1>6. PICK s \in Seq(Nat) : s = Long(<<x>> \o Short(d))
  BY <1>5, LongType
<1>7. s = TaggedBytes(m)
  BY <1>2, <1>3, <1>6, Zenon DEF TaggedBytes
<1>8. PICK l \in Nat : l = Len(s)
  OBVIOUS
<1>9. Stands(s, 0, s, l) /\ CutFrom(s, s)
  BY <1>8, Whole, Zenon
<1>10. PICK a \in Nat : a = 0 + 4 /\ Stands(s, a, <<x>> \o Short(d), l)
  <2>1. Stands(s, 0, Long(<<x>> \o Short(d)), l)
    BY <1>6, <1>9, Zenon
  <2> QED
    BY <1>5, <2>1, LongParts, Zenon
<1>11. PICK c \in Nat : Stands(s, a, <<x>>, c) /\ Stands(s, c, Short(d), l)
  BY <1>4, <1>5, <1>10, Split, Zenon
<1>12. c = 5 /\ s[5] = x /\ c <= l
  <2>1. c = a + 1 /\ s[c] = x
    BY <1>11, ReadOne, Zenon
  <2>2. c <= l
    BY <1>11, StandsType, Zenon
  <2> QED
    BY <1>10, <2>1, <2>2
<1>13. HasShort(s, 5) /\ ShortAt(s, 5) = d
  <2>1. ShortRead(s, c, d, l)
    BY <1>9, <1>11, ReadShort, Zenon
  <2>2. l <= Len(s)
    BY <1>8
  <2> QED
    BY <1>12, <2>1, <2>2, Zenon DEF ShortRead
<1>14. Has(s, 0, 5)
  BY <1>8, <1>12 DEF Has
<1>15. ReadTagged(s) = [type |-> x, data |-> d]
  BY <1>12, <1>13, <1>14, Zenon DEF ReadTagged
<1> QED
  BY <1>1, <1>2, <1>3, <1>7, <1>15, Zenon

\* What stands where in a ServerHello.
ServerFields(b, h, l) ==
  /\ b \in Seq(Nat) /\ l \in Nat /\ l = Len(b)
  /\ Number(b, 0, 4) = l - 4
  /\ Stands(b, 5, U16(h.version), 7) /\ Stands(b, 7, U16(h.suite), 9)
  /\ Stands(b, 9, h.random, 9 + RandomLen)
  /\ Stands(b, 9 + RandomLen, U32(KeyLen + 13), 13 + RandomLen)
  /\ Stands(b, 13 + RandomLen, <<1>>, 14 + RandomLen)
  /\ Stands(b, 14 + RandomLen, U32(KeyLen + 8), 18 + RandomLen)
  /\ Stands(b, 18 + RandomLen, <<0, 16, 0, 0, 0, 1>>, 24 + RandomLen)
  /\ Stands(b, 24 + RandomLen, Short(h.key), l)
  /\ l = 26 + RandomLen + KeyLen

\* The fields of a ServerHello.
LEMMA ServerHelloFields ==
  ASSUME NEW h \in ServerHello
  PROVE  /\ h.version \in Nat /\ h.suite \in Nat /\ h.random \in Seq(Nat) /\ h.key \in Seq(Nat)
         /\ Sized(h.random, RandomLen) /\ Sized(h.key, KeyLen)
         /\ h = [version |-> h.version, suite |-> h.suite, random |-> h.random, key |-> h.key]
<1>1. /\ h.version \in 0 .. ShortLimit - 1 /\ h.suite \in {ECDHE, PSK}
      /\ h.random \in Fixed(RandomLen) /\ h.key \in Fixed(KeyLen)
      /\ h = [version |-> h.version, suite |-> h.suite, random |-> h.random, key |-> h.key]
  BY Zenon DEF ServerHello
<1>2. h.version \in Nat /\ h.suite \in Nat
  <2>1. h.version \in 0 .. ShortLimit - 1
    BY <1>1, Zenon
  <2>2. h.suite \in {ECDHE, PSK}
    BY <1>1, Zenon
  <2>3. h.suite \in Nat
    BY <2>2, SMT DEF ECDHE, PSK
  <2>4. PICK n \in Nat : n = ShortLimit - 1
    BY SMT DEF ShortLimit
  <2>5. h.version \in 0 .. n
    BY <2>1, <2>4, Zenon
  <2>6. h.version \in Nat
    BY <2>5, SMT
  <2> QED
    BY <2>3, <2>6, Zenon
<1>3. RandomLen \in Nat /\ KeyLen \in Nat
  BY CodecAssumption
<1>4. /\ h.random \in Seq(Byte) /\ Len(h.random) = RandomLen
      /\ h.key \in Seq(Byte) /\ Len(h.key) = KeyLen
  BY <1>1, Zenon DEF Fixed
<1> QED
  BY <1>1, <1>2, <1>3, <1>4, BytesNat, Zenon DEF Sized

\* The lengths of what is joined, and of data behind its length.
LEMMA JoinLen ==
  ASSUME NEW x \in Seq(Nat), NEW y \in Seq(Nat), NEW j, NEW k, Sized(x, j), Sized(y, k)
  PROVE  Sized(x \o y, j + k)
BY DEF Sized

\* See JoinLen.
LEMMA ShortLen ==
  ASSUME NEW d \in Seq(Nat), NEW n, Sized(d, n)
  PROVE  Sized(Short(d), 2 + n)
<1>1. n = Len(d) /\ n \in Nat
  BY DEF Sized
<1>2. U16(n) \in Seq(Nat) /\ Sized(U16(n), 2)
  <2>1. U16(n) \in Seq(Nat) /\ Len(U16(n)) = 2
    BY <1>1, U16Is
  <2> QED
    BY <2>1 DEF Sized
<1>3. Sized(U16(n) \o d, 2 + n)
  BY <1>2, JoinLen, Zenon
<1> QED
  BY <1>1, <1>3, Zenon DEF Short

\* See JoinLen.
LEMMA LongLen ==
  ASSUME NEW d \in Seq(Nat), NEW n, Sized(d, n)
  PROVE  Sized(Long(d), 4 + n)
<1>1. n = Len(d) /\ n \in Nat
  BY DEF Sized
<1>2. U32(n) \in Seq(Nat) /\ Sized(U32(n), 4)
  <2>1. U32(n) \in Seq(Nat) /\ Len(U32(n)) = 4
    BY <1>1, U32Type
  <2> QED
    BY <2>1 DEF Sized
<1>3. Sized(U32(n) \o d, 4 + n)
  BY <1>2, JoinLen, Zenon
<1> QED
  BY <1>1, <1>3, Zenon DEF Long

\* Where what stands ends.
EndsAt(p, n, q) == q = p + n

\* What stands from p on ends a length later.
LEMMA StandsEnd ==
  ASSUME NEW b, NEW p, NEW d, NEW q, NEW n, Stands(b, p, d, q), Sized(d, n)
  PROVE  EndsAt(p, n, q)
BY DEF Stands, Sized, EndsAt

\* The layout of a ServerHello.
LEMMA ServerLayout ==
  ASSUME NEW h \in ServerHello, Fits(ServerHelloBytes(h))
  PROVE  \E l \in Nat : ServerFields(ServerHelloBytes(h), h, l) /\ ServerHelloBytes(h)[5] = 1
<1> DEFINE V == U16(h.version)
           S == U16(h.suite)
           K == Short(h.key)
           E == <<0, 16, 0, 0, 0, 1>>
           EK == E \o K
           Y == Long(EK)
           FY == <<1>> \o Y
           X == Long(FY)
           AVSR == <<1>> \o V \o S \o h.random
           D == AVSR \o X
<1>1. /\ h.version \in Nat /\ h.suite \in Nat /\ h.random \in Seq(Nat) /\ h.key \in Seq(Nat)
      /\ Sized(h.random, RandomLen) /\ Sized(h.key, KeyLen) /\ RandomLen \in Nat /\ KeyLen \in Nat
  BY ServerHelloFields, Zenon DEF Sized
<1>2. V \in Seq(Nat) /\ S \in Seq(Nat) /\ Sized(V, 2) /\ Sized(S, 2)
  <2>1. V \in Seq(Nat) /\ S \in Seq(Nat) /\ Len(V) = 2 /\ Len(S) = 2
    BY <1>1, U16Is, Zenon
  <2>2. 2 \in Nat
    OBVIOUS
  <2> QED
    BY <2>1, <2>2, Zenon DEF Sized
<1>3. K \in Seq(Nat) /\ Sized(K, 2 + KeyLen)
  BY <1>1, ShortType, ShortLen, Zenon
<1>4. E \in Seq(Nat) /\ Sized(E, 6) /\ <<1>> \in Seq(Nat) /\ Sized(<<1>>, 1)
  BY DEF Sized
<1> HIDE DEF E, K, V, S
<1>5. EK \in Seq(Nat) /\ Sized(EK, 6 + (2 + KeyLen))
  BY <1>3, <1>4, JoinType, JoinLen, Zenon
<1> HIDE DEF EK
<1>6. Y \in Seq(Nat) /\ Sized(Y, 4 + (6 + (2 + KeyLen)))
  BY <1>5, LongType, LongLen, Zenon
<1> HIDE DEF Y
<1>7. FY \in Seq(Nat) /\ Sized(FY, 1 + (4 + (6 + (2 + KeyLen))))
  BY <1>4, <1>6, JoinType, JoinLen, Zenon
<1>8. X \in Seq(Nat)
  BY <1>7, LongType, Zenon
<1>9. /\ <<1>> \o V \in Seq(Nat) /\ <<1>> \o V \o S \in Seq(Nat) /\ AVSR \in Seq(Nat)
  BY <1>1, <1>2, <1>4, JoinType, Zenon
<1> HIDE DEF FY
<1>10. D \in Seq(Nat)
  BY <1>8, <1>9, JoinType, Zenon
<1>11. PICK s \in Seq(Nat) : s = Long(D)
  BY <1>10, LongType
<1>12. s = ServerHelloBytes(h)
  BY <1>11, Zenon DEF ServerHelloBytes, V, S, E, K, EK, Y, FY, X, AVSR, D
<1> HIDE DEF X
<1>13. PICK l \in Nat : l = Len(s)
  OBVIOUS
<1>14. Stands(s, 0, s, l) /\ CutFrom(s, s)
  BY <1>13, Whole, Zenon
<1>15. PICK a \in Nat : a = 0 + 4 /\ Stands(s, 0, U32(Len(D)), a) /\ Stands(s, a, D, l)
  <2>1. Stands(s, 0, Long(D), l)
    BY <1>11, <1>14, Zenon
  <2> HIDE DEF D
  <2> QED
    BY <1>10, <2>1, LongParts, Zenon
<1>16. PICK e \in Nat : Stands(s, a, AVSR, e) /\ Stands(s, e, X, l)
  BY <1>8, <1>9, <1>15, Split, Zenon
<1>17. PICK d \in Nat : Stands(s, a, <<1>> \o V \o S, d) /\ Stands(s, d, h.random, e)
  BY <1>1, <1>9, <1>16, Split, Zenon
<1>18. PICK c \in Nat : Stands(s, a, <<1>> \o V, c) /\ Stands(s, c, S, d)
  BY <1>2, <1>9, <1>17, Split, Zenon
<1>19. PICK b \in Nat : Stands(s, a, <<1>>, b) /\ Stands(s, b, V, c)
  BY <1>2, <1>4, <1>18, Split, Zenon
<1>20. PICK f \in Nat : f = e + 4 /\ Stands(s, e, U32(Len(FY)), f) /\ Stands(s, f, FY, l)
  BY <1>7, <1>16, LongParts, Zenon DEF X
<1>21. PICK g \in Nat : Stands(s, f, <<1>>, g) /\ Stands(s, g, Y, l)
  BY <1>4, <1>6, <1>20, Split, Zenon DEF FY
<1>22. PICK i \in Nat : i = g + 4 /\ Stands(s, g, U32(Len(EK)), i) /\ Stands(s, i, EK, l)
  BY <1>5, <1>21, LongParts, Zenon DEF Y
<1>23. PICK j \in Nat : Stands(s, i, E, j) /\ Stands(s, j, K, l)
  BY <1>3, <1>4, <1>22, Split, Zenon DEF EK
<1>24. /\ b = a + 1 /\ s[b] = 1 /\ g = f + 1
  <2>1. b = a + 1 /\ s[b] = 1
    BY <1>19, ReadOne
  <2>2. g = f + 1
    BY <1>21, ReadOne
  <2> QED
    BY <2>1, <2>2
<1>25. EndsAt(b, 2, c) /\ EndsAt(c, 2, d)
  BY <1>2, <1>18, <1>19, StandsEnd, Zenon
<1>26. EndsAt(d, RandomLen, e) /\ EndsAt(i, 6, j) /\ EndsAt(j, 2 + KeyLen, l)
  BY <1>1, <1>3, <1>4, <1>17, <1>23, StandsEnd, Zenon
<1>27. /\ a = 4 /\ b = 5 /\ c = 7 /\ d = 9 /\ e = 9 + RandomLen /\ f = 13 + RandomLen
       /\ g = 14 + RandomLen /\ i = 18 + RandomLen /\ j = 24 + RandomLen
       /\ l = 26 + RandomLen + KeyLen
  <2>1. a = 4 /\ b = a + 1 /\ c = b + 2 /\ d = c + 2 /\ e = d + RandomLen
    BY <1>15, <1>24, <1>25, <1>26 DEF EndsAt
  <2>2. f = e + 4 /\ g = f + 1 /\ i = g + 4 /\ j = i + 6 /\ l = j + (2 + KeyLen)
    BY <1>20, <1>22, <1>24, <1>26, Zenon DEF EndsAt
  <2>3. RandomLen \in Nat /\ KeyLen \in Nat
    BY <1>1, Zenon
  <2>4. a = 4 /\ b = 5 /\ c = 7 /\ d = 9
    BY <2>1
  <2>5. e = 9 + RandomLen /\ f = 13 + RandomLen
    BY <2>1, <2>2, <2>3, <2>4
  <2>6. g = 14 + RandomLen /\ i = 18 + RandomLen
    BY <2>2, <2>3, <2>5
  <2>7. j = 24 + RandomLen
    BY <2>2, <2>3, <2>6
  <2>8. l = 26 + RandomLen + KeyLen
    BY <2>2, <2>3, <2>7
  <2> QED
    BY <2>4, <2>5, <2>6, <2>7, <2>8, Zenon
<1>28. Number(s, 0, 4) = l - 4
  <2> HIDE DEF D
  <2>1. PICK n \in Nat : n = Len(D)
    BY <1>10
  <2>2. l = a + n
    BY <1>15, <2>1, StandsType
  <2>3. n = l - 4 /\ Has(s, 0, 4) /\ n < ShortLimit
    <3>1. l < ShortLimit
      BY <1>12, <1>13, Zenon DEF Fits
    <3>2. PICK k \in Nat : k = ShortLimit
      BY DEF ShortLimit
    <3>3. a = 4
      BY <1>27, Zenon
    <3>4. n = l - 4 /\ n < k /\ 0 + 4 <= l
      BY ONLY <2>2, <3>1, <3>2, <3>3, n \in Nat, l \in Nat, k \in Nat
    <3> QED
      BY <1>13, <3>2, <3>4, Zenon DEF Has
  <2>4. Stands(s, 0, U32(n), a)
    BY <1>15, <2>1, Zenon
  <2>5. Number(s, 0, 4) = n
    BY <1>14, <2>3, <2>4, ReadFour, Zenon
  <2> QED
    BY <2>3, <2>5, Zenon
<1>29. Len(FY) = KeyLen + 13 /\ Len(EK) = KeyLen + 8
  BY <1>1, <1>5, <1>7 DEF Sized
<1>30. ServerFields(s, h, l)
  BY <1>5, <1>7, <1>13, <1>17, <1>18, <1>19, <1>20, <1>21, <1>22, <1>23, <1>27, <1>28,
     <1>29, Zenon DEF ServerFields, V, S, E, K
<1> QED
  BY <1>12, <1>24, <1>27, <1>30, Zenon

\* The values of a ServerHello's fields, where they are read.
ServerValues(b, h, l) ==
  /\ Len(b) = l /\ l \in Nat /\ l >= 26 + RandomLen /\ Number(b, 0, 4) = l - 4
  /\ Number(b, 5, 2) = h.version /\ Number(b, 7, 2) = h.suite
  /\ Bytes(b, 9, RandomLen) = h.random
  /\ HasShort(b, 24 + RandomLen) /\ ShortAt(b, 24 + RandomLen) = h.key
  /\ PastShort(b, 24 + RandomLen) = l

\* Each field of a ServerHello is read as it was written.
LEMMA ServerRead ==
  ASSUME NEW h \in ServerHello, NEW b, NEW l, ServerFields(b, h, l)
  PROVE  ServerValues(b, h, l)
<1>1. /\ b \in Seq(Nat) /\ l \in Nat /\ l = Len(b) /\ Number(b, 0, 4) = l - 4
      /\ Stands(b, 5, U16(h.version), 7) /\ Stands(b, 7, U16(h.suite), 9)
      /\ Stands(b, 9, h.random, 9 + RandomLen)
      /\ Stands(b, 24 + RandomLen, Short(h.key), l)
      /\ l = 26 + RandomLen + KeyLen
  BY Zenon DEF ServerFields
<1>2. RandomLen \in Nat /\ KeyLen \in Nat
  BY CodecAssumption
<1>3. CutFrom(b, b)
  BY <1>1, Whole, Zenon
<1>4. l >= 26 + RandomLen
  BY <1>1, <1>2
<1>5. Has(b, 5, 2) /\ Has(b, 7, 2)
  BY <1>1, <1>2, <1>4 DEF Has
<1>6. h.version \in Nat /\ h.suite \in Nat /\ h.key \in Seq(Nat) /\ Sized(h.random, RandomLen)
  BY ServerHelloFields, Zenon
<1>7. Number(b, 5, 2) = h.version
  BY <1>1, <1>3, <1>5, <1>6, ReadTwo
<1>8. Number(b, 7, 2) = h.suite
  BY <1>1, <1>3, <1>5, <1>6, ReadTwo
<1>9. Bytes(b, 9, RandomLen) = h.random
  <2>1. BytesAre(b, 9, RandomLen, h.random, 9 + RandomLen)
    BY <1>1, <1>6, FixedRead, Zenon
  <2> QED
    BY <2>1, Zenon DEF BytesAre
<1>10. /\ HasShort(b, 24 + RandomLen) /\ ShortAt(b, 24 + RandomLen) = h.key
       /\ PastShort(b, 24 + RandomLen) = l
  <2>1. PICK at : at = 24 + RandomLen
    OBVIOUS
  <2>2. Stands(b, at, Short(h.key), l)
    BY <1>1, <2>1, Zenon
  <2>3. ShortRead(b, at, h.key, l)
    BY <1>3, <1>6, <2>2, ReadShort, Zenon
  <2>4. l <= Len(b)
    BY <1>1
  <2>5. HasShort(b, at) /\ ShortAt(b, at) = h.key /\ PastShort(b, at) = l
    BY <2>3, <2>4, Zenon DEF ShortRead
  <2> QED
    BY <2>1, <2>5, Zenon
<1> QED
  BY <1>1, <1>4, <1>7, <1>8, <1>9, <1>10, Zenon DEF ServerValues

\* A ServerHello is read as it was written.
THEOREM ServerHelloReadBack ==
  ASSUME NEW h \in ServerHello, Fits(ServerHelloBytes(h))
  PROVE  ReadServerHello(ServerHelloBytes(h)) = h
<1>1. PICK b : b = ServerHelloBytes(h)
  OBVIOUS
<1>2. PICK l : ServerValues(b, h, l)
  <2>1. PICK l \in Nat : ServerFields(b, h, l)
    BY <1>1, ServerLayout, Zenon
  <2> QED
    BY <2>1, ServerRead, Zenon
<1>3. RandomLen \in Nat /\ KeyLen \in Nat
  BY CodecAssumption
<1>4. PICK n : n = Number(b, 0, 4)
  OBVIOUS
<1>5. Len(b) >= 4 /\ Len(b) = n + 4 /\ Has(b, 0, 24 + RandomLen)
  <2>1. Len(b) = l /\ l \in Nat /\ l >= 26 + RandomLen /\ n = l - 4
    BY <1>2, <1>4, Zenon DEF ServerValues
  <2> QED
    BY <1>3, <2>1 DEF Has
<1>6. /\ Number(b, 5, 2) = h.version /\ Number(b, 7, 2) = h.suite
      /\ Bytes(b, 9, RandomLen) = h.random
      /\ HasShort(b, 24 + RandomLen) /\ ShortAt(b, 24 + RandomLen) = h.key
  BY <1>2, Zenon DEF ServerValues
<1>7. Len(h.key) = KeyLen
  BY ServerHelloFields, Zenon DEF Sized
<1> DEFINE good == [version |-> h.version, suite |-> h.suite, random |-> h.random, key |-> h.key]
<1>8. ReadServerHello(b) = good
  <2>1. Len(b) = Number(b, 0, 4) + 4 /\ Len(ShortAt(b, 24 + RandomLen)) = KeyLen
    BY <1>4, <1>5, <1>6, <1>7, Zenon
  <2> QED
    BY <1>5, <1>6, <2>1, Zenon DEF ReadServerHello
<1>9. h = good
  BY ServerHelloFields, Zenon
<1> QED
  BY <1>1, <1>8, <1>9, Zenon

\* The fields of a hello.
LEMMA HelloFields ==
  ASSUME NEW h, IsClientHello(h)
  PROVE  /\ h.random \in Seq(Nat) /\ Sized(h.random, RandomLen)
         /\ h.timestamp \in Seq(Nat) /\ Sized(h.timestamp, 4)
         /\ h.version = ProtocolVersion
         /\ h.suites = <<ECDHE>> \/ h.suites = <<PSK>> \/ h.suites = <<ECDHE, PSK>>
<1>1. /\ h = NewHello(h.suites, h.extensions, h.random, h.timestamp)
      /\ h.random \in Fixed(RandomLen) /\ h.timestamp \in Fixed(4)
      /\ h.suites \in {<<ECDHE>>, <<ECDHE, PSK>>, <<PSK>>}
  BY Zenon DEF IsClientHello
<1>2. RandomLen \in Nat /\ 4 \in Nat
  BY CodecAssumption
<1>3. /\ h.random \in Seq(Byte) /\ Len(h.random) = RandomLen
      /\ h.timestamp \in Seq(Byte) /\ Len(h.timestamp) = 4
  BY <1>1, Zenon DEF Fixed
<1>4. h.version = ProtocolVersion
  <2>1. PICK g : g = NewHello(h.suites, h.extensions, h.random, h.timestamp)
    OBVIOUS
  <2>2. g.version = ProtocolVersion
    BY <2>1 DEF NewHello
  <2> QED
    BY <1>1, <2>1, <2>2, Zenon
<1> QED
  BY <1>1, <1>2, <1>3, <1>4, BytesNat, Zenon DEF Sized

\* An extension is a list of bytes behind its length, its type and its count.
LEMMA NatThree ==
  ASSUME NEW t \in Nat, NEW m \in Nat
  PROVE  <<0, t, m>> \in Seq(Nat) /\ Sized(<<0, t, m>>, 3)
BY DEF Sized

\* Sequences of bytes, joined, are one.
LEMMA FlattenType ==
  ASSUME NEW s \in Seq(Seq(Nat))
  PROVE  FlattenSeq(s) \in Seq(Nat)
<1>1. PICK n \in Nat : Len(s) = n
  OBVIOUS
<1>2. PICK g \in [0..n -> Seq(Nat)] : FlattenSeq(s) = g[n]
  BY <1>1, Flattening
<1>3. g[n] \in Seq(Nat)
  OBVIOUS
<1> QED
  BY <1>2, <1>3, Zenon

\* The keys of an ECDHE extension, each behind its length, its number and its own length.
KeyFrames(keys) == [i \in DOMAIN keys |-> Long(U32(4 + i) \o Short(keys[i]))]

\* What is framed is a sequence of bytes, one for each key.
LEMMA KeyFramesType ==
  ASSUME NEW keys \in Seq(Seq(Nat)), NEW n \in Nat, Len(keys) = n
  PROVE  /\ DOMAIN keys = 1..n /\ \A i \in 1..n : keys[i] \in Seq(Nat)
         /\ KeyFrames(keys) \in Seq(Seq(Nat)) /\ Len(KeyFrames(keys)) = n
<1>1. DOMAIN keys = 1..n /\ \A i \in 1..n : keys[i] \in Seq(Nat)
  OBVIOUS
<1>2. \A i \in 1..n : Long(U32(4 + i) \o Short(keys[i])) \in Seq(Nat)
  <2> TAKE i \in 1..n
  <2>1. 4 + i \in Nat /\ keys[i] \in Seq(Nat)
    BY <1>1
  <2>2. U32(4 + i) \in Seq(Nat)
    BY <2>1, U32Type, Zenon
  <2> QED
    BY <2>1, <2>2, ShortType, JoinType, LongType, Zenon
<1>3. KeyFrames(keys) = [i \in 1..n |-> Long(U32(4 + i) \o Short(keys[i]))]
  BY <1>1, Zenon DEF KeyFrames
<1>4. KeyFrames(keys) \in [1..n -> Seq(Nat)]
  BY <1>2, <1>3, Zenon
<1>5. KeyFrames(keys) \in Seq(Seq(Nat)) /\ Len(KeyFrames(keys)) = n
  BY <1>4
<1> QED
  BY <1>1, <1>5, Zenon

\* The thirteen bytes behind the keys.
LEMMA MagicType ==
  TrailingMagic \in Seq(Nat) /\ Sized(TrailingMagic, 13)
BY DEF TrailingMagic, Sized

\* The extensions of a hello, by their suite.
PskBytes(item) == Long(<<0, 15, 1>> \o Long(item))
EcdheBytes(keys) == Long(<<0, 16, Len(keys)>> \o FlattenSeq(KeyFrames(keys)) \o TrailingMagic)

\* The bytes of a PSK extension are bytes.
LEMMA PskBytesType ==
  ASSUME NEW item \in Seq(Nat)
  PROVE  /\ <<0, 15, 1>> \in Seq(Nat) /\ Long(item) \in Seq(Nat)
         /\ <<0, 15, 1>> \o Long(item) \in Seq(Nat) /\ PskBytes(item) \in Seq(Nat)
<1>1. <<0, 15, 1>> \in Seq(Nat)
  OBVIOUS
<1> QED
  BY <1>1, LongType, JoinType, Zenon DEF PskBytes

\* The bytes of an ECDHE extension are bytes.
LEMMA EcdheBytesType ==
  ASSUME NEW keys \in Seq(Seq(Nat))
  PROVE  LET head == <<0, 16, Len(keys)>>
             flat == FlattenSeq(KeyFrames(keys))
         IN /\ head \in Seq(Nat) /\ flat \in Seq(Nat) /\ flat \o TrailingMagic \in Seq(Nat)
            /\ head \o flat \in Seq(Nat) /\ (head \o flat) \o TrailingMagic \in Seq(Nat)
            /\ EcdheBytes(keys) \in Seq(Nat)
<1>1. PICK n \in Nat : Len(keys) = n
  OBVIOUS
<1>2. <<0, 16, Len(keys)>> \in Seq(Nat)
  BY <1>1, NatThree
<1>3. FlattenSeq(KeyFrames(keys)) \in Seq(Nat)
  BY <1>1, KeyFramesType, FlattenType, Zenon
<1> QED
  BY <1>2, <1>3, MagicType, JoinType, LongType, Zenon DEF EcdheBytes

\* An extension is one or the other.
LEMMA ExtensionIs ==
  /\ \A items : ExtensionBytes(PSK, items) = PskBytes(items[1])
  /\ \A items : ExtensionBytes(ECDHE, items) = EcdheBytes(items)
<1>1. PSK # ECDHE
  BY SMT DEF PSK, ECDHE
<1>2. \A items : ExtensionBytes(PSK, items) = PskBytes(items[1])
  BY Zenon DEF ExtensionBytes, PskBytes
<1>3. \A items : ExtensionBytes(ECDHE, items) = EcdheBytes(items)
  BY <1>1, Zenon DEF ExtensionBytes, EcdheBytes, KeyFrames
<1> QED
  BY <1>2, <1>3, Zenon

\* A cursor that only moves, or only keeps something.
LEMMA MovedOn ==
  ASSUME NEW b, NEW x, NEW its, NEW c, NEW p, IsGood(c, b, x, its)
  PROVE  IsGood([c EXCEPT !.pos = p], b, p, its)
<1> DEFINE r(t) == [b |-> b, pos |-> x, ok |-> t, items |-> its]
<1>1. ASSUME NEW t, c = r(t)
      PROVE  [c EXCEPT !.pos = p] = [b |-> b, pos |-> p, ok |-> t, items |-> its]
  BY <1>1
<1> QED
  BY <1>1, Zenon DEF Good, IsGood

\* See MovedOn.
LEMMA KeptItems ==
  ASSUME NEW b, NEW x, NEW its, NEW c, NEW e, IsGood(c, b, x, its)
  PROVE  IsGood([c EXCEPT !.items = e], b, x, e)
<1> DEFINE r(t) == [b |-> b, pos |-> x, ok |-> t, items |-> its]
<1>1. ASSUME NEW t, c = r(t)
      PROVE  [c EXCEPT !.items = e] = [b |-> b, pos |-> x, ok |-> t, items |-> e]
  BY <1>1
<1> QED
  BY <1>1, Zenon DEF Good, IsGood

\* The fields of a cursor that has not failed.
LEMMA GoodFields ==
  ASSUME NEW c, NEW b, NEW x, NEW its, IsGood(c, b, x, its)
  PROVE  c.b = b /\ c.pos = x /\ c.items = its /\ c.ok = TRUE
BY Zenon DEF IsGood, Good

\* The head of an extension, and where its entries stand.
ExtensionAt(b, p, t, m, y, q) ==
  /\ p \in Nat /\ q \in Nat /\ q <= Len(b) /\ p + 7 <= q /\ Len(b) \in Nat
  /\ Number(b, p, 4) = q - p - 4
  /\ Number(b, p + 4, 2) = t
  /\ b[p + 7] = m
  /\ Stands(b, p + 7, y, q)

\* The head of an extension is read as it was written.
LEMMA ExtensionHead ==
  ASSUME NEW t \in Nat, NEW m \in Nat, NEW y \in Seq(Nat), NEW b, NEW p, NEW q,
         Stands(b, p, Long(<<0, t, m>> \o y), q), Fits(b)
  PROVE  ExtensionAt(b, p, t, m, y, q)
<1> DEFINE h == <<0, t, m>>
           d == h \o y
<1>1. h \in Seq(Nat) /\ Sized(h, 3)
  BY NatThree, Zenon
<1>2. h[1] = 0 /\ h[2] = t /\ h[3] = m
  OBVIOUS
<1> HIDE DEF h
<1>3. d \in Seq(Nat)
  BY <1>1, JoinType, Zenon
<1>4. Stands(b, p, Long(d), q)
  BY Zenon DEF h
<1>5. PICK a \in Nat : a = p + 4 /\ Stands(b, p, U32(Len(d)), a) /\ Stands(b, a, d, q)
  BY <1>3, <1>4, LongParts, Zenon
<1>6. PICK c \in Nat : Stands(b, a, h, c) /\ Stands(b, c, y, q)
  BY <1>1, <1>5, Split, Zenon
<1>7. EndsAt(a, 3, c)
  BY <1>1, <1>6, StandsEnd, Zenon
<1>8. /\ p \in Nat /\ q \in Nat /\ q <= Len(b) /\ c <= q /\ Len(b) \in Nat /\ b \in Seq(Nat)
  BY <1>4, <1>6, StandsType, Zenon
<1>9. c = p + 7 /\ p + 7 <= q
  BY <1>5, <1>7, <1>8 DEF EndsAt
<1>10. Number(b, p, 4) = q - p - 4
  <2> HIDE DEF d
  <2>1. PICK n \in Nat : n = Len(d)
    BY <1>3
  <2>2. q = a + n
    BY <1>5, <2>1, StandsType
  <2>3. Fits(d)
    BY <1>3, <1>4, LongFits, Zenon
  <2>4. n < ShortLimit
    BY <2>1, <2>3, Zenon DEF Fits
  <2>5. CutFrom(b, b)
    BY <1>8, Whole, Zenon
  <2>6. Has(b, p, 4)
    BY <1>8, <1>9 DEF Has
  <2>7. Stands(b, p, U32(n), a)
    BY <1>5, <2>1, Zenon
  <2>8. Number(b, p, 4) = n
    BY <2>4, <2>5, <2>6, <2>7, ReadFour, Zenon
  <2>9. n = q - p - 4
    BY <1>5, <1>8, <2>2
  <2> QED
    BY <2>8, <2>9, Zenon
<1>11. b[p + 5] = 0 /\ b[p + 6] = t /\ b[p + 7] = m
  <2>1. PICK k \in Nat : k = 3
    OBVIOUS
  <2>2. \A i \in 1..k : b[a + i] = h[i]
    <3>1. Len(h) = k
      BY <1>1, <2>1, Zenon DEF Sized
    <3> QED
      BY <1>6, <3>1, Zenon DEF Stands
  <2>3. b[a + 1] = 0 /\ b[a + 2] = t /\ b[a + 3] = m
    BY <1>2, <2>1, <2>2
  <2>4. a + 1 = p + 5 /\ a + 2 = p + 6 /\ a + 3 = p + 7
    BY <1>5, <1>8
  <2> QED
    BY <2>3, <2>4, Zenon
<1>12. Number(b, p + 4, 2) = t
  <2>1. Number(b, p + 4, 2) = 256 * b[p + 4 + 1] + b[p + 4 + 2]
    BY DEF Number
  <2>2. p + 4 + 1 = p + 5 /\ p + 4 + 2 = p + 6
    BY <1>8
  <2> QED
    BY <1>11, <2>1, <2>2
<1> QED
  BY <1>6, <1>8, <1>9, <1>10, <1>11, <1>12, Zenon DEF ExtensionAt

\* The entry of a PSK extension.
LEMMA PskEntries ==
  ASSUME NEW item \in Seq(Nat), NEW b, NEW p, NEW q, Stands(b, p, Long(item), q), Fits(b)
  PROVE  IsGood(TicketEntries(1, Cursor(b, p)), b, q, <<item>>)
<1>1. p \in Nat /\ q \in Nat /\ p <= q /\ q <= Len(b) /\ Len(b) \in Nat /\ b \in Seq(Nat)
  BY StandsType
<1>2. CutFrom(b, b)
  BY <1>1, Whole, Zenon
<1>3. Fits(item)
  BY LongFits, Zenon
<1>4. ItemRead(b, p, 4, item, q)
  BY <1>2, <1>3, LongItem, Zenon
<1> DEFINE P == [i \in 0..1 |-> IF i = 0 THEN p ELSE q]
           D == <<item>>
<1>5. P \in [0..1 -> Nat] /\ P[0] = p /\ P[1] = q
  BY <1>1
<1>6. D[1] = item /\ Firsts(D, 1) = D
  BY DEF Firsts
<1> HIDE DEF P, D
<1>7. Rows(b, P, D, 1, 0, 4)
  <2>1. ASSUME NEW i \in 1..1
        PROVE  P[i - 1] <= P[i] /\ ItemRead(b, P[i - 1] + 0, 4, D[i], P[i])
    <3>1. i = 1 /\ i - 1 = 0 /\ p + 0 = p
      BY <1>1
    <3>2. P[i - 1] = p /\ P[i] = q /\ D[i] = item
      BY <1>5, <1>6, <3>1
    <3> QED
      BY <1>1, <1>4, <3>1, <3>2, Zenon
  <2>2. P[0] <= Len(b)
    BY <1>1, <1>5
  <2> QED
    BY <1>1, <1>5, <2>1, <2>2, Zenon DEF Rows
<1>8. P[1] <= Len(b)
  BY <1>1, <1>5
<1>9. IsGood(Entries(1, 0, 4, Cursor(b, P[0])), b, P[1], Firsts(D, 1))
  <2>1. 0 \in Nat /\ 1 \in Nat /\ 4 \in Nat
    OBVIOUS
  <2> QED
    BY <1>7, <1>8, <2>1, EntriesRead, Zenon
<1> QED
  BY <1>5, <1>6, <1>9, Zenon DEF TicketEntries, D

\* The entries of an ECDHE extension.
LEMMA EcdheEntries ==
  ASSUME NEW keys \in Seq(Seq(Nat)), NEW b, NEW p, NEW q, Fits(b),
         Stands(b, p, FlattenSeq(KeyFrames(keys)), q)
  PROVE  IsGood(KeyEntries(Len(keys), Cursor(b, p)), b, q, keys)
<1>1. p \in Nat /\ q \in Nat /\ p <= q /\ q <= Len(b) /\ Len(b) \in Nat /\ b \in Seq(Nat)
  BY StandsType
<1>2. CutFrom(b, b)
  BY <1>1, Whole, Zenon
<1>3. PICK n \in Nat : Len(keys) = n
  OBVIOUS
<1>4. /\ DOMAIN keys = 1..n /\ \A i \in 1..n : keys[i] \in Seq(Nat)
      /\ KeyFrames(keys) \in Seq(Seq(Nat)) /\ Len(KeyFrames(keys)) = n
  BY <1>3, KeyFramesType, Zenon
<1>5. PICK P : Places(P, b, p, KeyFrames(keys), n, q)
  BY <1>4, FlattenPlaces
<1>6. P \in [0..n -> Nat] /\ P[0] = p /\ P[n] = q
  BY <1>5, Zenon DEF Places
<1>7. ASSUME NEW i \in 1..n
      PROVE  P[i - 1] <= P[i] /\ ItemRead(b, P[i - 1] + 8, 2, keys[i], P[i])
  <2> DEFINE num == U32(4 + i)
             key == Short(keys[i])
  <2>1. keys[i] \in Seq(Nat) /\ 4 + i \in Nat
    BY <1>4
  <2>2. num \in Seq(Nat) /\ Len(num) = 4 /\ key \in Seq(Nat)
    BY <2>1, U32Type, ShortType, Zenon
  <2>3. num \o key \in Seq(Nat) /\ Sized(num, 4)
    <3>1. 4 \in Nat
      OBVIOUS
    <3> QED
      BY <2>2, <3>1, JoinType, Zenon DEF Sized
  <2>4. Stands(b, P[i - 1], Long(num \o key), P[i])
    <3>1. KeyFrames(keys)[i] = Long(num \o key)
      BY <1>4, Zenon DEF KeyFrames
    <3> QED
      BY <1>5, <3>1, Zenon DEF Places
  <2> HIDE DEF num, key
  <2>5. PICK a \in Nat : a = P[i - 1] + 4 /\ Stands(b, a, num \o key, P[i])
    BY <2>3, <2>4, LongParts, Zenon
  <2>6. PICK c \in Nat : Stands(b, a, num, c) /\ Stands(b, c, key, P[i])
    BY <2>2, <2>5, Split, Zenon
  <2>7. EndsAt(a, 4, c)
    BY <2>3, <2>6, StandsEnd, Zenon
  <2>8. P[i - 1] \in Nat /\ P[i - 1] <= P[i]
    BY <2>4, StandsType, Zenon
  <2>9. c = P[i - 1] + 8
    BY <2>5, <2>7, <2>8 DEF EndsAt
  <2>10. ShortRead(b, c, keys[i], P[i])
    BY <1>2, <2>1, <2>6, ReadShort, Zenon DEF key
  <2>11. ItemRead(b, c, 2, keys[i], P[i])
    BY <2>10, ShortItem, Zenon
  <2> QED
    BY <2>8, <2>9, <2>11, Zenon
<1>8. Rows(b, P, keys, n, 8, 2)
  <2>1. P[0] <= Len(b)
    BY <1>1, <1>6
  <2> QED
    BY <1>1, <1>6, <1>7, <2>1, Zenon DEF Rows
<1>9. IsGood(Entries(n, 8, 2, Cursor(b, P[0])), b, P[n], Firsts(keys, n))
  <2>1. 8 \in Nat /\ 2 \in Nat /\ P[n] <= Len(b)
    BY <1>1, <1>6
  <2> QED
    BY <1>8, <2>1, EntriesRead, Zenon
<1>10. Firsts(keys, n) = keys
  BY <1>3 DEF Firsts
<1> QED
  BY <1>3, <1>6, <1>9, <1>10, Zenon DEF KeyEntries

Item(suite, data) == [suite |-> suite, data |-> data]

\* At a cursor stands an extension of type t with m entries.
HeadIs(c, t, m) ==
  /\ Has(c.b, c.pos, 6) /\ Has(c.b, c.pos + 4, 3)
  /\ Number(c.b, c.pos + 4, 2) = t /\ c.b[c.pos + 4 + 3] = m

EntriesOf(c) == Cursor(c.b, c.pos + 4 + 3)

\* The extension read with e is kept behind what was read before.
KeepsRead(r, c, e, suite) == r = [e EXCEPT !.items = Append(c.items, Item(suite, e.items))]

\* How a PSK extension is read.
LEMMA ReadingPsk ==
  ASSUME NEW c, NEW m, HeadIs(c, 15, m)
  PROVE  KeepsRead(ReadExtension(c), c, TicketEntries(m, EntriesOf(c)), PSK)
<1> DEFINE type == Number(c.b, c.pos + 4, 2)
<1>1. Has(c.b, c.pos, 6) /\ Has(c.b, c.pos + 4, 3) /\ type = 15 /\ c.b[c.pos + 4 + 3] = m
  BY Zenon DEF HeadIs
<1>2. type # 16
  <2> HIDE DEF type
  <2> QED
    BY <1>1
<1> QED
  BY <1>1, <1>2, Zenon DEF ReadExtension, Item, KeepsRead, EntriesOf

\* How an ECDHE extension is read.
LEMMA ReadingEcdhe ==
  ASSUME NEW c, NEW m, HeadIs(c, 16, m), KeyEntries(m, EntriesOf(c)).ok = TRUE
  PROVE  KeepsRead(ReadExtension(c), c,
               SkipRest(KeyEntries(m, EntriesOf(c)), Number(c.b, c.pos, 4), c.pos + 4), ECDHE)
<1> DEFINE type == Number(c.b, c.pos + 4, 2)
<1>1. Has(c.b, c.pos, 6) /\ Has(c.b, c.pos + 4, 3) /\ type = 16 /\ c.b[c.pos + 4 + 3] = m
  BY Zenon DEF HeadIs
<1>2. type # 15
  <2> HIDE DEF type
  <2> QED
    BY <1>1
<1>3. KeyEntries(m, EntriesOf(c)).ok
  BY Zenon
<1> QED
  BY <1>1, <1>2, <1>3, Zenon DEF ReadExtension, Item, KeepsRead, EntriesOf

\* A PSK extension is read as it was written.
LEMMA PskExtensionRead ==
  ASSUME NEW item \in Seq(Nat), NEW b, NEW p, NEW q, Stands(b, p, PskBytes(item), q), Fits(b),
         NEW c, NEW its, IsGood(c, b, p, its)
  PROVE  IsGood(ReadExtension(c), b, q, Append(its, Item(PSK, <<item>>)))
<1>1. ExtensionAt(b, p, 15, 1, Long(item), q)
  <2>1. 15 \in Nat /\ 1 \in Nat /\ Long(item) \in Seq(Nat)
    BY LongType
  <2>2. Stands(b, p, Long(<<0, 15, 1>> \o Long(item)), q)
    BY Zenon DEF PskBytes
  <2> QED
    BY <2>1, <2>2, ExtensionHead, Zenon
<1>2. c.b = b /\ c.pos = p /\ c.items = its
  BY GoodFields, Zenon
<1>3. /\ p \in Nat /\ Len(b) \in Nat /\ q \in Nat /\ q <= Len(b) /\ p + 7 <= q
      /\ Number(b, p + 4, 2) = 15 /\ b[p + 7] = 1 /\ Stands(b, p + 7, Long(item), q)
  BY <1>1, Zenon DEF ExtensionAt
<1>4. Has(b, p, 6) /\ Has(b, p + 4, 3) /\ p + 4 + 3 = p + 7
  BY <1>3 DEF Has
<1> DEFINE e == TicketEntries(1, Cursor(b, p + 7))
<1>5. IsGood(e, b, q, <<item>>)
  BY <1>3, PskEntries, Zenon
<1>6. e.items = <<item>>
  BY <1>5, GoodFields, Zenon
<1>7. KeepsRead(ReadExtension(c), c, e, PSK)
  <2>1. c.pos + 4 + 3 = p + 7
    BY <1>2, <1>4, Zenon
  <2>2. HeadIs(c, 15, 1)
    BY <1>2, <1>3, <1>4, <2>1, Zenon DEF HeadIs
  <2>3. EntriesOf(c) = Cursor(b, p + 7)
    BY <1>2, <2>1, Zenon DEF EntriesOf
  <2>4. KeepsRead(ReadExtension(c), c, TicketEntries(1, EntriesOf(c)), PSK)
    BY <2>2, ReadingPsk, Zenon
  <2> QED
    BY <2>3, <2>4, Zenon
<1> HIDE DEF e
<1>8. IsGood([e EXCEPT !.items = Append(c.items, Item(PSK, e.items))], b, q,
             Append(c.items, Item(PSK, e.items)))
  BY <1>5, KeptItems, Zenon
<1> QED
  BY <1>2, <1>6, <1>7, <1>8, Zenon DEF KeepsRead

\* The head of an ECDHE extension.
LEMMA EcdheExtensionAt ==
  ASSUME NEW keys \in Seq(Seq(Nat)), NEW b, NEW p, NEW q, Stands(b, p, EcdheBytes(keys), q),
         Fits(b)
  PROVE  ExtensionAt(b, p, 16, Len(keys), FlattenSeq(KeyFrames(keys)) \o TrailingMagic, q)
<1> DEFINE flat == FlattenSeq(KeyFrames(keys))
           m == Len(keys)
<1>1. m \in Nat /\ flat \in Seq(Nat) /\ flat \o TrailingMagic \in Seq(Nat)
  <2>1. m \in Nat
    OBVIOUS
  <2> QED
    BY <2>1, EcdheBytesType, Zenon
<1>2. ExtensionAt(b, p, 16, m, flat \o TrailingMagic, q)
  <2>1. 16 \in Nat
    OBVIOUS
  <2>2. Stands(b, p, Long(<<0, 16, m>> \o (flat \o TrailingMagic)), q)
    <3>1. (<<0, 16, m>> \o flat) \o TrailingMagic = <<0, 16, m>> \o (flat \o TrailingMagic)
      <4>1. <<0, 16, m>> \in Seq(Nat)
        BY <1>1, NatThree
      <4> HIDE DEF flat
      <4> QED
        BY <1>1, <4>1, MagicType
    <3> QED
      BY <3>1, Zenon DEF EcdheBytes
  <2> HIDE DEF flat, m
  <2> QED
    BY <1>1, <2>1, <2>2, ExtensionHead, Zenon
<1> QED
  BY <1>2, Zenon

\* An ECDHE extension too, but the reader stops two bytes before its end.
LEMMA EcdheExtensionRead ==
  ASSUME NEW keys \in Seq(Seq(Nat)), NEW b, NEW p, NEW q, Stands(b, p, EcdheBytes(keys), q),
         Fits(b), NEW c, NEW its, IsGood(c, b, p, its)
  PROVE  IsGood(ReadExtension(c), b, q - 2, Append(its, Item(ECDHE, keys)))
<1> DEFINE flat == FlattenSeq(KeyFrames(keys))
           m == Len(keys)
<1>1. m \in Nat /\ flat \in Seq(Nat) /\ flat \o TrailingMagic \in Seq(Nat)
  <2>1. m \in Nat
    OBVIOUS
  <2> QED
    BY <2>1, EcdheBytesType, Zenon
<1>2. ExtensionAt(b, p, 16, m, flat \o TrailingMagic, q)
  BY EcdheExtensionAt, Zenon
<1> HIDE DEF flat
<1>3. c.b = b /\ c.pos = p /\ c.items = its
  BY GoodFields, Zenon
<1>4. /\ p \in Nat /\ Len(b) \in Nat /\ q \in Nat /\ q <= Len(b) /\ p + 7 <= q
      /\ Number(b, p, 4) = q - p - 4
      /\ Number(b, p + 4, 2) = 16 /\ b[p + 7] = m /\ Stands(b, p + 7, flat \o TrailingMagic, q)
  BY <1>2, Zenon DEF ExtensionAt
<1>5. Has(b, p, 6) /\ Has(b, p + 4, 3) /\ p + 4 + 3 = p + 7
  BY <1>4 DEF Has
<1>6. PICK r \in Nat : Stands(b, p + 7, flat, r) /\ Stands(b, r, TrailingMagic, q)
  BY <1>1, <1>4, MagicType, Split, Zenon
<1>7. EndsAt(r, 13, q) /\ p + 7 <= r
  BY <1>6, MagicType, StandsEnd, StandsType, Zenon
<1> DEFINE e == KeyEntries(m, Cursor(b, p + 7))
           len == q - p - 4
           rest == SkipRest(e, len, p + 4)
<1>8. IsGood(e, b, r, keys)
  BY <1>6, EcdheEntries, Zenon DEF flat
<1>9. e.b = b /\ e.pos = r /\ e.items = keys /\ e.ok = TRUE
  BY <1>8, GoodFields, Zenon
<1>10. KeepsRead(ReadExtension(c), c, rest, ECDHE)
  <2>1. c.pos + 4 + 3 = p + 7
    BY <1>3, <1>5, Zenon
  <2>2. HeadIs(c, 16, m)
    BY <1>3, <1>4, <1>5, <2>1, Zenon DEF HeadIs
  <2>3. EntriesOf(c) = Cursor(b, p + 7)
    BY <1>3, <2>1, Zenon DEF EntriesOf
  <2>4. KeyEntries(m, EntriesOf(c)) = e
    BY <2>3, Zenon
  <2>5. KeyEntries(m, EntriesOf(c)).ok = TRUE
    BY <1>9, <2>4, Zenon
  <2>6. KeepsRead(ReadExtension(c), c,
              SkipRest(KeyEntries(m, EntriesOf(c)), Number(c.b, c.pos, 4), c.pos + 4), ECDHE)
    BY <2>2, <2>5, ReadingEcdhe, Zenon
  <2>7. Number(c.b, c.pos, 4) = len /\ c.pos + 4 = p + 4
    BY <1>3, <1>4, Zenon
  <2> QED
    BY <2>4, <2>6, <2>7, Zenon
<1> HIDE DEF e
<1>11. IsGood(rest, b, q - 2, keys)
  <2>1. q = r + 13
    BY <1>7 DEF EndsAt
  <2>2. Monus(Monus(len, 2), r - (p + 4)) = 11
    BY <1>4, <1>7, <2>1 DEF Monus
  <2>3. Has(b, r, 11) /\ r + 11 = q - 2
    BY <1>4, <2>1 DEF Has
  <2>4. rest = [e EXCEPT !.pos = r + 11]
    <3>1. rest = Skip(e, 11)
      BY <1>9, <2>2, Zenon DEF SkipRest
    <3>2. Skip(e, 11) = [e EXCEPT !.pos = r + 11]
      <4>1. Has(e.b, e.pos, 11)
        BY <1>9, <2>3, Zenon
      <4> QED
        BY <1>9, <4>1, Zenon DEF Skip
    <3> QED
      BY <3>1, <3>2, Zenon
  <2>5. IsGood([e EXCEPT !.pos = r + 11], b, r + 11, keys)
    BY <1>8, MovedOn, Zenon
  <2> QED
    BY <2>3, <2>4, <2>5, Zenon
<1> HIDE DEF rest
<1>12. rest.items = keys
  BY <1>11, GoodFields, Zenon
<1>13. IsGood([rest EXCEPT !.items = Append(c.items, Item(ECDHE, rest.items))], b, q - 2,
              Append(c.items, Item(ECDHE, rest.items)))
  BY <1>11, KeptItems, Zenon
<1> QED
  BY <1>3, <1>10, <1>12, <1>13, Zenon DEF KeepsRead

\* A list of one or of two sequences, joined.
LEMMA FlatOne ==
  ASSUME NEW x
  PROVE  FlattenSeq(<<x>>) = x
<1>1. PICK s : s = <<x>>
  OBVIOUS
<1>2. PICK n \in Nat : n = 1
  OBVIOUS
<1>3. Len(s) = n /\ n >= 1 /\ s[1] = x
  BY <1>1, <1>2
<1>4. PICK f : f = [i \in 1..1 |-> x]
  OBVIOUS
<1>5. f[1] = x
  BY <1>4
<1>6. \A i \in 2..n : f[i] = f[i - 1] \o s[i]
  BY <1>2
<1>7. Grows(f, s, n)
  BY <1>3, <1>5, <1>6, Zenon DEF Grows
<1>8. FlattenSeq(s) = f[n]
  BY <1>3, <1>7, FlattenIs, Zenon
<1> QED
  BY <1>1, <1>2, <1>5, <1>8, Zenon

\* See FlatOne.
LEMMA FlatTwo ==
  ASSUME NEW x, NEW y
  PROVE  FlattenSeq(<<x, y>>) = x \o y
<1>1. PICK s : s = <<x, y>>
  OBVIOUS
<1>2. PICK n \in Nat : n = 2
  OBVIOUS
<1>3. Len(s) = n /\ n >= 1 /\ s[1] = x /\ s[2] = y
  BY <1>1, <1>2
<1>4. PICK z : z = x \o y
  OBVIOUS
<1>5. PICK f : f = [i \in 1..2 |-> IF i = 1 THEN x ELSE z]
  OBVIOUS
<1>6. f[1] = x /\ f[2] = z
  BY <1>5
<1>7. ASSUME NEW i \in 2..n PROVE f[i] = f[i - 1] \o s[i]
  <2>1. i = 2 /\ i - 1 = 1
    BY <1>2
  <2> QED
    BY <1>3, <1>4, <1>6, <2>1, Zenon
<1>8. Grows(f, s, n)
  BY <1>3, <1>6, <1>7, Zenon DEF Grows
<1>9. FlattenSeq(s) = f[n]
  BY <1>3, <1>8, FlattenIs, Zenon
<1> QED
  BY <1>1, <1>2, <1>4, <1>6, <1>9, Zenon

\* A ClientHello of n suites, and where its parts stand: the random from x on.
HelloForm(b, n, suites, r, t, e) ==
  b = Long(<<1>> \o <<4, 241>> \o <<n>> \o suites \o r \o t \o Long(<<n>> \o e))

HelloAt(b, n, x, suites, r, t, e) ==
  /\ b \in Seq(Nat) /\ x \in Nat
  /\ b[6] = 4 /\ b[7] = 241 /\ b[8] = n
  /\ Stands(b, 8, suites, x)
  /\ Stands(b, x, r, x + RandomLen)
  /\ Stands(b, x + RandomLen, t, x + RandomLen + 4)
  /\ b[x + RandomLen + 9] = n
  /\ Stands(b, x + RandomLen + 9, e, Len(b))

\* A message begins with its own length; the fifth byte says that it is a hello.
IsLong(b) == \E z \in Seq(Nat) : b = Long(z)
IsFramedHello(b) == b[5] = 1 /\ IsLong(b)

\* The parts of a ClientHello stand one behind the other.
LEMMA HelloLayout ==
  ASSUME NEW n \in Nat, NEW suites \in Seq(Nat), NEW r \in Seq(Nat), NEW t \in Seq(Nat),
         NEW e \in Seq(Nat), NEW k, NEW x, NEW b,
         Sized(suites, k), EndsAt(8, k, x), Sized(r, RandomLen), Sized(t, 4),
         HelloForm(b, n, suites, r, t, e)
  PROVE  HelloAt(b, n, x, suites, r, t, e) /\ IsFramedHello(b)
<1> DEFINE V == <<4, 241>>
           A == <<1>> \o V
           B == A \o <<n>>
           C == B \o suites
           D == C \o r
           E == D \o t
           F == <<n>> \o e
           X == Long(F)
           Z == E \o X
<1>1. <<1>> \in Seq(Nat) /\ V \in Seq(Nat) /\ <<n>> \in Seq(Nat) /\ Sized(V, 2)
  BY DEF Sized
<1>2. V[1] = 4 /\ V[2] = 241
  OBVIOUS
<1> HIDE DEF V
<1>3. A \in Seq(Nat) /\ B \in Seq(Nat) /\ C \in Seq(Nat) /\ D \in Seq(Nat) /\ E \in Seq(Nat)
  BY <1>1, JoinType, Zenon
<1>4. F \in Seq(Nat)
  BY <1>1, JoinType, Zenon
<1> HIDE DEF F
<1>5. X \in Seq(Nat)
  BY <1>4, LongType, Zenon
<1> HIDE DEF X
<1>6. Z \in Seq(Nat)
  BY <1>3, <1>5, JoinType, Zenon
<1>7. b = Long(Z)
  BY Zenon DEF HelloForm, X, F, V
<1>8. b \in Seq(Nat)
  BY <1>6, <1>7, LongType, Zenon
<1>9. PICK l \in Nat : l = Len(b)
  BY <1>8
<1>10. Stands(b, 0, b, l)
  BY <1>8, <1>9, Whole, Zenon
<1>11. PICK o \in Nat : o = 0 + 4 /\ Stands(b, o, Z, l)
  <2>1. Stands(b, 0, Long(Z), l)
    BY <1>7, <1>10, Zenon
  <2> HIDE DEF Z
  <2> QED
    BY <1>6, <2>1, LongParts, Zenon
<1>12. PICK u \in Nat : Stands(b, o, E, u) /\ Stands(b, u, X, l)
  BY <1>3, <1>5, <1>11, Split, Zenon
<1>13. PICK v \in Nat : Stands(b, o, D, v) /\ Stands(b, v, t, u)
  BY <1>3, <1>12, Split, Zenon
<1>14. PICK w \in Nat : Stands(b, o, C, w) /\ Stands(b, w, r, v)
  BY <1>3, <1>13, Split, Zenon
<1>15. PICK y \in Nat : Stands(b, o, B, y) /\ Stands(b, y, suites, w)
  BY <1>3, <1>14, Split, Zenon
<1>16. PICK z \in Nat : Stands(b, o, A, z) /\ Stands(b, z, <<n>>, y)
  BY <1>1, <1>3, <1>15, Split, Zenon
<1>17. PICK f \in Nat : Stands(b, o, <<1>>, f) /\ Stands(b, f, V, z)
  BY <1>1, <1>16, Split, Zenon
<1>18. PICK g \in Nat : g = u + 4 /\ Stands(b, g, F, l)
  BY <1>4, <1>12, LongParts, Zenon DEF X
<1>19. PICK i \in Nat : Stands(b, g, <<n>>, i) /\ Stands(b, i, e, l)
  BY <1>1, <1>18, Split, Zenon DEF F
<1>20. f = o + 1 /\ b[f] = 1
  BY <1>17, ReadOne
<1>21. y = z + 1 /\ b[y] = n
  BY <1>16, ReadOne
<1>22. i = g + 1 /\ b[i] = n
  BY <1>19, ReadOne
<1>23. EndsAt(f, 2, z) /\ EndsAt(y, k, w)
  BY <1>1, <1>15, <1>17, StandsEnd, Zenon
<1>24. EndsAt(w, RandomLen, v) /\ EndsAt(v, 4, u)
  BY <1>13, <1>14, StandsEnd, Zenon
<1>25. RandomLen \in Nat
  BY CodecAssumption
<1>26. f = 5 /\ z = 7 /\ y = 8
  BY <1>11, <1>20, <1>21, <1>23 DEF EndsAt
<1>27. w = x
  BY <1>23, <1>26, Zenon DEF EndsAt
<1>28. v = x + RandomLen /\ u = x + RandomLen + 4 /\ i = x + RandomLen + 9
  <2>1. v = w + RandomLen /\ u = v + 4 /\ g = u + 4 /\ i = g + 1
    BY <1>18, <1>22, <1>24, Zenon DEF EndsAt
  <2> QED
    BY <1>25, <1>27, <2>1
<1>29. b[6] = 4 /\ b[7] = 241
  <2>1. PICK m \in Nat : m = 2
    OBVIOUS
  <2>2. \A j \in 1..m : b[f + j] = V[j]
    <3>1. Len(V) = m
      BY <1>1, <2>1, Zenon DEF Sized
    <3> QED
      BY <1>17, <3>1, Zenon DEF Stands
  <2>3. 1 \in 1..m /\ 2 \in 1..m /\ f + 1 = 6 /\ f + 2 = 7
    BY <1>26, <2>1
  <2>4. b[f + 1] = V[1] /\ b[f + 2] = V[2]
    BY <2>2, <2>3
  <2>5. b[6] = V[1] /\ b[7] = V[2]
    BY <2>3, <2>4
  <2> QED
    BY <1>2, <2>5
<1>30. b[5] = 1 /\ b[8] = n
  BY <1>20, <1>21, <1>26, Zenon
<1>31. HelloAt(b, n, x, suites, r, t, e)
  BY <1>8, <1>9, <1>13, <1>14, <1>15, <1>19, <1>22, <1>26, <1>27, <1>28, <1>29, <1>30, Zenon
     DEF HelloAt
<1>32. IsFramedHello(b)
  BY <1>6, <1>7, <1>30, Zenon DEF IsFramedHello, IsLong
<1> QED
  BY <1>31, <1>32, Zenon

\* The loop over extensions, from its steps.
ExtensionSteps(f, n, c) ==
  /\ f[0] = c
  /\ \A i \in 1..n : f[i] = IF f[i - 1].ok THEN ReadExtension(f[i - 1]) ELSE f[i - 1]

ExtensionLoop(h, n, c) ==
  h = [i \in 0..n |->
         IF i = 0 THEN c ELSE IF h[i - 1].ok THEN ReadExtension(h[i - 1]) ELSE h[i - 1]]

\* A loop over extensions ends where steps like its own end.
LEMMA ExtensionsAre ==
  ASSUME NEW n \in Nat, NEW c, NEW f, ExtensionSteps(f, n, c)
  PROVE  Repeat(n, ReadExtension, c) = f[n]
<1> DEFINE h == CHOOSE g : ExtensionLoop(g, n, c)
<1>1. \E g : ExtensionLoop(g, n, c)
  <2>1. PICK e : e = [i \in 0..n |-> f[i]]
    OBVIOUS
  <2>2. ASSUME NEW i \in 0..n
        PROVE  f[i] = IF i = 0 THEN c
                      ELSE IF e[i - 1].ok THEN ReadExtension(e[i - 1]) ELSE e[i - 1]
    <3>1. CASE i = 0
      BY <3>1, Zenon DEF ExtensionSteps
    <3>2. CASE i # 0
      <4>1. i \in 1..n /\ i - 1 \in 0..n
        BY <3>2
      <4>2. e[i - 1] = f[i - 1]
        BY <2>1, <4>1
      <4> QED
        BY <3>2, <4>1, <4>2, Zenon DEF ExtensionSteps
    <3> QED
      BY <3>1, <3>2
  <2>3. ExtensionLoop(e, n, c)
    BY <2>1, <2>2, Zenon DEF ExtensionLoop
  <2> QED
    BY <2>3, Zenon
<1>2. ExtensionLoop(h, n, c)
  BY <1>1, Zenon
<1>3. Repeat(n, ReadExtension, c) = h[n]
  BY Zenon DEF Repeat, ExtensionLoop
<1> HIDE DEF h
<1>4. \A i \in 0..n :
        h[i] = IF i = 0 THEN c ELSE IF h[i - 1].ok THEN ReadExtension(h[i - 1]) ELSE h[i - 1]
  BY <1>2, Zenon DEF ExtensionLoop
<1> DEFINE T == {m \in Nat : m <= n => h[m] = f[m]}
<1>5. 0 \in T
  <2>1. h[0] = c
    BY <1>4
  <2> QED
    BY <2>1 DEF ExtensionSteps
<1>6. ASSUME NEW m \in T PROVE m + 1 \in T
  <2>1. SUFFICES ASSUME m + 1 <= n PROVE h[m + 1] = f[m + 1]
    OBVIOUS
  <2>2. PICK i \in 1..n : i = m + 1 /\ i - 1 = m /\ i \in 0..n /\ i # 0
    BY <2>1
  <2>3. h[i - 1] = f[i - 1]
    BY <2>1, <2>2
  <2>4. h[i] = IF h[i - 1].ok THEN ReadExtension(h[i - 1]) ELSE h[i - 1]
    BY <1>4, <2>2, Zenon
  <2>5. f[i] = IF f[i - 1].ok THEN ReadExtension(f[i - 1]) ELSE f[i - 1]
    BY <2>2, Zenon DEF ExtensionSteps
  <2>6. h[i] = f[i]
    BY <2>3, <2>4, <2>5
  <2> QED
    BY <2>2, <2>6, Zenon
<1>7. T = Nat
  <2>1. T \in SUBSET Nat
    OBVIOUS
  <2> HIDE DEF T
  <2> QED
    BY <1>5, <1>6, <2>1, AllNaturals
<1>8. h[n] = f[n]
  <2>1. n \in T
    BY <1>7
  <2> QED
    BY <2>1
<1> QED
  BY <1>3, <1>8, Zenon

\* A hello with one extension, and one with two.
LEMMA ReadOnce ==
  ASSUME NEW c, c.ok = TRUE
  PROVE  Repeat(1, ReadExtension, c) = ReadExtension(c)
<1> DEFINE d == ReadExtension(c)
           f == [i \in 0..1 |-> IF i = 0 THEN c ELSE d]
<1>1. f[0] = c /\ f[1] = d
  OBVIOUS
<1> HIDE DEF f
<1>2. ASSUME NEW i \in 1..1
      PROVE  f[i] = IF f[i - 1].ok THEN ReadExtension(f[i - 1]) ELSE f[i - 1]
  <2>1. i = 1 /\ i - 1 = 0
    OBVIOUS
  <2>2. f[i] = d /\ f[i - 1] = c
    BY <1>1, <2>1
  <2>3. f[i - 1].ok
    BY <2>2, Zenon
  <2> QED
    BY <2>2, <2>3, Zenon
<1>3. ExtensionSteps(f, 1, c)
  BY <1>1, <1>2, Zenon DEF ExtensionSteps
<1>4. 1 \in Nat
  OBVIOUS
<1>5. Repeat(1, ReadExtension, c) = f[1]
  BY <1>3, <1>4, ExtensionsAre, Zenon
<1> QED
  BY <1>1, <1>5, Zenon

\* See ReadOnce.
LEMMA ReadTwice ==
  ASSUME NEW c, c.ok = TRUE, NEW d, d = ReadExtension(c), d.ok = TRUE
  PROVE  Repeat(2, ReadExtension, c) = ReadExtension(d)
<1> DEFINE e == ReadExtension(d)
           f == [i \in 0..2 |-> IF i = 0 THEN c ELSE IF i = 1 THEN d ELSE e]
<1>1. f[0] = c /\ f[1] = d /\ f[2] = e
  OBVIOUS
<1> HIDE DEF f
<1>2. ASSUME NEW i \in 1..2
      PROVE  f[i] = IF f[i - 1].ok THEN ReadExtension(f[i - 1]) ELSE f[i - 1]
  <2>1. (i = 1 /\ i - 1 = 0) \/ (i = 2 /\ i - 1 = 1)
    OBVIOUS
  <2>2. (f[i] = d /\ f[i - 1] = c) \/ (f[i] = e /\ f[i - 1] = d)
    BY <1>1, <2>1
  <2>3. f[i - 1].ok
    BY <2>2, Zenon
  <2> QED
    BY <2>2, <2>3, Zenon
<1>3. ExtensionSteps(f, 2, c)
  BY <1>1, <1>2, Zenon DEF ExtensionSteps
<1>4. 2 \in Nat
  OBVIOUS
<1>5. Repeat(2, ReadExtension, c) = f[2]
  BY <1>3, <1>4, ExtensionsAre, Zenon
<1> QED
  BY <1>1, <1>5, Zenon

\* The bytes of a hello of one suite.
LEMMA FormOfOne ==
  ASSUME NEW h, NEW suite, h.suites = <<suite>>, h.version = ProtocolVersion
  PROVE  HelloForm(HelloBytes(h), 1, U16(suite), h.random, h.timestamp,
                   ExtensionBytes(suite, h.extensions[suite]))
<1> DEFINE s == h.suites
           e(x) == ExtensionBytes(x, h.extensions[x])
<1>1. Reverse(U16(ProtocolVersion)) = <<4, 241>>
  <2>1. U16(ProtocolVersion) = <<241, 4>>
    BY SMT DEF U16, ProtocolVersion
  <2>2. Reverse(<<241, 4>>) = <<4, 241>>
    BY DEF Reverse
  <2> QED
    BY <2>1, <2>2
<1>2. PICK z : z = h.suites
  OBVIOUS
<1>3. Len(z) = 1 /\ [i \in DOMAIN z |-> U16(z[i])] = <<U16(suite)>>
  <2>1. z = <<suite>>
    BY <1>2, Zenon
  <2> QED
    BY <2>1
<1>4. Reverse([i \in DOMAIN z |-> e(z[i])]) = <<e(suite)>>
  <2>1. PICK x : x = e(suite)
    OBVIOUS
  <2>2. DOMAIN z = 1..1 /\ z[1] = suite
    <3>1. z = <<suite>>
      BY <1>2, Zenon
    <3> QED
      BY <3>1
  <2>3. \A i \in 1..1 : e(z[i]) = x
    <3>1. \A i \in 1..1 : i = 1
      OBVIOUS
    <3> QED
      BY <2>1, <2>2, <3>1, Zenon
  <2>4. [i \in DOMAIN z |-> e(z[i])] = [i \in 1..1 |-> x]
    BY <2>2, <2>3, Zenon
  <2>5. Reverse([i \in 1..1 |-> x]) = <<x>>
    BY DEF Reverse
  <2> QED
    BY <2>1, <2>4, <2>5, Zenon
<1>5. FlattenSeq(<<U16(suite)>>) = U16(suite) /\ FlattenSeq(<<e(suite)>>) = e(suite)
  BY FlatOne, Zenon
<1> QED
  BY <1>1, <1>2, <1>3, <1>4, <1>5, Zenon DEF HelloForm, HelloBytes, HelloHead

\* Of two suites: their extensions go the other way round.
LEMMA FormOfTwo ==
  ASSUME NEW h, NEW a, NEW c, h.suites = <<a, c>>, h.version = ProtocolVersion
  PROVE  HelloForm(HelloBytes(h), 2, U16(a) \o U16(c), h.random, h.timestamp,
                   ExtensionBytes(c, h.extensions[c]) \o ExtensionBytes(a, h.extensions[a]))
<1> DEFINE e(x) == ExtensionBytes(x, h.extensions[x])
<1>1. Reverse(U16(ProtocolVersion)) = <<4, 241>>
  <2>1. U16(ProtocolVersion) = <<241, 4>>
    BY SMT DEF U16, ProtocolVersion
  <2>2. Reverse(<<241, 4>>) = <<4, 241>>
    BY DEF Reverse
  <2> QED
    BY <2>1, <2>2
<1>2. PICK z : z = h.suites
  OBVIOUS
<1>3. Len(z) = 2 /\ [i \in DOMAIN z |-> U16(z[i])] = <<U16(a), U16(c)>>
  <2>1. z = <<a, c>>
    BY <1>2, Zenon
  <2> QED
    BY <2>1
<1>4. Reverse([i \in DOMAIN z |-> e(z[i])]) = <<e(c), e(a)>>
  <2>1. PICK x : x = e(a)
    OBVIOUS
  <2>2. PICK y : y = e(c)
    OBVIOUS
  <2>3. DOMAIN z = 1..2 /\ z[1] = a /\ z[2] = c
    <3>1. z = <<a, c>>
      BY <1>2, Zenon
    <3> QED
      BY <3>1
  <2>4. PICK v : v = [i \in 1..2 |-> IF i = 1 THEN x ELSE y]
    OBVIOUS
  <2>5. v[1] = x /\ v[2] = y /\ DOMAIN v = 1..2
    BY <2>4
  <2>6. \A i \in 1..2 : e(z[i]) = v[i]
    <3>1. \A i \in 1..2 : i = 1 \/ i = 2
      OBVIOUS
    <3> QED
      BY <2>1, <2>2, <2>3, <2>5, <3>1, Zenon
  <2>7. [i \in DOMAIN z |-> e(z[i])] = [i \in 1..2 |-> v[i]]
    BY <2>3, <2>6, Zenon
  <2>8. Reverse([i \in 1..2 |-> v[i]]) = <<y, x>>
    BY <2>5 DEF Reverse
  <2> QED
    BY <2>1, <2>2, <2>7, <2>8, Zenon
<1>5. FlattenSeq(<<U16(a), U16(c)>>) = U16(a) \o U16(c)
      /\ FlattenSeq(<<e(c), e(a)>>) = e(c) \o e(a)
  BY FlatTwo, Zenon
<1> QED
  BY <1>1, <1>2, <1>3, <1>4, <1>5, Zenon DEF HelloForm, HelloBytes, HelloHead

\* The extensions read, by their suite.
LEMMA ByOne ==
  ASSUME NEW suite, NEW data, NEW f, DOMAIN f = {suite}, f = [x \in DOMAIN f |-> f[x]],
         f[suite] = data
  PROVE  ByCipher(<<Item(suite, data)>>) = f
<1>1. PICK items : items = <<Item(suite, data)>>
  OBVIOUS
<1>2. DOMAIN items = {1} /\ items[1] = Item(suite, data)
  BY <1>1
<1>3. items[1].suite = suite /\ items[1].data = data
  <2>1. PICK u : u = Item(suite, data)
    OBVIOUS
  <2>2. u.suite = suite /\ u.data = data
    BY <2>1, Zenon DEF Item
  <2> QED
    BY <1>2, <2>1, <2>2, Zenon
<1>4. {items[i].suite : i \in DOMAIN items} = {suite}
  BY <1>2, <1>3, Zenon
<1> DEFINE Latest(x) == CHOOSE i \in DOMAIN items :
                        /\ items[i].suite = x
                        /\ \A j \in DOMAIN items : items[j].suite = x => j <= i
<1>5. items[Latest(suite)].data = data
  <2>1. 1 <= 1
    OBVIOUS
  <2>2. Latest(suite) \in DOMAIN items
    BY <1>2, <1>3, <2>1, Zenon
  <2>3. Latest(suite) = 1
    BY <1>2, <2>2, Zenon
  <2> QED
    BY <1>3, <2>3, Zenon
<1>6. ByCipher(items) = [x \in {suite} |-> items[Latest(x)].data]
  BY <1>4, Zenon DEF ByCipher
<1>7. [x \in {suite} |-> items[Latest(x)].data] = [x \in {suite} |-> f[x]]
  BY <1>5, Zenon
<1> QED
  BY <1>1, <1>6, <1>7, Zenon

\* A function of two suites.
Pairs(f, a, x, c, y) ==
  /\ a # c /\ DOMAIN f = {a, c} /\ f = [s \in DOMAIN f |-> f[s]]
  /\ f[a] = x /\ f[c] = y

\* See ByOne: the two are of different suites.
LEMMA ByTwo ==
  ASSUME NEW a, NEW c, NEW x, NEW y, NEW f, Pairs(f, a, x, c, y)
  PROVE  ByCipher(<<Item(a, x), Item(c, y)>>) = f
<1>0. /\ a # c /\ DOMAIN f = {a, c} /\ f = [s \in DOMAIN f |-> f[s]]
      /\ f[a] = x /\ f[c] = y
  BY Zenon DEF Pairs
<1>1. PICK items : items = <<Item(a, x), Item(c, y)>>
  OBVIOUS
<1>2. DOMAIN items = {1, 2} /\ items[1] = Item(a, x) /\ items[2] = Item(c, y)
  BY <1>1
<1>3. /\ items[1].suite = a /\ items[1].data = x
      /\ items[2].suite = c /\ items[2].data = y
  <2>1. PICK u : u = Item(a, x)
    OBVIOUS
  <2>2. PICK v : v = Item(c, y)
    OBVIOUS
  <2>3. u.suite = a /\ u.data = x
    BY <2>1, Zenon DEF Item
  <2>4. v.suite = c /\ v.data = y
    BY <2>2, Zenon DEF Item
  <2> QED
    BY <1>2, <2>1, <2>2, <2>3, <2>4, Zenon
<1>4. {items[i].suite : i \in DOMAIN items} = {a, c}
  BY <1>2, <1>3, Zenon
<1> DEFINE Latest(s) == CHOOSE i \in DOMAIN items :
                        /\ items[i].suite = s
                        /\ \A j \in DOMAIN items : items[j].suite = s => j <= i
<1>5. 1 <= 1 /\ 2 <= 2 /\ 1 # 2
  OBVIOUS
<1>6. items[Latest(a)].data = x
  <2>1. Latest(a) \in DOMAIN items /\ items[Latest(a)].suite = a
    BY <1>0, <1>2, <1>3, <1>5, Zenon
  <2> HIDE DEF Latest
  <2>2. Latest(a) = 1
    BY <1>0, <1>2, <1>3, <2>1, Zenon
  <2> QED
    BY <1>3, <2>2, Zenon
<1>7. items[Latest(c)].data = y
  <2>1. Latest(c) \in DOMAIN items /\ items[Latest(c)].suite = c
    BY <1>0, <1>2, <1>3, <1>5, Zenon
  <2> HIDE DEF Latest
  <2>2. Latest(c) = 2
    BY <1>0, <1>2, <1>3, <2>1, Zenon
  <2> QED
    BY <1>3, <2>2, Zenon
<1>8. ByCipher(items) = [s \in {a, c} |-> items[Latest(s)].data]
  BY <1>4, Zenon DEF ByCipher
<1> HIDE DEF Latest
<1>9. [s \in {a, c} |-> items[Latest(s)].data] = [s \in {a, c} |-> f[s]]
  BY <1>0, <1>6, <1>7, Zenon
<1> QED
  BY <1>0, <1>1, <1>8, <1>9, Zenon

\* What is read of a hello whose extensions can be read.
HelloRead(b, r, t, its) ==
  [version |-> ProtocolVersion, suites |-> SuitesOf(b), random |-> r, timestamp |-> t,
   extensions |-> ByCipher(its)]

ReadAs(b, r, t, its) == ReadClientHello(b) = HelloRead(b, r, t, its)

\* A hello is read from its parts, if its extensions can be read.
LEMMA HelloIsRead ==
  ASSUME NEW n \in Nat, NEW b, NEW x, NEW suites, NEW r, NEW t, NEW e,
         HelloAt(b, n, x, suites, r, t, e), x = 8 + 2 * n, Sized(r, RandomLen), Sized(t, 4),
         NEW its, NEW q, IsGood(Repeat(n, ReadExtension, Cursor(b, x + RandomLen + 9)), b, q, its)
  PROVE  ReadAs(b, r, t, its)
<1>1. /\ b \in Seq(Nat) /\ x \in Nat
      /\ b[6] = 4 /\ b[7] = 241 /\ b[8] = n
      /\ Stands(b, x, r, x + RandomLen)
      /\ Stands(b, x + RandomLen, t, x + RandomLen + 4)
      /\ b[x + RandomLen + 9] = n
      /\ Stands(b, x + RandomLen + 9, e, Len(b))
  BY Zenon DEF HelloAt
<1>2. RandomAt(b) = x
  BY <1>1, Zenon DEF RandomAt
<1>3. ExtensionsAt(b) = x + RandomLen + 9
  BY <1>2, Zenon DEF ExtensionsAt
<1>4. RandomLen \in Nat
  BY CodecAssumption
<1>5. Len(b) >= 8 /\ Has(b, 0, x + RandomLen + 9)
  <2>1. PICK l : l = Len(b)
    OBVIOUS
  <2>2. PICK k : k = RandomLen
    OBVIOUS
  <2>3. x + k + 9 <= l /\ l \in Nat /\ k \in Nat /\ x \in Nat
    BY <1>1, <1>4, <2>1, <2>2, StandsType, Zenon
  <2>4. l >= 8 /\ 0 + (x + k + 9) <= l
    BY ONLY <2>3
  <2> QED
    BY <2>1, <2>2, <2>4, Zenon DEF Has
<1>6. Bytes(b, x, RandomLen) = r
  <2>1. BytesAre(b, x, RandomLen, r, x + RandomLen)
    BY <1>1, FixedRead, Zenon
  <2> QED
    BY <2>1, Zenon DEF BytesAre
<1>7. Bytes(b, x + RandomLen, 4) = t
  <2>1. BytesAre(b, x + RandomLen, 4, t, x + RandomLen + 4)
    BY <1>1, FixedRead, Zenon
  <2> QED
    BY <2>1, Zenon DEF BytesAre
<1>8. b[6] + 256 * b[7] = ProtocolVersion
  BY <1>1 DEF ProtocolVersion
<1> DEFINE c == Repeat(n, ReadExtension, Cursor(b, x + RandomLen + 9))
<1>9. c.ok /\ c.items = its
  BY GoodFields, Zenon
<1> QED
  <2>1. b[ExtensionsAt(b)] = n
    BY <1>1, <1>3, Zenon
  <2>2. Has(b, 0, ExtensionsAt(b))
    BY <1>3, <1>5, Zenon
  <2>3. Bytes(b, RandomAt(b), RandomLen) = r /\ Bytes(b, RandomAt(b) + RandomLen, 4) = t
    BY <1>2, <1>6, <1>7, Zenon
  <2>4. Repeat(b[ExtensionsAt(b)], ReadExtension, Cursor(b, ExtensionsAt(b))) = c
    BY <1>3, <2>1, Zenon
  <2>5. Len(b) >= 8
    BY <1>5, Zenon
  <2> HIDE DEF c
  <2> QED
    BY <1>8, <1>9, <2>2, <2>3, <2>4, <2>5, Zenon DEF ReadAs, ReadClientHello, HelloRead

\* The suites read, one or two.
LEMMA SuiteRead ==
  ASSUME NEW b \in Seq(Nat), NEW suite \in Nat, NEW p, NEW q, Stands(b, p, U16(suite), q)
  PROVE  Number(b, p, 2) = suite
<1>1. CutFrom(b, b)
  BY Whole, Zenon
<1>2. q = p + 2
  BY <1>1, ReadTwo, Zenon
<1>3. p \in Nat /\ q <= Len(b) /\ Len(b) \in Nat
  BY StandsType, Zenon
<1>4. Has(b, p, 2)
  BY <1>2, <1>3 DEF Has
<1> QED
  BY <1>1, <1>4, ReadTwo, Zenon

\* See SuiteRead.
LEMMA SuitesAreOne ==
  ASSUME NEW b, b[8] = 1, NEW suite, Number(b, 8, 2) = suite
  PROVE  SuitesOf(b) = <<suite>>
<1>1. \A i \in 1..1 : Number(b, 6 + 2 * i, 2) = suite
  <2> TAKE i \in 1..1
  <2>1. 6 + 2 * i = 8
    OBVIOUS
  <2> QED
    BY <2>1, Zenon
<1>2. SuitesOf(b) = [i \in 1..1 |-> suite]
  BY <1>1, Zenon DEF SuitesOf
<1>3. [i \in 1..1 |-> suite] = <<suite>>
  OBVIOUS
<1> QED
  BY <1>2, <1>3, Zenon

\* See SuiteRead.
LEMMA SuitesAreTwo ==
  ASSUME NEW b, b[8] = 2, NEW a, NEW c, Number(b, 8, 2) = a, Number(b, 10, 2) = c
  PROVE  SuitesOf(b) = <<a, c>>
<1>1. PICK z : z = <<a, c>>
  OBVIOUS
<1>2. z[1] = a /\ z[2] = c /\ z = [i \in 1..2 |-> z[i]]
  BY <1>1
<1>3. \A i \in 1..2 : Number(b, 6 + 2 * i, 2) = z[i]
  <2> TAKE i \in 1..2
  <2>1. (i = 1 /\ 6 + 2 * i = 8) \/ (i = 2 /\ 6 + 2 * i = 10)
    OBVIOUS
  <2> QED
    BY <1>2, <2>1, Zenon
<1>4. SuitesOf(b) = [i \in 1..2 |-> z[i]]
  BY <1>3, Zenon DEF SuitesOf
<1> QED
  BY <1>1, <1>2, <1>4, Zenon

\* The keys and tickets of a hello.
LEMMA ExtensionFields ==
  ASSUME NEW h, IsClientHello(h)
  PROVE  /\ h.extensions = [x \in DOMAIN h.extensions |-> h.extensions[x]]
         /\ DOMAIN h.extensions = ToSet(h.suites)
         /\ \A x \in DOMAIN h.extensions : h.extensions[x] \in Seq(Seq(Nat))
<1>1. h.extensions \in [ToSet(h.suites) -> Seq(Seq(Byte))]
  BY Zenon DEF IsClientHello
<1>2. Seq(Seq(Byte)) \subseteq Seq(Seq(Nat))
  <2>1. Byte \subseteq Nat
    BY DEF Byte
  <2>2. \A s \in Seq(Byte) : s \in Seq(Nat)
    <3> TAKE s \in Seq(Byte)
    <3> QED
      BY <2>1, BytesNat
  <2>3. PICK S : S = Seq(Byte)
    OBVIOUS
  <2>4. PICK T : T = Seq(Nat)
    OBVIOUS
  <2>5. S \subseteq T
    BY <2>2, <2>3, <2>4
  <2>6. Seq(S) \subseteq Seq(T)
    BY <2>5
  <2> QED
    BY <2>3, <2>4, <2>6
<1> QED
  BY <1>1, <1>2, Zenon

\* The suites of a list of one or two.
LEMMA SuiteSets ==
  ASSUME NEW a, NEW c
  PROVE  ToSet(<<a>>) = {a} /\ ToSet(<<a, c>>) = {a, c}
BY DEF ToSet

\* What a hello is read as, once its suites and extensions are read as they were.
LEMMA HelloIs ==
  ASSUME NEW h, IsClientHello(h), NEW b, NEW its,
         ReadAs(b, h.random, h.timestamp, its),
         SuitesOf(b) = h.suites, ByCipher(its) = h.extensions
  PROVE  ReadClientHello(b) = h
<1>1. h = NewHello(h.suites, h.extensions, h.random, h.timestamp)
  BY Zenon DEF IsClientHello
<1>2. HelloRead(b, h.random, h.timestamp, its)
        = NewHello(h.suites, h.extensions, h.random, h.timestamp)
  BY Zenon DEF HelloRead, NewHello
<1> QED
  BY <1>1, <1>2, Zenon DEF ReadAs

\* The two suites are numbers, and not the same.
LEMMA SuiteNumbers ==
  PSK \in Nat /\ ECDHE \in Nat /\ PSK # ECDHE
BY SMT DEF PSK, ECDHE

\* A cursor that has read nothing.
LEMMA NewCursor ==
  ASSUME NEW b, NEW p
  PROVE  IsGood(Cursor(b, p), b, p, <<>>) /\ Cursor(b, p).ok = TRUE
BY Zenon DEF IsGood, Good, Cursor

\* Where the parts of a hello of one suite stand.
LEMMA LayoutOfOne ==
  ASSUME NEW h, IsClientHello(h), NEW suite \in Nat, h.suites = <<suite>>,
         NEW e, ExtensionBytes(suite, h.extensions[suite]) = e, e \in Seq(Nat),
         NEW b, b = HelloBytes(h)
  PROVE  HelloAt(b, 1, 10, U16(suite), h.random, h.timestamp, e) /\ IsFramedHello(b)
<1>1. /\ h.random \in Seq(Nat) /\ Sized(h.random, RandomLen)
      /\ h.timestamp \in Seq(Nat) /\ Sized(h.timestamp, 4)
      /\ h.version = ProtocolVersion
  BY HelloFields, Zenon
<1>2. HelloForm(b, 1, U16(suite), h.random, h.timestamp, e)
  BY <1>1, FormOfOne, Zenon
<1>3. U16(suite) \in Seq(Nat) /\ Sized(U16(suite), 2) /\ EndsAt(8, 2, 10)
  <2>1. U16(suite) \in Seq(Nat) /\ Len(U16(suite)) = 2
    BY U16Is
  <2> QED
    BY <2>1 DEF Sized, EndsAt
<1>4. 1 \in Nat
  OBVIOUS
<1> QED
  BY <1>1, <1>2, <1>3, <1>4, HelloLayout, Zenon

\* A hello of one suite is read as it was written, if its extension is.
LEMMA HelloOfOne ==
  ASSUME NEW h, IsClientHello(h), NEW suite \in Nat, h.suites = <<suite>>,
         NEW data, h.extensions[suite] = data,
         ExtensionBytes(suite, data) \in Seq(Nat),
         \A b, p, q, c : Stands(b, p, ExtensionBytes(suite, data), q) /\ Fits(b)
                           /\ IsGood(c, b, p, <<>>) =>
           \E x : IsGood(ReadExtension(c), b, x, Append(<<>>, Item(suite, data))),
         Fits(HelloBytes(h))
  PROVE  ReadClientHello(HelloBytes(h)) = h
<1> DEFINE e == ExtensionBytes(suite, data)
<1>1. PICK b : b = HelloBytes(h)
  OBVIOUS
<1>2. Sized(h.random, RandomLen) /\ Sized(h.timestamp, 4)
  BY HelloFields, Zenon
<1>3. 1 \in Nat /\ 10 = 8 + 2 * 1
  OBVIOUS
<1>4. HelloAt(b, 1, 10, U16(suite), h.random, h.timestamp, e)
  <2> HIDE DEF e
  <2>1. ExtensionBytes(suite, h.extensions[suite]) = e
    BY Zenon DEF e
  <2>2. e \in Seq(Nat)
    BY Zenon DEF e
  <2> QED
    BY <1>1, <2>1, <2>2, LayoutOfOne, Zenon
<1>5. /\ b \in Seq(Nat) /\ b[8] = 1 /\ Stands(b, 8, U16(suite), 10)
      /\ Stands(b, 10 + RandomLen + 9, e, Len(b))
  BY <1>4, Zenon DEF HelloAt
<1> DEFINE c == Cursor(b, 10 + RandomLen + 9)
           its == Append(<<>>, Item(suite, data))
<1>6. PICK x : IsGood(ReadExtension(c), b, x, its)
  <2>1. Fits(b)
    BY <1>1, Zenon
  <2>2. IsGood(c, b, 10 + RandomLen + 9, <<>>)
    BY NewCursor, Zenon
  <2> QED
    BY <1>5, <2>1, <2>2, Zenon
<1>7. IsGood(Repeat(1, ReadExtension, c), b, x, its)
  <2>1. c.ok = TRUE
    BY NewCursor, Zenon
  <2> HIDE DEF c
  <2>2. Repeat(1, ReadExtension, c) = ReadExtension(c)
    BY <2>1, ReadOnce, Zenon
  <2> QED
    BY <1>6, <2>2, Zenon
<1>8. ReadAs(b, h.random, h.timestamp, its)
  <2> HIDE DEF e, its
  <2> QED
    BY <1>2, <1>3, <1>4, <1>7, HelloIsRead, Zenon
<1>9. SuitesOf(b) = h.suites
  <2>1. Number(b, 8, 2) = suite
    BY <1>5, SuiteRead, Zenon
  <2>2. SuitesOf(b) = <<suite>>
    BY <1>5, <2>1, SuitesAreOne, Zenon
  <2> QED
    BY <2>2, Zenon
<1>10. ByCipher(its) = h.extensions
  <2>1. PICK i : i = Item(suite, data)
    OBVIOUS
  <2>2. Append(<<>>, i) = <<i>>
    OBVIOUS
  <2>3. DOMAIN h.extensions = {suite}
    <3>1. DOMAIN h.extensions = ToSet(h.suites)
      BY ExtensionFields, Zenon
    <3>2. ToSet(<<suite>>) = {suite}
      BY SuiteSets, Zenon
    <3> QED
      BY <3>1, <3>2, Zenon
  <2>4. PICK f : f = h.extensions
    OBVIOUS
  <2>5. f = [x1 \in DOMAIN f |-> f[x1]] /\ DOMAIN f = {suite} /\ f[suite] = data
    <3>1. h.extensions = [x1 \in DOMAIN h.extensions |-> h.extensions[x1]]
      BY ExtensionFields, Zenon
    <3> QED
      BY <2>3, <2>4, <3>1, Zenon
  <2>6. ByCipher(<<Item(suite, data)>>) = f
    BY <2>5, ByOne, Zenon
  <2> QED
    BY <2>1, <2>2, <2>4, <2>6, Zenon
<1> HIDE DEF its
<1>11. ReadClientHello(b) = h
  BY <1>8, <1>9, <1>10, HelloIs, Zenon
<1> QED
  BY <1>1, <1>11, Zenon

\* A hello of the ECDHE suite is read as it was written.
LEMMA EcdheHelloRead ==
  ASSUME NEW h, IsClientHello(h), h.suites = <<ECDHE>>, Fits(HelloBytes(h))
  PROVE  ReadClientHello(HelloBytes(h)) = h
<1> DEFINE keys == h.extensions[ECDHE]
<1>1. keys \in Seq(Seq(Nat))
  <2>1. ECDHE \in DOMAIN h.extensions
    <3>1. ToSet(<<ECDHE>>) = {ECDHE}
      BY SuiteSets, Zenon
    <3>2. DOMAIN h.extensions = ToSet(h.suites)
      BY ExtensionFields, Zenon
    <3> QED
      BY <3>1, <3>2, Zenon
  <2> QED
    BY <2>1, ExtensionFields, Zenon
<1> HIDE DEF keys
<1>2. ExtensionBytes(ECDHE, keys) = EcdheBytes(keys)
  BY ExtensionIs, Zenon
<1>3. ExtensionBytes(ECDHE, keys) \in Seq(Nat)
  BY <1>1, <1>2, EcdheBytesType, Zenon
<1>4. ASSUME NEW b, NEW p, NEW q, NEW c, Stands(b, p, ExtensionBytes(ECDHE, keys), q), Fits(b),
             IsGood(c, b, p, <<>>)
      PROVE  \E x : IsGood(ReadExtension(c), b, x, Append(<<>>, Item(ECDHE, keys)))
  <2>1. Stands(b, p, EcdheBytes(keys), q)
    BY <1>2, <1>4, Zenon
  <2>2. IsGood(ReadExtension(c), b, q - 2, Append(<<>>, Item(ECDHE, keys)))
    BY <1>1, <1>4, <2>1, EcdheExtensionRead, Zenon
  <2> QED
    BY <2>2, Zenon
<1>5. \A b, p, q, c : Stands(b, p, ExtensionBytes(ECDHE, keys), q) /\ Fits(b)
                        /\ IsGood(c, b, p, <<>>) =>
        \E x : IsGood(ReadExtension(c), b, x, Append(<<>>, Item(ECDHE, keys)))
  BY <1>4, Zenon
<1>6. h.extensions[ECDHE] = keys
  BY Zenon DEF keys
<1> QED
  BY <1>3, <1>5, <1>6, SuiteNumbers, HelloOfOne, Zenon

\* A list of one sequence of bytes.
LEMMA OneItem ==
  ASSUME NEW s \in Seq(Seq(Nat)), Len(s) = 1
  PROVE  s[1] \in Seq(Nat) /\ s = <<s[1]>>
OBVIOUS

\* The one ticket of a hello that presents one.
LEMMA PskItem ==
  ASSUME NEW h, IsClientHello(h), PSK \in DOMAIN h.extensions
  PROVE  \E item \in Seq(Nat) : h.extensions[PSK] = <<item>>
                                /\ ExtensionBytes(PSK, <<item>>) = PskBytes(item)
<1>1. h.extensions[PSK] \in Seq(Seq(Nat)) /\ Len(h.extensions[PSK]) = 1
  BY ExtensionFields, Zenon DEF IsClientHello
<1>2. PICK s : s = h.extensions[PSK]
  OBVIOUS
<1>3. s \in Seq(Seq(Nat)) /\ Len(s) = 1
  BY <1>1, <1>2, Zenon
<1>4. PICK item \in Seq(Nat) : s = <<item>>
  BY <1>3, OneItem, Zenon
<1>5. <<item>>[1] = item
  OBVIOUS
<1>6. ExtensionBytes(PSK, <<item>>) = PskBytes(item)
  BY <1>5, ExtensionIs, Zenon
<1> QED
  BY <1>2, <1>4, <1>6, Zenon

\* A hello of the PSK suite is read as it was written.
LEMMA PskHelloRead ==
  ASSUME NEW h, IsClientHello(h), h.suites = <<PSK>>, Fits(HelloBytes(h))
  PROVE  ReadClientHello(HelloBytes(h)) = h
<1>1. PICK item \in Seq(Nat) : h.extensions[PSK] = <<item>>
                               /\ ExtensionBytes(PSK, <<item>>) = PskBytes(item)
  <2>1. PSK \in DOMAIN h.extensions
    <3>1. ToSet(<<PSK>>) = {PSK}
      BY SuiteSets, Zenon
    <3>2. DOMAIN h.extensions = ToSet(h.suites)
      BY ExtensionFields, Zenon
    <3> QED
      BY <3>1, <3>2, Zenon
  <2> QED
    BY <2>1, PskItem, Zenon
<1>2. PICK items : items = <<item>>
  OBVIOUS
<1>3. ExtensionBytes(PSK, items) \in Seq(Nat)
  BY <1>1, <1>2, PskBytesType, Zenon
<1>4. ASSUME NEW b, NEW p, NEW q, NEW c, Stands(b, p, ExtensionBytes(PSK, items), q), Fits(b),
             IsGood(c, b, p, <<>>)
      PROVE  \E x : IsGood(ReadExtension(c), b, x, Append(<<>>, Item(PSK, items)))
  <2>1. Stands(b, p, PskBytes(item), q)
    BY <1>1, <1>2, <1>4, Zenon
  <2>2. IsGood(ReadExtension(c), b, q, Append(<<>>, Item(PSK, <<item>>)))
    BY <1>1, <1>4, <2>1, PskExtensionRead, Zenon
  <2> QED
    BY <1>2, <2>2, Zenon
<1>5. \A b, p, q, c : Stands(b, p, ExtensionBytes(PSK, items), q) /\ Fits(b)
                        /\ IsGood(c, b, p, <<>>) =>
        \E x : IsGood(ReadExtension(c), b, x, Append(<<>>, Item(PSK, items)))
  BY <1>4, Zenon
<1>6. h.extensions[PSK] = items
  BY <1>1, <1>2, Zenon
<1> QED
  BY <1>3, <1>5, <1>6, SuiteNumbers, HelloOfOne, Zenon

\* A list of two.
LEMMA AppendTwo ==
  ASSUME NEW i, NEW k
  PROVE  Append(<<>>, i) = <<i>> /\ Append(<<i>>, k) = <<i, k>>
<1>1. Append(<<>>, i) = <<i>>
  OBVIOUS
<1>2. PICK s : s = <<i>>
  OBVIOUS
<1>3. PICK S : S = {i, k}
  OBVIOUS
<1>4. s \in Seq(S) /\ k \in S /\ Len(s) = 1 /\ s[1] = i
  BY <1>2, <1>3
<1>5. PICK t : t = Append(s, k)
  OBVIOUS
<1>6. t \in Seq(S) /\ Len(t) = 2 /\ t[1] = i /\ t[2] = k
  <2>1. PICK n \in Nat : n = 1
    OBVIOUS
  <2>2. Len(s) = n
    BY <1>4, <2>1
  <2>3. t \in Seq(S)
    BY <1>4, <1>5
  <2>4. Len(t) = n + 1 /\ t[n + 1] = k
    BY <1>4, <1>5, <2>2
  <2>5. \A j \in 1..n : t[j] = s[j]
    BY <1>4, <1>5, <2>2
  <2> QED
    BY <1>4, <2>1, <2>3, <2>4, <2>5
<1>7. PICK u : u = <<i, k>>
  OBVIOUS
<1>8. u \in Seq(S) /\ Len(u) = 2 /\ u[1] = i /\ u[2] = k
  BY <1>3, <1>7
<1>9. t = u
  BY <1>6, <1>8
<1> QED
  BY <1>1, <1>2, <1>5, <1>7, <1>9, Zenon

\* Where the parts of a hello of both suites stand: the ticket first, then the keys.
HelloOfBoth(b, h, item) ==
  /\ DOMAIN h.extensions = {PSK, ECDHE}
  /\ h.extensions[ECDHE] \in Seq(Seq(Nat)) /\ h.extensions[PSK] = <<item>>
  /\ HelloAt(b, 2, 12, U16(ECDHE) \o U16(PSK), h.random, h.timestamp,
             PskBytes(item) \o EcdheBytes(h.extensions[ECDHE]))
  /\ IsFramedHello(b)

\* See HelloOfBoth.
LEMMA LayoutOfBoth ==
  ASSUME NEW h, IsClientHello(h), h.suites = <<ECDHE, PSK>>, NEW b, b = HelloBytes(h)
  PROVE  \E item \in Seq(Nat) : HelloOfBoth(b, h, item)
<1> DEFINE f == h.extensions
           keys == f[ECDHE]
<1>2. /\ h.random \in Seq(Nat) /\ Sized(h.random, RandomLen)
      /\ h.timestamp \in Seq(Nat) /\ Sized(h.timestamp, 4)
      /\ h.version = ProtocolVersion
  BY HelloFields, Zenon
<1>3. DOMAIN f = {PSK, ECDHE}
  <2>1. ToSet(<<ECDHE, PSK>>) = {ECDHE, PSK}
    BY SuiteSets, Zenon
  <2>2. DOMAIN f = ToSet(h.suites)
    BY ExtensionFields, Zenon
  <2> QED
    BY <2>1, <2>2, Zenon
<1>4. keys \in Seq(Seq(Nat)) /\ f = [x \in DOMAIN f |-> f[x]]
  BY <1>3, ExtensionFields, Zenon
<1>5. PICK item \in Seq(Nat) : f[PSK] = <<item>>
                               /\ ExtensionBytes(PSK, <<item>>) = PskBytes(item)
  BY <1>3, PskItem, Zenon
<1> HIDE DEF f
<1> DEFINE x == PskBytes(item)
           y == EcdheBytes(keys)
           e == x \o y
           s == U16(ECDHE)
           u == U16(PSK)
<1>6. x \in Seq(Nat) /\ y \in Seq(Nat) /\ e \in Seq(Nat)
  BY <1>4, PskBytesType, EcdheBytesType, JoinType, Zenon
<1>7. /\ s \in Seq(Nat) /\ u \in Seq(Nat) /\ s \o u \in Seq(Nat)
      /\ Sized(s, 2) /\ Sized(s \o u, 2 + 2)
  <2>1. s \in Seq(Nat) /\ u \in Seq(Nat) /\ Len(s) = 2 /\ Len(u) = 2 /\ 2 \in Nat
    BY SuiteNumbers, U16Is
  <2>2. Sized(s, 2) /\ Sized(u, 2)
    BY <2>1, Zenon DEF Sized
  <2> HIDE DEF s, u
  <2> QED
    BY <2>1, <2>2, JoinType, JoinLen, Zenon
<1>8. HelloForm(b, 2, s \o u, h.random, h.timestamp, e)
  <2>1. HelloForm(HelloBytes(h), 2, U16(ECDHE) \o U16(PSK), h.random, h.timestamp,
                  ExtensionBytes(PSK, h.extensions[PSK])
                    \o ExtensionBytes(ECDHE, h.extensions[ECDHE]))
    BY <1>2, FormOfTwo, Zenon
  <2>2. ExtensionBytes(PSK, h.extensions[PSK]) = x
    BY <1>5, Zenon DEF f
  <2>3. ExtensionBytes(ECDHE, h.extensions[ECDHE]) = y
    BY ExtensionIs, Zenon DEF f
  <2> QED
    BY <2>1, <2>2, <2>3, Zenon
<1> HIDE DEF x, y, e, s, u
<1>9. 2 \in Nat /\ 12 = 8 + 2 * 2 /\ EndsAt(8, 2 + 2, 12)
  BY DEF EndsAt
<1>10. HelloAt(b, 2, 12, s \o u, h.random, h.timestamp, e) /\ IsFramedHello(b)
  BY <1>2, <1>6, <1>7, <1>8, <1>9, HelloLayout, Zenon
<1> QED
  BY <1>3, <1>4, <1>5, <1>10, Zenon DEF HelloOfBoth, x, y, e, s, u, f

\* A hello of both: the ticket is read first, and the keys where it ends.
LEMMA BothHelloRead ==
  ASSUME NEW h, IsClientHello(h), h.suites = <<ECDHE, PSK>>, Fits(HelloBytes(h))
  PROVE  ReadClientHello(HelloBytes(h)) = h
<1> DEFINE f == h.extensions
           keys == f[ECDHE]
<1>1. PICK b : b = HelloBytes(h)
  OBVIOUS
<1>2. Sized(h.random, RandomLen) /\ Sized(h.timestamp, 4)
  BY HelloFields, Zenon
<1>3. PICK item \in Seq(Nat) : HelloOfBoth(b, h, item)
  BY <1>1, LayoutOfBoth, Zenon
<1>4. DOMAIN f = {PSK, ECDHE} /\ f[PSK] = <<item>>
  BY <1>3, Zenon DEF HelloOfBoth
<1>5. keys \in Seq(Seq(Nat)) /\ f = [x \in DOMAIN f |-> f[x]]
  BY <1>4, ExtensionFields, Zenon
<1> HIDE DEF f
<1> DEFINE x == PskBytes(item)
           y == EcdheBytes(keys)
           e == x \o y
           s == U16(ECDHE)
           u == U16(PSK)
<1>6. x \in Seq(Nat) /\ y \in Seq(Nat) /\ e \in Seq(Nat)
  BY <1>5, PskBytesType, EcdheBytesType, JoinType, Zenon
<1>7. /\ s \in Seq(Nat) /\ u \in Seq(Nat) /\ Sized(s, 2)
  <2>1. s \in Seq(Nat) /\ u \in Seq(Nat) /\ Len(s) = 2 /\ 2 \in Nat
    BY SuiteNumbers, U16Is
  <2> QED
    BY <2>1, Zenon DEF Sized
<1> HIDE DEF x, y, e, s, u
<1>8. 2 \in Nat /\ 12 = 8 + 2 * 2
  OBVIOUS
<1>9. HelloAt(b, 2, 12, s \o u, h.random, h.timestamp, e)
  BY <1>3, Zenon DEF HelloOfBoth, x, y, e, s, u, keys, f
<1>10. /\ b \in Seq(Nat) /\ b[8] = 2 /\ Stands(b, 8, s \o u, 12)
       /\ Stands(b, 12 + RandomLen + 9, e, Len(b))
  BY <1>9, Zenon DEF HelloAt
<1> DEFINE at == 12 + RandomLen + 9
           c == Cursor(b, at)
           d == ReadExtension(c)
           one == Append(<<>>, Item(PSK, <<item>>))
           its == Append(one, Item(ECDHE, keys))
<1>11. Fits(b)
  BY <1>1, Zenon
<1> HIDE DEF at
<1>12. PICK m \in Nat : Stands(b, at, x, m) /\ Stands(b, m, y, Len(b))
  BY <1>6, <1>10, Split, Zenon DEF e, at
<1>13. IsGood(c, b, at, <<>>) /\ c.ok = TRUE
  BY NewCursor, Zenon
<1> HIDE DEF c
<1>14. IsGood(d, b, m, one)
  BY <1>11, <1>12, <1>13, PskExtensionRead, Zenon DEF x
<1>15. d.ok = TRUE
  BY <1>14, GoodFields, Zenon
<1> HIDE DEF d, one
<1>16. IsGood(ReadExtension(d), b, Len(b) - 2, its)
  BY <1>5, <1>11, <1>12, <1>14, EcdheExtensionRead, Zenon DEF y
<1>17. IsGood(Repeat(2, ReadExtension, c), b, Len(b) - 2, its)
  <2>1. Repeat(2, ReadExtension, c) = ReadExtension(d)
    BY <1>13, <1>15, ReadTwice, Zenon DEF d
  <2> QED
    BY <1>16, <2>1, Zenon
<1> HIDE DEF its, keys
<1>18. ReadAs(b, h.random, h.timestamp, its)
  <2>1. IsGood(Repeat(2, ReadExtension, Cursor(b, 12 + RandomLen + 9)), b, Len(b) - 2, its)
    BY <1>17, Zenon DEF c, at
  <2> QED
    BY <1>2, <1>8, <1>9, <2>1, HelloIsRead, Zenon
<1>19. SuitesOf(b) = h.suites
  <2>1. PICK z \in Nat : Stands(b, 8, s, z) /\ Stands(b, z, u, 12)
    BY <1>7, <1>10, Split, Zenon
  <2>2. EndsAt(8, 2, z)
    BY <1>7, <2>1, StandsEnd, Zenon
  <2>3. z = 10
    BY <2>2 DEF EndsAt
  <2>4. Number(b, 8, 2) = ECDHE
    BY <1>10, <2>1, SuiteNumbers, SuiteRead, Zenon DEF s
  <2>5. Number(b, z, 2) = PSK
    BY <1>10, <2>1, SuiteNumbers, SuiteRead, Zenon DEF u
  <2>6. SuitesOf(b) = <<ECDHE, PSK>>
    BY <1>10, <2>3, <2>4, <2>5, SuitesAreTwo, Zenon
  <2> QED
    BY <2>6, Zenon
<1>20. ByCipher(its) = f
  <2>1. its = <<Item(PSK, <<item>>), Item(ECDHE, keys)>>
    <3>1. PICK i : i = Item(PSK, <<item>>)
      OBVIOUS
    <3>2. PICK k : k = Item(ECDHE, keys)
      OBVIOUS
    <3>3. Append(<<>>, i) = <<i>> /\ Append(<<i>>, k) = <<i, k>>
      BY AppendTwo
    <3> QED
      BY <3>1, <3>2, <3>3, Zenon DEF its, one
  <2>2. f[ECDHE] = keys
    BY Zenon DEF keys
  <2>3. PSK # ECDHE
    BY SuiteNumbers
  <2>4. PICK g : g = f
    OBVIOUS
  <2>5. DOMAIN g = {PSK, ECDHE} /\ g = [z \in DOMAIN g |-> g[z]]
    BY <1>4, <1>5, <2>4, Zenon
  <2>6. g[PSK] = <<item>> /\ g[ECDHE] = keys
    BY <1>4, <2>2, <2>4, Zenon
  <2>7. Pairs(g, PSK, <<item>>, ECDHE, keys)
    BY <2>3, <2>5, <2>6, Zenon DEF Pairs
  <2>8. ByCipher(<<Item(PSK, <<item>>), Item(ECDHE, keys)>>) = g
    BY ONLY <2>7, ByTwo, Zenon
  <2> QED
    BY <2>1, <2>4, <2>8, Zenon
<1>21. ByCipher(its) = h.extensions
  BY <1>20, Zenon DEF f
<1>22. ReadClientHello(b) = h
  BY <1>18, <1>19, <1>21, HelloIs, Zenon
<1> QED
  BY <1>1, <1>22, Zenon

\* Every ClientHello is read as it was written.
THEOREM ClientHelloReadBack ==
  ASSUME NEW h, IsClientHello(h), Fits(HelloBytes(h))
  PROVE  ReadClientHello(HelloBytes(h)) = h
<1>1. h.suites = <<ECDHE>> \/ h.suites = <<PSK>> \/ h.suites = <<ECDHE, PSK>>
  BY HelloFields, Zenon
<1>2. CASE h.suites = <<ECDHE>>
  BY <1>2, EcdheHelloRead, Zenon
<1>3. CASE h.suites = <<PSK>>
  BY <1>3, PskHelloRead, Zenon
<1>4. CASE h.suites = <<ECDHE, PSK>>
  BY <1>4, BothHelloRead, Zenon
<1> QED
  BY <1>1, <1>2, <1>3, <1>4, Zenon
=============================================================================
