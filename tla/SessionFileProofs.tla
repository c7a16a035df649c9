-------------------------- MODULE SessionFileProofs --------------------------
(***************************************************************************)
(* Proofs about the session file, for any number of savers, any size of a  *)
(* session and any way its bytes fall apart into reads.                    *)
(*                                                                         *)
(* A load that is under way knows what the file was when it opened it and  *)
(* which saves overlap with it: whatever the file has held since is one or *)
(* the other, and so is every piece read.                                  *)
(***************************************************************************)
EXTENDS SessionFile, FiniteSetTheorems, TLAPS

\* What the file holds: a piece belongs to a session, and it is whole exactly
\* when the last save succeeded.
FileInv ==
  /\ file.of = 0 <=> file.len = 0
  /\ kept # 0 => file = [of |-> kept, len |-> Size]
  /\ kept = 0 => file.len < Size

\* The pieces read so far are of session s, or of one in S.
AllOf(s) == \A i \in 1 .. Len(load.buf) : load.buf[i] = s
AllIn(S) == \A i \in 1 .. Len(load.buf) : load.buf[i] \in S

\* A load under way.
ReadingInv ==
  load.at = "reading" =>
    /\ load.hint = load.opened.len
    /\ load.opened.of = 0 <=> load.opened.len = 0
    /\ Saving \subseteq load.overlaps
    /\ \/ file = load.opened /\ AllOf(load.opened.of)
       \/ file.of \in {0} \cup load.overlaps
    /\ load.overlaps = {} =>
         /\ file = load.opened
         /\ kept = load.found
         /\ Len(load.buf) <= file.len
    /\ load.opened.len = 0 => AllIn(load.overlaps)
    /\ load.opened.len = Size =>
         \/ AllIn(load.overlaps)
         \/ Len(load.buf) = Size /\ AllOf(load.opened.of)

IInv == TypeOK /\ FileInv /\ ReadingInv /\ LoadedIsSaved /\ SavedIsLoaded
-----------------------------------------------------------------------------
\* A minimum is one of the two, and no more than either.
LEMMA MinFacts ==
  ASSUME NEW a \in Int, NEW b \in Int
  PROVE  Min2(a, b) \in {a, b} /\ Min2(a, b) <= a /\ Min2(a, b) <= b
  BY DEF Min2

\* A load made of parts that have their types has its own.
LEMMA LoadType ==
  ASSUME NEW a \in {"idle", "reading", "ok", "error"}, NEW h \in 0 .. Size,
         NEW b \in Seq(Ids \ {0}), NEW o \in [of : Ids, len : 0 .. Size],
         NEW f \in Ids, NEW v \in SUBSET Ids
  PROVE  [at |-> a, hint |-> h, buf |-> b, opened |-> o, found |-> f, overlaps |-> v]
           \in [at : {"idle", "reading", "ok", "error"}, hint : 0 .. Size,
               buf : Seq(Ids \ {0}), opened : [of : Ids, len : 0 .. Size],
               found : Ids, overlaps : SUBSET Ids]
  OBVIOUS

\* No save has begun.
LEMMA InitInv == Init => IInv
<1> SUFFICES ASSUME Init PROVE IInv
  OBVIOUS
<1>1. TypeOK
  <2>1. <<>> \in Seq(Ids \ {0})
    OBVIOUS
  <2>. QED
    BY <2>1, FileAssumption DEF Init, TypeOK, Ids
<1>. QED
  BY <1>1, FileAssumption
     DEF Init, IInv, FileInv, ReadingInv, LoadedIsSaved, SavedIsLoaded

\* What a load has read, and whether it succeeded, depends on the load alone.
LEMMA LoadStable ==
  ASSUME LoadedIsSaved, SavedIsLoaded, load' = load
  PROVE  LoadedIsSaved' /\ SavedIsLoaded'
  BY DEF LoadedIsSaved, SavedIsLoaded, Loaded

\* A save that begins while a load reads overlaps with it.
LEMMA CreateKeeps ==
  ASSUME IInv, NEW w \in Savers, Create(w)
  PROVE  IInv'
<1> USE FileAssumption
<1>1. TypeOK'
  <2>1. saves + 1 \in Ids
    BY DEF IInv, TypeOK, Create, Ids
  <2>2. load \in [at : {"idle", "reading", "ok", "error"}, hint : 0 .. Size,
                  buf : Seq(Ids \ {0}), opened : [of : Ids, len : 0 .. Size],
                  found : Ids, overlaps : SUBSET Ids]
    BY DEF IInv, TypeOK
  <2>3. load' \in [at : {"idle", "reading", "ok", "error"}, hint : 0 .. Size,
                   buf : Seq(Ids \ {0}), opened : [of : Ids, len : 0 .. Size],
                   found : Ids, overlaps : SUBSET Ids]
    <3> DEFINE O == IF load.at = "reading" THEN load.overlaps \cup {saves + 1}
                                           ELSE load.overlaps
    <3>1. load' = [load EXCEPT !.overlaps = O]
      BY DEF Create
    <3>2. O \in SUBSET Ids
      BY <2>1, <2>2
    <3> HIDE DEF O
    <3>. QED
      BY <2>2, <3>1, <3>2
  <2>4. 0 \in Ids /\ [of |-> 0, len |-> 0] \in [of : Ids, len : 0 .. Size]
    BY DEF Ids
  <2>. QED
    BY <2>1, <2>3, <2>4 DEF IInv, TypeOK, Create
<1>2. FileInv'
  BY DEF FileInv, Create
<1>3. CASE load.at = "reading"
  <2>1. load' = [load EXCEPT !.overlaps = load.overlaps \cup {saves + 1}]
    BY <1>3 DEF Create
  <2>2. load'.overlaps = load.overlaps \cup {saves + 1} /\ load'.at = "reading"
    <3>1. load = [at |-> load.at, hint |-> load.hint, buf |-> load.buf,
                  opened |-> load.opened, found |-> load.found,
                  overlaps |-> load.overlaps]
      BY DEF IInv, TypeOK
    <3>. QED
      BY <2>1, <3>1, <1>3
  <2>3. Saving' \subseteq Saving \cup {saves + 1}
    BY DEF IInv, TypeOK, Create, Saving
  <2>4. ReadingInv'
    BY <2>1, <2>2, <2>3, <1>3
       DEF IInv, TypeOK, Create, ReadingInv, AllOf, AllIn
  <2>. QED
    BY <1>1, <1>2, <2>2, <2>4 DEF IInv, LoadedIsSaved, SavedIsLoaded
<1>4. CASE load.at # "reading"
  <2>1. load' = load
    BY <1>4 DEF IInv, TypeOK, Create
  <2>. QED
    BY <1>1, <1>2, <1>4, <2>1, LoadStable DEF IInv, ReadingInv
<1>. QED
  BY <1>3, <1>4

\* A save in progress is no longer, and the file holds what it had, or a part or
\* all of its session.
LEMMA SaverStepKeeps ==
  ASSUME IInv, NEW w \in Savers, saver[w] # 0,
         saver' = [saver EXCEPT ![w] = 0],
         UNCHANGED <<saves, load>>,
         TypeOK', FileInv',
         \/ UNCHANGED <<file, kept>>
         \/ file'.of \in {0, saver[w]}
  PROVE  IInv'
<1>1. saver[w] \in Saving
  BY DEF Saving
<1>2. Saving' \subseteq Saving
  BY DEF IInv, TypeOK, Saving
<1>3. ReadingInv'
  <2> SUFFICES ASSUME load.at = "reading" PROVE ReadingInv'
    BY DEF ReadingInv
  <2>1. load.overlaps # {}
    BY <1>1 DEF IInv, ReadingInv
  <2>2. CASE UNCHANGED <<file, kept>>
    BY <2>2, <1>2 DEF IInv, ReadingInv, AllOf, AllIn
  <2>3. CASE file'.of \in {0, saver[w]}
    BY <2>1, <2>3, <1>1, <1>2 DEF IInv, ReadingInv, AllOf, AllIn
  <2>. QED
    BY <2>2, <2>3
<1>. QED
  BY <1>3, LoadStable DEF IInv

\* The file then holds the whole session of the saver.
LEMMA WriteKeeps ==
  ASSUME IInv, NEW w \in Savers, Write(w)
  PROVE  IInv'
<1> USE FileAssumption
<1>1. TypeOK'
  BY DEF IInv, TypeOK, Write, Ids
<1>2. FileInv'
  BY DEF IInv, TypeOK, FileInv, Write
<1>. QED
  BY <1>1, <1>2, SaverStepKeeps DEF Write

\* What a failed write leaves is a part, never a whole session.
LEMMA WriteFailsKeeps ==
  ASSUME IInv, NEW w \in Savers, WriteFails(w)
  PROVE  IInv'
<1> USE FileAssumption
<1>1. PICK n \in file.len .. Size - 1 :
        file' = [of |-> IF n = 0 THEN 0 ELSE saver[w], len |-> n]
  BY DEF WriteFails
<1>2. n \in 0 .. Size - 1
  BY DEF IInv, TypeOK
<1>3. TypeOK'
  BY <1>1, <1>2 DEF IInv, TypeOK, WriteFails, Ids
<1>4. kept = 0
  BY <1>1, <1>2 DEF IInv, FileInv
<1>5. FileInv'
  BY <1>1, <1>2, <1>4 DEF FileInv, WriteFails
<1>. QED
  BY <1>1, <1>3, <1>5, SaverStepKeeps DEF WriteFails

\* A saver that dies leaves the file as it is.
LEMMA KillKeeps ==
  ASSUME IInv, NEW w \in Savers, Kill(w)
  PROVE  IInv'
<1>1. TypeOK'
  BY FileAssumption DEF IInv, TypeOK, Kill, Ids
<1>2. FileInv'
  BY DEF IInv, FileInv, Kill
<1>. QED
  BY <1>1, <1>2, SaverStepKeeps DEF Kill

\* The load begins with nothing read, beside the saves then in progress.
LEMMA OpenKeeps ==
  ASSUME IInv, Open
  PROVE  IInv'
<1>1. load' = [at |-> "reading", hint |-> file.len, buf |-> <<>>, opened |-> file,
               found |-> kept, overlaps |-> Saving]
  BY DEF Open
<1>2. <<>> \in Seq(Ids \ {0}) /\ Len(<<>>) = 0
  OBVIOUS
<1>3. Saving \subseteq Ids
  BY DEF IInv, TypeOK, Saving
<1>4. TypeOK'
  BY <1>1, <1>2, <1>3 DEF IInv, TypeOK, Open
<1>5. FileInv'
  BY DEF IInv, FileInv, Open
<1>6. Saving' = Saving
  BY DEF Open, Saving
<1>7. ReadingInv'
  BY <1>1, <1>2, <1>6 DEF IInv, TypeOK, FileInv, ReadingInv, AllOf, AllIn, Open
<1>. QED
  BY <1>1, <1>4, <1>5, <1>7 DEF IInv, LoadedIsSaved, SavedIsLoaded
-----------------------------------------------------------------------------
\* What a read asks for is never nothing.
LEMMA ReadSizePositive ==
  ASSUME TypeOK
  PROVE  ReadSize(load) \in Nat \ {0}
  BY FileAssumption DEF TypeOK, ReadSize

\* What it is to append n equal pieces.
LEMMA Appended ==
  ASSUME NEW S, NEW b \in Seq(S), NEW n \in Nat, NEW x \in S
  PROVE  /\ b \o [i \in 1 .. n |-> x] \in Seq(S)
         /\ Len(b \o [i \in 1 .. n |-> x]) = Len(b) + n
         /\ \A i \in 1 .. Len(b) : (b \o [j \in 1 .. n |-> x])[i] = b[i]
         /\ \A i \in Len(b) + 1 .. Len(b \o [j \in 1 .. n |-> x]) :
              (b \o [j \in 1 .. n |-> x])[i] = x
<1>1. [i \in 1 .. n |-> x] \in Seq(S) /\ Len([i \in 1 .. n |-> x]) = n
  OBVIOUS
<1> DEFINE p == [i \in 1 .. n |-> x]
<1>2. \A i \in 1 .. n : p[i] = x
  OBVIOUS
<1>3. p \in Seq(S) /\ Len(p) = n
  BY <1>1
<1> HIDE DEF p
<1>4. b \o p \in Seq(S) /\ Len(b \o p) = Len(b) + n
  BY <1>3
<1>5. \A i \in 1 .. Len(b) : (b \o p)[i] = b[i]
  BY <1>3
<1>6. \A i \in Len(b) + 1 .. Len(b) + n : (b \o p)[i] = x
  BY <1>2, <1>3
<1>. QED
  BY <1>4, <1>5, <1>6 DEF p

\* A read that returns n pieces appends n pieces of what the file now holds.
LEMMA PiecesKeep ==
  ASSUME IInv, load.at = "reading", NEW n \in Nat \ {0},
         n = Min2(ReadSize(load), file.len - Len(load.buf)),
         load' = [load EXCEPT !.buf = @ \o [i \in 1 .. n |-> file.of]],
         UNCHANGED <<file, saver, saves, kept>>
  PROVE  IInv'
<1> DEFINE piece == [i \in 1 .. n |-> file.of]
<1> DEFINE buf == load.buf \o piece
<1> USE FileAssumption
<1>1. /\ load.buf \in Seq(Ids \ {0})
      /\ Len(load.buf) \in Nat
      /\ file.len \in 0 .. Size
      /\ load.hint \in 0 .. Size
      /\ load.opened.len \in 0 .. Size
  BY DEF IInv, TypeOK
<1>2. n <= ReadSize(load) /\ n <= file.len - Len(load.buf)
  <2>1. ReadSize(load) \in Int /\ file.len - Len(load.buf) \in Int
    BY <1>1, ReadSizePositive DEF IInv
  <2>. QED
    BY <2>1, MinFacts
<1>3. file.len > 0 /\ file.of \in Ids \ {0}
  BY <1>1, <1>2 DEF IInv, TypeOK, FileInv
<1>4. piece \in Seq(Ids \ {0}) /\ Len(piece) = n
  BY <1>3
<1>5. /\ buf \in Seq(Ids \ {0})
      /\ Len(buf) = Len(load.buf) + n
      /\ \A i \in 1 .. Len(load.buf) : buf[i] = load.buf[i]
      /\ \A i \in Len(load.buf) + 1 .. Len(buf) : buf[i] = file.of
  BY ONLY <1>1, <1>3, n \in Nat \ {0}, Appended
<1>6. load' = [at |-> "reading", hint |-> load.hint, buf |-> buf,
               opened |-> load.opened, found |-> load.found,
               overlaps |-> load.overlaps]
  BY DEF IInv, TypeOK
<1>14. /\ load'.at = "reading" /\ load'.hint = load.hint /\ load'.buf = buf
      /\ load'.opened = load.opened /\ load'.found = load.found
      /\ load'.overlaps = load.overlaps
  BY <1>6
<1> HIDE DEF piece, buf
<1>7. TypeOK'
  <2>1. load' \in [at : {"idle", "reading", "ok", "error"}, hint : 0 .. Size,
                   buf : Seq(Ids \ {0}), opened : [of : Ids, len : 0 .. Size],
                   found : Ids, overlaps : SUBSET Ids]
    <3>1. /\ load.opened \in [of : Ids, len : 0 .. Size]
          /\ load.found \in Ids
          /\ load.overlaps \in SUBSET Ids
      BY DEF IInv, TypeOK
    <3>2. buf \in Seq(Ids \ {0}) /\ load.hint \in 0 .. Size
      BY <1>1, <1>5
    <3>3. [at |-> "reading", hint |-> load.hint, buf |-> buf, opened |-> load.opened,
           found |-> load.found, overlaps |-> load.overlaps]
             \in [at : {"idle", "reading", "ok", "error"}, hint : 0 .. Size,
                 buf : Seq(Ids \ {0}), opened : [of : Ids, len : 0 .. Size],
                 found : Ids, overlaps : SUBSET Ids]
      <4>1. "reading" \in {"idle", "reading", "ok", "error"}
        OBVIOUS
      <4>. QED
        BY ONLY <3>1, <3>2, <4>1, LoadType
    <3>. QED
      BY ONLY <1>6, <3>3
  <2>. QED
    BY <2>1 DEF IInv, TypeOK
<1>8. FileInv' /\ Saving' = Saving
  BY DEF IInv, FileInv, Saving
<1>9. ASSUME NEW s, AllOf(s), file.of = s
      PROVE  \A i \in 1 .. Len(buf) : buf[i] = s
  <2>1. \A i \in 1 .. Len(buf) :
          i \in 1 .. Len(load.buf) \/ i \in Len(load.buf) + 1 .. Len(buf)
    BY <1>1, <1>5
  <2>. QED
    BY <1>5, <1>9, <2>1 DEF AllOf
<1>10. ASSUME NEW S, AllIn(S), file.of \in S
       PROVE  \A i \in 1 .. Len(buf) : buf[i] \in S
  <2>1. \A i \in 1 .. Len(buf) :
          i \in 1 .. Len(load.buf) \/ i \in Len(load.buf) + 1 .. Len(buf)
    BY <1>1, <1>5
  <2>. QED
    BY <1>5, <1>10, <2>1 DEF AllIn
<1>11. ASSUME file = load.opened, AllOf(load.opened.of) PROVE AllOf(load.opened.of)'
  BY <1>9, <1>11, <1>14 DEF AllOf
<1>12. CASE load.opened.len = 0
  <2>1. file.of \in load.overlaps
    BY <1>3, <1>12, <1>1 DEF IInv, ReadingInv
  <2>. QED
    BY <1>3, <1>6, <1>7, <1>8, <1>10, <1>12, <2>1
       DEF IInv, ReadingInv, AllIn, LoadedIsSaved, SavedIsLoaded
<1>13. CASE load.opened.len # 0
  <2>1. load.opened.len = Size =>
          \/ \A i \in 1 .. Len(buf) : buf[i] \in load.overlaps
          \/ Len(buf) = Size /\ \A i \in 1 .. Len(buf) : buf[i] = load.opened.of
    <3> SUFFICES ASSUME load.opened.len = Size
                 PROVE  \/ \A i \in 1 .. Len(buf) : buf[i] \in load.overlaps
                        \/ Len(buf) = Size /\ \A i \in 1 .. Len(buf) : buf[i] = load.opened.of
      OBVIOUS
    <3>1. Len(load.buf) # Size
      BY <1>1, <1>2
    <3>2. AllIn(load.overlaps)
      BY <3>1 DEF IInv, ReadingInv
    <3>3. CASE file.of \in load.overlaps
      BY <3>2, <3>3, <1>10
    <3>4. CASE file = load.opened /\ AllOf(load.opened.of) /\ Len(load.buf) > 0
      <4>1. load.opened.of \in load.overlaps
        BY <3>2, <3>4, <1>1 DEF AllOf, AllIn
      <4>. QED
        BY <3>2, <3>4, <4>1, <1>10
    <3>5. CASE file = load.opened /\ Len(load.buf) = 0
      <4>1. ReadSize(load) = Size
        BY <3>5, <1>1 DEF IInv, ReadingInv, ReadSize
      <4>2. n = Size
        BY <3>5, <4>1, <1>1 DEF Min2
      <4>. QED
        BY <1>5, <3>5, <4>2
    <3>. QED
      BY <3>3, <3>4, <3>5, <1>1, <1>3 DEF IInv, ReadingInv
  <2>2. \/ file = load.opened /\ AllOf(load.opened.of)'
        \/ file.of \in {0} \cup load.overlaps
    BY <1>11 DEF IInv, ReadingInv
  <2>3. load.opened.len = Size =>
          \/ AllIn(load.overlaps)'
          \/ Len(buf) = Size /\ AllOf(load.opened.of)'
    BY <1>14, <2>1 DEF AllIn, AllOf
  <2>4. Len(buf) <= file.len
    BY <1>1, <1>2, <1>5
  <2>5. /\ load.hint = load.opened.len
        /\ load.opened.of = 0 <=> load.opened.len = 0
        /\ Saving \subseteq load.overlaps
        /\ load.overlaps = {} => file = load.opened /\ kept = load.found
    BY DEF IInv, ReadingInv
  <2>6. ReadingInv'
    BY <1>8, <1>13, <1>14, <2>2, <2>3, <2>4, <2>5 DEF ReadingInv
  <2>. QED
    BY <1>6, <1>7, <1>8, <2>6 DEF IInv, LoadedIsSaved, SavedIsLoaded
<1>. QED
  BY <1>12, <1>13, <1>1

\* A whole session has a first piece; if all its pieces are one session's, it is
\* that session's.
LEMMA LoadedOf ==
  ASSUME NEW s, Len(load.buf) \in Nat, Len(load.buf) >= Size, AllOf(s)
  PROVE  Loaded = {s} /\ Cardinality(Loaded) = 1
<1>1. Loaded = {s}
  BY FileAssumption DEF AllOf, Loaded
<1>. QED
  BY <1>1, FS_Singleton

\* The read that finds nothing more ends the load.
LEMMA EndKeeps ==
  ASSUME IInv, load.at = "reading",
         file.len - Len(load.buf) <= 0,
         load' = [load EXCEPT !.at = IF Parses(load.buf) THEN "ok" ELSE "error"],
         UNCHANGED <<file, saver, saves, kept>>
  PROVE  IInv'
<1> USE FileAssumption
<1>1. /\ load.buf \in Seq(Ids \ {0})
      /\ Len(load.buf) \in Nat
      /\ file.len \in 0 .. Size
      /\ load.opened.len \in 0 .. Size
      /\ load.overlaps \subseteq Ids
      /\ load.found \in Ids
  BY DEF IInv, TypeOK
<1>2. load' = [at |-> IF Parses(load.buf) THEN "ok" ELSE "error",
               hint |-> load.hint, buf |-> load.buf, opened |-> load.opened,
               found |-> load.found, overlaps |-> load.overlaps]
  BY DEF IInv, TypeOK
<1>3. TypeOK'
  BY <1>2 DEF IInv, TypeOK
<1>4. FileInv' /\ ReadingInv'
  BY <1>2 DEF IInv, FileInv, ReadingInv
<1>5. Loaded' = Loaded
  BY <1>2 DEF Loaded
<1>6. LoadedIsSaved'
  <2> SUFFICES ASSUME Parses(load.buf),
                      ~ (Cardinality(load.overlaps) > 1),
                      ~ (load.overlaps # {} /\ load.opened.len \in 1 .. Size - 1)
               PROVE  Cardinality(Loaded) = 1
    BY <1>2, <1>5 DEF LoadedIsSaved
  <2>1. CASE load.overlaps = {}
    <3>1. AllOf(load.opened.of)
      BY <2>1, <1>1 DEF IInv, ReadingInv, FileInv, AllIn, Parses, AllOf
    <3>. QED
      BY <1>1, <3>1, LoadedOf DEF Parses
  <2>2. CASE load.overlaps # {}
    <3>1. PICK x : load.overlaps = {x}
      <4>1. IsFiniteSet(load.overlaps)
        <5>1. IsFiniteSet(Ids)
          <6>1. 0 \in Int /\ MaxSaves \in Int
            OBVIOUS
          <6>. QED
            BY <6>1, FS_Interval DEF Ids
        <5>. QED
          BY <1>1, <5>1, FS_Subset
      <4>2. Cardinality(load.overlaps) \in Nat /\ Cardinality(load.overlaps) # 0
        BY <4>1, <2>2, FS_CardinalityType, FS_EmptySet
      <4>3. Cardinality(load.overlaps) = 1
        BY <4>2
      <4>. QED
        BY <4>1, <4>3, FS_Singleton
    <3>2. AllIn({x}) \/ AllOf(load.opened.of)
      BY <1>1, <2>2, <3>1 DEF IInv, ReadingInv
    <3>3. AllOf(x) \/ AllOf(load.opened.of)
      BY <3>2 DEF AllIn, AllOf
    <3>. QED
      BY <1>1, <3>3, LoadedOf DEF Parses
  <2>. QED
    BY <2>1, <2>2
<1>7. SavedIsLoaded'
  <2> SUFFICES ASSUME load.overlaps = {}
               PROVE  IF load.found = 0 THEN ~ Parses(load.buf)
                                        ELSE Parses(load.buf) /\ Loaded = {load.found}
    BY <1>2, <1>5 DEF SavedIsLoaded
  <2>1. file = load.opened /\ kept = load.found /\ Len(load.buf) = file.len
    BY <1>1 DEF IInv, ReadingInv
  <2>2. CASE kept = 0
    BY <1>1, <2>1, <2>2 DEF IInv, FileInv, Parses
  <2>3. CASE kept # 0
    <3>1. Len(load.buf) = Size /\ load.opened.of = kept
      BY <2>1, <2>3 DEF IInv, FileInv
    <3>2. AllOf(kept)
      BY <1>1, <3>1, <2>3 DEF IInv, ReadingInv, AllIn, AllOf
    <3>. QED
      BY <1>1, <2>1, <2>3, <3>1, <3>2, LoadedOf DEF Parses
  <2>. QED
    BY <2>2, <2>3
<1>. QED
  BY <1>3, <1>4, <1>6, <1>7 DEF IInv

\* A read takes pieces or ends the load.
LEMMA ReadKeeps ==
  ASSUME IInv, Read
  PROVE  IInv'
<1> DEFINE n == Min2(ReadSize(load), file.len - Len(load.buf))
<1>1. load.at = "reading" /\ UNCHANGED <<file, saver, saves, kept>>
  BY DEF Read
<1>2. ReadSize(load) \in Nat \ {0} /\ file.len - Len(load.buf) \in Int
  BY ReadSizePositive DEF IInv, TypeOK
<1>3. n \in Int
  BY <1>2, MinFacts
<1>4. CASE n > 0
  <2>1. load' = [load EXCEPT !.buf = @ \o [i \in 1 .. n |-> file.of]]
    BY <1>4 DEF Read
  <2>2. n \in Nat \ {0}
    BY <1>3, <1>4
  <2>. QED
    BY ONLY IInv, <1>1, <2>1, <2>2, PiecesKeep
<1>5. CASE ~ (n > 0)
  <2>1. load' = [load EXCEPT !.at = IF Parses(load.buf) THEN "ok" ELSE "error"]
    BY <1>5 DEF Read
  <2>2. file.len - Len(load.buf) <= 0
    BY <1>2, <1>5 DEF Min2
  <2>. QED
    BY <1>1, <2>1, <2>2, EndKeeps
<1>. QED
  BY <1>4, <1>5

\* The invariant is inductive.
LEMMA NextInv == IInv /\ [Next]_vars => IInv'
<1> SUFFICES ASSUME IInv, [Next]_vars PROVE IInv'
  OBVIOUS
<1>1. ASSUME NEW w \in Savers, Create(w) \/ Write(w) \/ WriteFails(w) \/ Kill(w)
      PROVE  IInv'
  BY <1>1, CreateKeeps, WriteKeeps, WriteFailsKeeps, KillKeeps
<1>2. CASE Open
  BY <1>2, OpenKeeps
<1>3. CASE Read
  BY <1>3, ReadKeeps
<1>4. CASE UNCHANGED vars
  <2>1. UNCHANGED <<file, saver, saves, kept, load>>
    BY <1>4 DEF vars
  <2>2. TypeOK' /\ FileInv'
    BY <2>1 DEF IInv, TypeOK, FileInv
  <2>3. ReadingInv'
    BY <2>1 DEF IInv, ReadingInv, Saving, AllOf, AllIn
  <2>. QED
    BY <2>1, <2>2, <2>3, LoadStable DEF IInv
<1>. QED
  BY <1>1, <1>2, <1>3, <1>4 DEF Next

\* The inductive invariant holds throughout.
THEOREM FileInvariance == Spec => []IInv
  BY InitInv, NextInv, PTL DEF Spec

\* The variables keep their types.
THEOREM FileTypeCorrect == Spec => []TypeOK
  BY FileInvariance, PTL DEF IInv

\* Session::load returns a session that was saved as a whole, except where two
\* saves ran beside it or one ran over a torn file: for any number of savers and
\* reads of any size.
THEOREM LoadsAreSaved == Spec => []LoadedIsSaved
  BY FileInvariance, PTL DEF IInv

\* A load beside which nothing is saved returns the session of the last save, or
\* an error if that save failed or was killed.
THEOREM SavesAreLoaded == Spec => []SavedIsLoaded
  BY FileInvariance, PTL DEF IInv
=============================================================================
