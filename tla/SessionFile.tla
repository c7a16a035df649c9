----------------------------- MODULE SessionFile -----------------------------
(***************************************************************************)
(* The session file, written in place.  Session::save creates the file,    *)
(* which truncates it, and then writes the serialised session; load reads  *)
(* to the end of the file and parses what it got.  Savers and a loader     *)
(* share nothing but the file, a future dropped at its await leaves the    *)
(* blocking write running, and a process may die or a disk fill up in      *)
(* between.  A session is Size pieces; a buffer is the sequence of the     *)
(* sessions its pieces come from.                                          *)
(***************************************************************************)
EXTENDS Integers, Sequences, FiniteSets

CONSTANTS
  Savers,    \* writes in progress at once
  Size,      \* pieces of a serialised session
  Probe,     \* pieces a read takes when the file's size told it nothing
  MaxSaves   \* bound on saves

ASSUME FileAssumption ==
  Size \in Nat \ {0} /\ Probe \in Nat \ {0} /\ MaxSaves \in Nat

VARIABLES
  file,    \* whose session the file holds, and how many pieces of it
  saver,   \* per saver, the session it is about to write, 0 if none
  saves,   \* saves begun; each saves a session of its own
  kept,    \* the session the file holds since a save that succeeded, or 0
  load     \* the load in progress or last finished

vars == <<file, saver, saves, kept, load>>

Ids == 0 .. MaxSaves
Min2(a, b) == IF a < b THEN a ELSE b

Init ==
  /\ file = [of |-> 0, len |-> 0]
  /\ saver = [w \in Savers |-> 0]
  /\ saves = 0
  /\ kept = 0
  /\ load = [at |-> "idle", hint |-> 0, buf |-> <<>>, opened |-> file,
             found |-> 0, overlaps |-> {}]

Saving == {saver[w] : w \in Savers} \ {0}
-----------------------------------------------------------------------------
\* Session::save: File::create, which truncates.
Create(w) ==
  /\ saver[w] = 0
  /\ saves < MaxSaves
  /\ saves' = saves + 1
  /\ saver' = [saver EXCEPT ![w] = saves + 1]
  /\ file' = [of |-> 0, len |-> 0]
  /\ kept' = 0
  /\ load' = [load EXCEPT !.overlaps =
                IF load.at = "reading" THEN @ \cup {saves + 1} ELSE @]

\* Variant: the file is opened for appending.
WriteAppends(w) ==
  /\ saver[w] # 0
  /\ file' = [of |-> saver[w], len |-> file.len + Size]
  /\ kept' = saver[w]
  /\ saver' = [saver EXCEPT ![w] = 0]
  /\ UNCHANGED <<saves, load>>

\* write_all: one write of the whole buffer at offset 0.
Write(w) ==
  /\ saver[w] # 0
  /\ file' = [of |-> saver[w], len |-> Size]
  /\ kept' = saver[w]
  /\ saver' = [saver EXCEPT ![w] = 0]
  /\ UNCHANGED <<saves, load>>

\* The disk is full: what the file holds is written over, a part of the rest
\* follows, and save fails.  Over a whole session the write succeeds.
WriteFails(w) ==
  /\ saver[w] # 0
  /\ \E n \in file.len .. Size - 1 :
       file' = [of |-> IF n = 0 THEN 0 ELSE saver[w], len |-> n]
  /\ saver' = [saver EXCEPT ![w] = 0]
  /\ UNCHANGED <<saves, kept, load>>

\* The saver's process dies before the write.
Kill(w) ==
  /\ saver[w] # 0
  /\ saver' = [saver EXCEPT ![w] = 0]
  /\ UNCHANGED <<file, saves, kept, load>>

\* Session::load opens the file and asks for its size.
Open ==
  /\ load.at # "reading"
  /\ load' = [at |-> "reading", hint |-> file.len, buf |-> <<>>, opened |-> file,
              found |-> kept, overlaps |-> Saving]
  /\ UNCHANGED <<file, saver, saves, kept>>

\* Variant: the size is not asked for.
ReadSizeProbing(l) == Probe

\* What a read asks for: the rest of the size seen, then a probe at a time.
ReadSize(l) == IF Len(l.buf) < l.hint THEN l.hint - Len(l.buf) ELSE Probe

\* Variant: the last field may be short.
ParsesShort(buf) == Len(buf) >= Size - 1

\* Every field is read exactly, to the last one: a shorter buffer is an error,
\* and what follows is not looked at.
Parses(buf) == Len(buf) >= Size

Read ==
  /\ load.at = "reading"
  /\ LET n == Min2(ReadSize(load), file.len - Len(load.buf))
     IN load' = IF n > 0
                  THEN [load EXCEPT !.buf = @ \o [i \in 1 .. n |-> file.of]]
                  ELSE [load EXCEPT !.at = IF Parses(load.buf) THEN "ok" ELSE "error"]
  /\ UNCHANGED <<file, saver, saves, kept>>

Next ==
  \/ \E w \in Savers : Create(w) \/ Write(w) \/ WriteFails(w) \/ Kill(w)
  \/ Open
  \/ Read

Spec == Init /\ [][Next]_vars
-----------------------------------------------------------------------------
TypeOK ==
  /\ file \in [of : Ids, len : 0 .. Size]
  /\ saver \in [Savers -> Ids]
  /\ saves \in Ids
  /\ kept \in Ids
  /\ load \in [at : {"idle", "reading", "ok", "error"}, hint : 0 .. Size,
               buf : Seq(Ids \ {0}), opened : [of : Ids, len : 0 .. Size],
               found : Ids, overlaps : SUBSET Ids]

\* What load made its session of: the first Size pieces read.
Loaded == {load.buf[i] : i \in 1 .. Size}

\* A load yields one session, saved as a whole.  It can mix two only where two
\* saves ran while it read, or one ran over a file torn before.
LoadedIsSaved ==
  load.at = "ok" =>
    \/ Cardinality(Loaded) = 1
    \/ Cardinality(load.overlaps) > 1
    \/ load.overlaps # {} /\ load.opened.len \in 1 .. Size - 1

\* Undisturbed, a load returns the session of the last save, if that one
\* succeeded, and an error otherwise: never an older session, never a part.
SavedIsLoaded ==
  load.at \in {"ok", "error"} /\ load.overlaps = {} =>
    IF load.found = 0 THEN load.at = "error"
                      ELSE load.at = "ok" /\ Loaded = {load.found}
=============================================================================
