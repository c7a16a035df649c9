----------------------------- MODULE MCShortWire -----------------------------
(***************************************************************************)
(* A small instance of ShortWire for TLC: a length field of four bits, a   *)
(* tag of two bytes, reads of up to three.                                 *)
(***************************************************************************)
EXTENDS ShortWire

\* Empty; short; not UTF-8; the longest that fits both ways; too long for its
\* echo alone; one, and one wrap-around, too long for itself.
RequestSizes ==
  {[len |-> 0, grow |-> 0], [len |-> 3, grow |-> 0], [len |-> 3, grow |-> 2],
   [len |-> 10, grow |-> 0], [len |-> 9, grow |-> 4], [len |-> 11, grow |-> 0],
   [len |-> 14, grow |-> 0]}
=============================================================================
