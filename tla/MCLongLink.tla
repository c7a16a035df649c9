----------------------------- MODULE MCLongLink -----------------------------
(***************************************************************************)
(* Small instances of the long link for TLC.                               *)
(***************************************************************************)
EXTENDS LongLink, TLC

\* Client processes are interchangeable when they verify alike.
Symmetry == Permutations(Clients)
=============================================================================
