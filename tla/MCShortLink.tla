----------------------------- MODULE MCShortLink -----------------------------
(***************************************************************************)
(* Small instances of the short link for TLC.                              *)
(***************************************************************************)
EXTENDS ShortLink, TLC

\* Client processes are interchangeable when they verify alike.
Symmetry == Permutations(Clients)
=============================================================================
