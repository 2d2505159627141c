---------------------------- MODULE MCEvidence ----------------------------
(***************************************************************************)
(* Evidence on its own: every registration, publication and disconnection  *)
(* of two workers with two boots each, over two sockets.                   *)
(***************************************************************************)
EXTENDS Evidence, TLC

CONSTANTS w1, w2, b1, b2, s1, s2

\* Neither sockets nor the two workers are told apart by any action.
Symmetry == Permutations({w1, w2}) \cup Permutations({s1, s2}) \cup Permutations({b1, b2})
=============================================================================
