------------------------------- MODULE MCGate -------------------------------
(* Module Gate for TLC: two files under the gated path, one beside it and  *)
(* one that git ignores.                                                   *)
EXTENDS Gate, TLC

CONSTANTS f1, f2, side, built, b1, b2

Symmetry == Permutations({f1, f2}) \cup Permutations(Branches)
=============================================================================
