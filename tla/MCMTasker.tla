----------------------------- MODULE MCMTasker -----------------------------
(* MTasker for TLC: the values of its constants. *)
EXTENDS MTasker, TLC

CONSTANTS k1, k2, v1

\* Keys are compared only with each other.
KeySymmetry == Permutations(Keys)
=============================================================================
