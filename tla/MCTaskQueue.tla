---------------------------- MODULE MCTaskQueue ----------------------------
(* TaskQueue for TLC: the values of its constants. *)
EXTENDS TaskQueue, TLC

CONSTANTS w1, w2, n1, n2

\* Workers and names are compared only with each other.
Symmetry == Permutations(Workers) \cup Permutations(Names)
=============================================================================
