---------------------------- MODULE MCDotProbes ----------------------------
(* DotProbes for TLC: the values of its constants. *)
EXTENDS DotProbes

CONSTANTS w1, w2, a1, a2
=============================================================================
