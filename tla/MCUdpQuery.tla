----------------------------- MODULE MCUdpQuery -----------------------------
(* UdpQuery for TLC: the values of its constants. *)
EXTENDS UdpQuery, TLC

\* One server that is asked one name, or two.
OneQuestion  == {[remote |-> "r1", name |-> "a"]}
TwoQuestions == {[remote |-> "r1", name |-> "a"], [remote |-> "r1", name |-> "b"]}
CONSTANTS i1, i2, i3, s1, s2

\* Message ids are compared only with each other, and so are subnets.
Symmetry == Permutations(Ids) \cup Permutations(Subnets)
=============================================================================
