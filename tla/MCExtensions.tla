---------------------------- MODULE MCExtensions ----------------------------
EXTENDS Extensions, TLC

MCDefaults == [d |-> "prompt"]
Symmetry == Permutations(Tools) \cup Permutations(Callers)
=============================================================================
