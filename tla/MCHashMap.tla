------------------------------ MODULE MCHashMap ------------------------------
EXTENDS HashMap, TLC

Symmetry == Permutations(Key) \cup Permutations(Val)
=============================================================================
