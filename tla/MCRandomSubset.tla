--------------------------- MODULE MCRandomSubset ---------------------------
EXTENDS RandomSubset, TLC

Symmetry == Permutations(ID)
=============================================================================
