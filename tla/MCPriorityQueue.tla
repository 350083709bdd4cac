--------------------------- MODULE MCPriorityQueue ---------------------------
EXTENDS PriorityQueue, TLC

Symmetry == Permutations(Value)
=============================================================================
