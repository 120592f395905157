--------------------------- MODULE MCProcessView ---------------------------
EXTENDS ProcessView, TLC

Symmetry == Permutations(Calls) \cup Permutations(Sockets)
=============================================================================
