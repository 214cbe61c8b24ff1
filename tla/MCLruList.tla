------------------------------ MODULE MCLruList ------------------------------
EXTENDS LruList, TLC

Symmetry == Permutations(Triplets) \cup Permutations(Getters)
=============================================================================
