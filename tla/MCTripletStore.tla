---------------------------- MODULE MCTripletStore ----------------------------
EXTENDS TripletStore, TLC

Symmetry == Permutations(Triplets) \cup Permutations(Writers) \cup Permutations(Files)
=============================================================================
