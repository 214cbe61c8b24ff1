-------------------------- MODULE MCCacheImplements --------------------------
EXTENDS CacheImplements, TLC

Symmetry == Permutations(Triplets) \cup Permutations(Readers)
=============================================================================
