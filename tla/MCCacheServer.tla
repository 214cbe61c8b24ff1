---------------------------- MODULE MCCacheServer ----------------------------
EXTENDS CacheServer, TLC

Symmetry == Permutations(Triplets) \cup Permutations(Readers)
=============================================================================
