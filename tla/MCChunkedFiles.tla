---------------------------- MODULE MCChunkedFiles ----------------------------
EXTENDS ChunkedFiles, TLC

Symmetry == Permutations(Blobs) \cup Permutations(Writers)
=============================================================================
