--------------------------- MODULE MCBatchWriter ---------------------------
EXTENDS BatchWriter, TLC

CONSTANTS f1, f2

Symmetry == Permutations(Flushers)
=============================================================================
