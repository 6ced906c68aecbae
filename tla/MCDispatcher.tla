---------------------------- MODULE MCDispatcher ----------------------------
EXTENDS Dispatcher, TLC

CONSTANTS w1, w2, c1, c2

Symmetry == Permutations(Workers) \cup Permutations(Callers)
=============================================================================
