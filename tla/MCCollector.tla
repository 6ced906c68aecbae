----------------------------- MODULE MCCollector -----------------------------
EXTENDS Collector, TLC

CONSTANTS s1, s2

OneBucket == [s \in Symbols |-> 0]
=============================================================================
