---------------------------- MODULE MCBackfiller ----------------------------
EXTENDS Backfiller, TLC

CONSTANTS r1, r2, r3

MCToUpper  == [s \in RawSymbols |-> IF s = "btc" THEN "BTC" ELSE s]
\* Two overlapping lists, one of them in the lower case of a stream name.
MCKeyLists == {{<<"btc", "1m">>}, {<<"BTC", "1m">>, <<"ETH", "1m">>}}
Symmetry == Permutations(Requests)
=============================================================================
