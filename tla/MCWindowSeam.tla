---------------------------- MODULE MCWindowSeam ----------------------------
EXTENDS WindowSeam, TLC

CONSTANTS w1, w2

MCToUpper == [s \in RawSymbols |-> "BTC"]
MCKey     == <<"btc", "1m">>
Symmetry  == Permutations(Workers)
=============================================================================
