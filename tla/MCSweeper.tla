------------------------------ MODULE MCSweeper ------------------------------
EXTENDS Sweeper, TLC

\* Symbol 1 has a bar without trades between two with; symbol 2 has them all.
TradedBars == 1 :> (0..9 \ {1}) @@ 2 :> (0..9)
=============================================================================
