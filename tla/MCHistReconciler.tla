------------------------- MODULE MCHistReconciler -------------------------
EXTENDS HistReconciler, TLC

CONSTANT a
=============================================================================
