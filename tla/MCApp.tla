-------------------------------- MODULE MCApp --------------------------------
EXTENDS App
=============================================================================
