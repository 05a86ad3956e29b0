-------------------------------- MODULE MCUni --------------------------------
EXTENDS ListRandom

CONSTANTS t1, t2
==============================================================================
