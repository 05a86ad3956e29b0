---------------------------- MODULE MCRandomSets ----------------------------
EXTENDS RandomSets
=============================================================================
