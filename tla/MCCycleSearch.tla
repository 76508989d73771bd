--------------------------- MODULE MCCycleSearch ---------------------------
EXTENDS CycleSearch, TLC
CONSTANTS a, b, c, d
=============================================================================
