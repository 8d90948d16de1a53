---------------------------- MODULE MCKHandleTable ----------------------------
EXTENDS KHandleTable, TLC

CONSTANTS t1, t2

ThreadSymmetry == Permutations(Threads)
=============================================================================
