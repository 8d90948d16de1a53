---------------------------- MODULE MCKLightLock -----------------------------
EXTENDS KLightLock, TLC

Symmetry == Permutations(Threads)
==============================================================================
