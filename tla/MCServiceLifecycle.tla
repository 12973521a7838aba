------------------------ MODULE MCServiceLifecycle ------------------------
EXTENDS ServiceLifecycle, TLC
CONSTANTS r1, r2
Turns == Permutations(Restarter)
=============================================================================
