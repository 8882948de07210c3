----------------------------- MODULE MCKernelSRT -----------------------------
EXTENDS KernelSRT, TLC
CONSTANTS p1, p2, p3
Simetria == Permutations(Procesos)
=============================================================================
