---------------------------- MODULE MCKernelFIFO ----------------------------
EXTENDS KernelFIFO, TLC
CONSTANTS p1, p2, p3, p4
Simetria == Permutations(Procesos)
=============================================================================
