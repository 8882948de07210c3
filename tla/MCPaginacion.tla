---------------------------- MODULE MCPaginacion ----------------------------
EXTENDS Paginacion, TLC
CONSTANTS p1, p2, a, b
DosYUna == p1 :> 2 @@ p2 :> 1
Tres == p1 :> 3
SimetriaDeValores == Permutations({a, b})
=============================================================================
