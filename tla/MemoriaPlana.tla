---------------------------- MODULE MemoriaPlana ----------------------------
(***************************************************************************)
(* What paging promises to a program: a memory of its own in which every   *)
(* page holds the last value written to it, whatever is in frames or in    *)
(* swap.                                                                   *)
(***************************************************************************)
CONSTANTS Procesos, Paginas(_), Valores, BASURA, NULO

VARIABLES dato, resultado

Init ==
  /\ dato = [p \in Procesos |-> [n \in Paginas(p) |-> BASURA]]
  /\ resultado = NULO

Escribir(p, n, v) == UNCHANGED resultado /\ dato' = [dato EXCEPT ![p][n] = v]

Leer(p, n) ==
  resultado' = [id |-> p, pagina |-> n, valor |-> dato[p][n]] /\ UNCHANGED dato

Seguir == resultado' = NULO /\ UNCHANGED dato

Olvidar(p) ==
  UNCHANGED resultado /\ dato' = [dato EXCEPT ![p] = [n \in Paginas(p) |-> BASURA]]

Next ==
  \/ Seguir
  \/ \E p \in Procesos : Olvidar(p)
  \/ \E p \in Procesos : \E n \in Paginas(p) :
       Leer(p, n) \/ \E v \in Valores : Escribir(p, n, v)

Spec == Init /\ [][Next]_<<dato, resultado>>
=============================================================================
