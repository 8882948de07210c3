-------------------------------- MODULE TLB --------------------------------
(***************************************************************************)
(* The TLB of the CPU (src/cpu/cpu.c): pages and the frames they had when  *)
(* memory was last asked.  Memory does not tell the CPU what it evicts, so *)
(* an entry whose frame another entry has too may be obsolete.             *)
(*                                                                         *)
(* The times of the two references are kept as the order of the entries,   *)
(* oldest first: clock() moves on between two accesses, each of which      *)
(* exchanges messages with memory.                                         *)
(***************************************************************************)
EXTENDS Integers, FiniteSets, FiniteSetsExt

CONSTANTS ENTRADAS_TLB, REEMPLAZO_TLB

ASSUME TLBAssumption ==
  ENTRADAS_TLB \in Nat \ {0} /\ REEMPLAZO_TLB \in {"LRU", "FIFO"}

VARIABLES
  lista_tlb,            \* the entries: a page and a frame, or -1
  primera_referencia,   \* the entries by the time they were filled
  ultima_referencia     \* the entries by the time they were last used

tlb_vars == <<lista_tlb, primera_referencia, ultima_referencia>>

EntradasTLB == 1..ENTRADAS_TLB
Vacia == [pagina |-> -1, marco |-> -1]

\* Entries emptied in one go may get the same time, and list_get_maximum then
\* takes the last one: they are filled in an order that the clock decides.
Ordenes ==
  {orden \in [EntradasTLB -> EntradasTLB] :
     \A i, j \in EntradasTLB : orden[i] = orden[j] => i = j}

\* crear_TLB
TLBInit ==
  /\ lista_tlb = [l \in EntradasTLB |-> Vacia]
  /\ primera_referencia \in Ordenes
  /\ ultima_referencia = primera_referencia

\* Mutant: the entries of the last process stay.
limpiar_TLB_olvidado == UNCHANGED tlb_vars

\* limpiar_TLB
limpiar_TLB ==
  /\ lista_tlb' = [l \in EntradasTLB |-> Vacia]
  /\ primera_referencia' \in Ordenes
  /\ ultima_referencia' = primera_referencia'

EstaEnTLB(pagina) == \E l \in EntradasTLB : lista_tlb[l].pagina = pagina

\* list_find(lista_tlb, encontrar_pagina): the first entry of the page
encontrar_pagina(pagina) ==
  Min({l \in EntradasTLB : lista_tlb[l].pagina = pagina})

\* When an entry comes in an order.
Turno(orden, l) == CHOOSE i \in EntradasTLB : orden[i] = l

ConMarco(marco) == {l \in EntradasTLB : lista_tlb[l].marco = marco}
marco_duplicado(marco) == Cardinality(ConMarco(marco)) >= 2

\* tlb_mas_viejo, over the entries that have the frame
MasViejo(marco) ==
  CHOOSE l \in ConMarco(marco) : \A m \in ConMarco(marco) :
    Turno(primera_referencia, l) <= Turno(primera_referencia, m)

\* Mutant: entries are never obsolete.
marco_obsoleto_nunca(pagina, marco) == FALSE

marco_obsoleto(pagina, marco) ==
  marco_duplicado(marco) /\ lista_tlb[MasViejo(marco)].pagina = pagina

\* The entry just used goes last.
AlFinal(orden, l) == [i \in EntradasTLB |->
  IF i = ENTRADAS_TLB THEN l ELSE orden[IF i < Turno(orden, l) THEN i ELSE i + 1]]

elegir_pagina_a_reemplazar_TLB ==
  (IF REEMPLAZO_TLB = "LRU" THEN ultima_referencia ELSE primera_referencia)[1]

guardar_en_TLB(pagina, marco) ==
  LET l == elegir_pagina_a_reemplazar_TLB IN
    /\ lista_tlb' = [lista_tlb EXCEPT ![l] = [pagina |-> pagina, marco |-> marco]]
    /\ primera_referencia' = AlFinal(primera_referencia, l)
    /\ ultima_referencia' = AlFinal(ultima_referencia, l)

\* A hit.  An entry found obsolete is left as it is.
Referenciar(l) ==
  /\ ultima_referencia' = AlFinal(ultima_referencia, l)
  /\ UNCHANGED <<lista_tlb, primera_referencia>>

TLBTypeOK ==
  /\ lista_tlb \in [EntradasTLB -> [pagina: Nat, marco: Nat] \cup {Vacia}]
  /\ primera_referencia \in Ordenes
  /\ ultima_referencia \in Ordenes
=============================================================================
