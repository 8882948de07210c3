--------------------------- MODULE ClockPasoAPaso ---------------------------
(***************************************************************************)
(* The loops of clock_comun and clock_mejorado, an iteration at a time,    *)
(* against the decisions that Clock gives for them in one step.            *)
(***************************************************************************)
EXTENDS Clock

CONSTANT MaxMarcos     \* bound: the longest list of present pages

ASSUME MaxMarcosAssumption == MaxMarcos \in Nat \ {0}

VARIABLES
  algoritmo,           \* ALGORITMO_REEMPLAZO
  lista0, puntero0,    \* what the function was called with
  lista, puntero,      \* paginas_en_memoria and *puntero_clock
  vuelta,              \* the loop being executed
  i,                   \* its counter
  victima              \* the page last looked at

vars == <<algoritmo, lista0, puntero0, lista, puntero, vuelta, i, victima>>

Init ==
  /\ algoritmo \in {"CLOCK", "CLOCK-M"}
  /\ \E n \in 1..MaxMarcos :
       /\ lista0 \in [0..(n - 1) -> [bit_uso: {0, 1}, bit_modificacion: {0, 1}]]
       /\ puntero0 \in 0..(n - 1)
  /\ lista = lista0 /\ puntero = puntero0
  /\ vuelta = IF algoritmo = "CLOCK" THEN "comun" ELSE "buscar_0_0"
  /\ i = 0 /\ victima = 0

ConVuelta(p) == IF p = Tamanio(lista) THEN 0 ELSE p

IterarComun ==
  /\ vuelta = "comun"
  /\ victima' = puntero
  /\ \/ /\ lista[puntero].bit_uso = 0
        /\ puntero' = puntero + 1
        /\ vuelta' = "fin"
        /\ UNCHANGED lista
     \/ /\ lista[puntero].bit_uso = 1
        /\ lista' = [lista EXCEPT ![puntero].bit_uso = 0]
        /\ puntero' = ConVuelta(puntero + 1)
        /\ UNCHANGED vuelta
  /\ UNCHANGED <<algoritmo, lista0, puntero0, i>>

IterarBuscar00 ==
  /\ vuelta = "buscar_0_0" /\ i < Tamanio(lista)
  /\ victima' = puntero
  /\ puntero' = ConVuelta(puntero + 1)
  /\ i' = i + 1
  /\ vuelta' = IF lista[puntero].bit_uso = 0 /\ lista[puntero].bit_modificacion = 0
                 THEN "fin" ELSE vuelta
  /\ UNCHANGED <<algoritmo, lista0, puntero0, lista>>

\* Mutant: bit_uso is not cleared.
IterarBuscarUso0_sin_bajar ==
  /\ vuelta = "buscar_uso_0" /\ i < Tamanio(lista)
  /\ victima' = puntero
  /\ puntero' = ConVuelta(puntero + 1)
  /\ i' = i + 1
  /\ vuelta' = IF lista[puntero].bit_uso = 0 THEN "fin" ELSE vuelta
  /\ UNCHANGED <<algoritmo, lista0, puntero0, lista>>

IterarBuscarUso0 ==
  /\ vuelta = "buscar_uso_0" /\ i < Tamanio(lista)
  /\ victima' = puntero
  /\ puntero' = ConVuelta(puntero + 1)
  /\ i' = i + 1
  /\ \/ lista[puntero].bit_uso = 0 /\ vuelta' = "fin" /\ UNCHANGED lista
     \/ /\ lista[puntero].bit_uso = 1
        /\ lista' = [lista EXCEPT ![puntero].bit_uso = 0]
        /\ UNCHANGED vuelta
  /\ UNCHANGED <<algoritmo, lista0, puntero0>>

\* A for loop has gone round the list without finding a page.
OtraVuelta ==
  /\ vuelta \in {"buscar_0_0", "buscar_uso_0"} /\ i = Tamanio(lista)
  /\ vuelta' = IF vuelta = "buscar_0_0" THEN "buscar_uso_0" ELSE "buscar_0_0"
  /\ i' = 0
  /\ UNCHANGED <<algoritmo, lista0, puntero0, lista, puntero, victima>>

Next == IterarComun \/ IterarBuscar00 \/ IterarBuscarUso0 \/ OtraVuelta

\* The function has the processor to itself.
Spec == Init /\ [][Next]_vars /\ WF_vars(Next)

\* Each loop ends with the victim, the bits and the hand of its Decision.
Coincide ==
  vuelta = "fin" =>
    LET c == IF algoritmo = "CLOCK" THEN clock_comun(lista0, puntero0)
                                    ELSE clock_mejorado(lista0, puntero0)
    IN /\ victima = c.victima
       /\ puntero = c.puntero
       /\ \A k \in DOMAIN lista : lista[k] =
            IF k \in c.bajados THEN [lista0[k] EXCEPT !.bit_uso = 0] ELSE lista0[k]

\* Neither loop goes round for ever, whatever the bits and the hand.
SiempreEncuentra == <>(vuelta = "fin")
=============================================================================
