------------------------------- MODULE Clock -------------------------------
(***************************************************************************)
(* The two page replacement algorithms of memoria/hilo_cpu.c, as the       *)
(* decision each takes on a list of pages and the position of its hand.    *)
(*                                                                         *)
(* lista is the list of the present pages sorted by frame, a function on   *)
(* 0..n-1; puntero < n.  d counts the pages that the hand has gone over.   *)
(***************************************************************************)
EXTENDS Integers, FiniteSets, FiniteSetsExt

Tamanio(lista) == Cardinality(DOMAIN lista)
Visita(lista, puntero, d) == (puntero + d) % Tamanio(lista)

\* The pages in the order of the hand whose bit_uso, or bit_modificacion, is 0.
SinUso(lista, puntero) ==
  {d \in DOMAIN lista : lista[Visita(lista, puntero, d)].bit_uso = 0}
SinModificar(lista, puntero) ==
  {d \in DOMAIN lista : lista[Visita(lista, puntero, d)].bit_modificacion = 0}

\* The victim, the pages whose bit_uso is cleared, and where the hand is left.
Decision(lista, puntero, d, bajados, final) ==
  [victima |-> Visita(lista, puntero, d),
   bajados |-> {Visita(lista, puntero, e) : e \in bajados},
   puntero |-> final]

\* The first page without bit_uso, clearing those before it; the first one of
\* all if every page had it.  The hand is not wrapped after the victim.
clock_comun(lista, puntero) ==
  LET d == Min(SinUso(lista, puntero) \cup {Tamanio(lista)})
  IN Decision(lista, puntero, d, 0..(d - 1), Visita(lista, puntero, d) + 1)

\* Mutant: the hand is not wrapped after the victim, as in clock_comun.
clock_mejorado_sin_vuelta(lista, puntero) ==
  LET uso == SinUso(lista, puntero)
      mod == SinModificar(lista, puntero)
      Parar(d, bajados) ==
        Decision(lista, puntero, d, bajados, Visita(lista, puntero, d) + 1)
  IN CASE uso \cap mod # {}              -> Parar(Min(uso \cap mod), {})
       [] uso \cap mod = {} /\ uso # {}  -> Parar(Min(uso), 0..(Min(uso) - 1))
       [] uso = {}                       -> Parar(Min(mod \cup {Tamanio(lista)}), DOMAIN lista)

\* A round looks for a page with neither bit; a second one for a page without
\* bit_uso, clearing those it finds with it; and if all had it, the same again.
clock_mejorado(lista, puntero) ==
  LET uso == SinUso(lista, puntero)
      mod == SinModificar(lista, puntero)
      Parar(d, bajados) ==
        Decision(lista, puntero, d, bajados, Visita(lista, puntero, d + 1))
  IN CASE uso \cap mod # {}              -> Parar(Min(uso \cap mod), {})
       [] uso \cap mod = {} /\ uso # {}  -> Parar(Min(uso), 0..(Min(uso) - 1))
       [] uso = {}                       -> Parar(Min(mod \cup {Tamanio(lista)}), DOMAIN lista)
=============================================================================
