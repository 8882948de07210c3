----------------------- MODULE ClockPasoAPaso_proofs -----------------------
(***************************************************************************)
(* For lists of any length, any bits in them and any place of the hand,    *)
(* the loops of clock_comun and clock_mejorado end with the victim, the    *)
(* bits and the hand that Clock gives for them in one step.                *)
(***************************************************************************)
EXTENDS ClockPasoAPaso, FiniteSetTheorems, TLAPS

Paginas == [bit_uso : {0, 1}, bit_modificacion : {0, 1}]
Largo == Tamanio(lista0)

TypeOK ==
  /\ algoritmo \in {"CLOCK", "CLOCK-M"}
  /\ vuelta \in {"comun", "buscar_0_0", "buscar_uso_0", "fin"}
  /\ Largo \in Nat \ {0}
  /\ lista0 \in [0..(Largo - 1) -> Paginas] /\ lista \in [0..(Largo - 1) -> Paginas]
  /\ puntero0 \in 0..(Largo - 1) /\ puntero \in 0..Largo
  /\ i \in 0..Largo

-----------------------------------------------------------------------------
\* The invariant of the loops

\* The page at d places of where the hand was.
Lugar(d) == Visita(lista0, puntero0, d)

\* The hand has gone over d pages, and of those ...
ConUso(d) == \A e \in 0..(d - 1) : lista0[Lugar(e)].bit_uso = 1
ConModificacion(d) == \A e \in 0..(d - 1) : lista0[Lugar(e)].bit_modificacion = 1
Sin00(d) ==
  \A e \in 0..(d - 1) : lista0[Lugar(e)].bit_uso = 1 \/ lista0[Lugar(e)].bit_modificacion = 1

\* ... it has cleared the bit_uso.
Bajada(k) == [lista0[k] EXCEPT !.bit_uso = 0]
Pasadas(d) == {Lugar(e) : e \in 0..(d - 1)}
Bajadas(d) ==
  \A k \in 0..(Largo - 1) : lista[k] = IF k \in Pasadas(d) THEN Bajada(k) ELSE lista0[k]

\* clock_comun may come back to where it started, once: by then it has cleared that page.
Comun ==
  vuelta = "comun" =>
    /\ algoritmo = "CLOCK"
    /\ \E d \in 0..Largo : puntero = Lugar(d) /\ ConUso(d) /\ Bajadas(d)

\* The loops of clock_mejorado are each gone through once with the bits there were and,
\* if all pages had bit_uso, once more with all of them cleared. The fourth ends at once.
Buscar00 ==
  vuelta = "buscar_0_0" =>
    /\ algoritmo = "CLOCK-M" /\ puntero = Lugar(i)
    /\ \/ Bajadas(0) /\ Sin00(i)
       \/ Bajadas(Largo) /\ ConUso(Largo) /\ ConModificacion(i)

BuscarUso0 ==
  vuelta = "buscar_uso_0" =>
    /\ algoritmo = "CLOCK-M" /\ puntero = Lugar(i)
    /\ \/ Bajadas(i) /\ Sin00(Largo) /\ ConUso(i)
       \/ i = 0 /\ Bajadas(Largo) /\ ConUso(Largo) /\ ConModificacion(Largo)

Vueltas == Comun /\ Buscar00 /\ BuscarUso0 /\ Coincide

-----------------------------------------------------------------------------
\* Going round the list

\* A list of n pages has the places 0..n-1.
LEMMA LargoDe ==
  ASSUME NEW n \in Nat \ {0}, NEW l \in [0..(n - 1) -> Paginas]
  PROVE  Tamanio(l) = n
<1>1. DOMAIN l = 0..(n - 1)
  OBVIOUS
<1>2. Cardinality(0..(n - 1)) = n
  BY FS_Interval
<1> QED
  BY <1>1, <1>2 DEF Tamanio

\* How the hand moves.
LEMMA Ronda ==
  ASSUME NEW n \in Nat \ {0}, NEW p \in 0..(n - 1), NEW d \in 0..n
  PROVE  /\ (p + d) % n = IF p + d < n THEN p + d ELSE p + d - n
         /\ (p + (n + 1)) % n = (p + 1) % n
<1>1. (p + d) % n = IF p + d < n THEN p + d ELSE p + d - n
  OBVIOUS
<1>2. (p + 1) % n = IF p + 1 < n THEN p + 1 ELSE p + 1 - n
  OBVIOUS
<1>3. (p + (n + 1)) % n = IF p + 1 < n THEN p + 1 ELSE p + 1 - n
  OBVIOUS
<1> QED
  BY <1>1, <1>2, <1>3

\* A sum that is past the end starts again.
LEMMA LugarEs ==
  ASSUME TypeOK, NEW d \in 0..Largo
  PROVE  Lugar(d) = IF puntero0 + d < Largo THEN puntero0 + d ELSE puntero0 + d - Largo
<1>1. PICK n \in Nat \ {0} : n = Largo
  BY DEF TypeOK
<1>2. Lugar(d) = (puntero0 + d) % n
  BY <1>1 DEF Lugar, Visita, Largo
<1> QED
  BY <1>1, <1>2, Ronda DEF TypeOK

\* Every page is passed once in a round, and the hand is then where it was.
LEMMA Vuelta ==
  ASSUME TypeOK
  PROVE  /\ \A d \in 0..Largo : Lugar(d) \in 0..(Largo - 1)
         /\ Lugar(0) = puntero0 /\ Lugar(Largo) = puntero0
         /\ \A d, e \in 0..(Largo - 1) : Lugar(d) = Lugar(e) => d = e
         /\ \A k \in 0..(Largo - 1) : \E d \in 0..(Largo - 1) : Lugar(d) = k
         /\ \A d \in 0..(Largo - 1) : ConVuelta(Lugar(d) + 1) = Lugar(d + 1)
         /\ ConVuelta(Lugar(Largo) + 1) = Lugar(Largo + 1)
<1>1. PICK n \in Nat \ {0} : n = Largo
  BY DEF TypeOK
<1>2. PICK p \in 0..(n - 1) : p = puntero0
  BY <1>1 DEF TypeOK
<1>3. Tamanio(lista) = n
  BY <1>1, LargoDe DEF TypeOK
<1>4. \A d \in 0..n : Lugar(d) = IF p + d < n THEN p + d ELSE p + d - n
  BY <1>1, <1>2, LugarEs
<1>5. \A d \in 0..n : Lugar(d) \in 0..(n - 1)
  BY <1>4
<1>6. Lugar(0) = p /\ Lugar(n) = p
  BY <1>4
<1>7. ASSUME NEW d \in 0..(n - 1), NEW e \in 0..(n - 1), Lugar(d) = Lugar(e) PROVE d = e
  BY <1>4, <1>7
<1>8. ASSUME NEW k \in 0..(n - 1) PROVE \E d \in 0..(n - 1) : Lugar(d) = k
  <2>1. CASE k >= p
    <3>1. k - p \in 0..(n - 1) /\ Lugar(k - p) = k
      BY <1>4, <2>1
    <3> QED
      BY <3>1
  <2>2. CASE k < p
    <3>1. k - p + n \in 0..(n - 1) /\ Lugar(k - p + n) = k
      BY <1>4, <2>2
    <3> QED
      BY <3>1
  <2> QED
    BY <2>1, <2>2
<1>9. ASSUME NEW d \in 0..(n - 1) PROVE ConVuelta(Lugar(d) + 1) = Lugar(d + 1)
  <2>1. d \in 0..n /\ d + 1 \in 0..n
    OBVIOUS
  <2>2. /\ Lugar(d) = IF p + d < n THEN p + d ELSE p + d - n
        /\ Lugar(d + 1) = IF p + (d + 1) < n THEN p + (d + 1) ELSE p + (d + 1) - n
    BY <1>4, <2>1
  <2> QED
    BY <1>3, <2>2 DEF ConVuelta
<1>10. ConVuelta(Lugar(n) + 1) = Lugar(n + 1)
  <2>1. Lugar(n + 1) = Lugar(1)
    BY <1>1, <1>2, Ronda DEF Lugar, Visita, Largo
  <2>2. Lugar(1) = ConVuelta(p + 1)
    BY <1>6, <1>9
  <2> QED
    BY <1>6, <2>1, <2>2
<1> QED
  BY <1>1, <1>2, <1>5, <1>6, <1>7, <1>8, <1>9, <1>10

\* The page under the hand is not one of those it has passed, until the round is over.
LEMMA AunNoPasada ==
  ASSUME TypeOK, NEW d \in 0..Largo
  PROVE  /\ d < Largo => Lugar(d) \notin Pasadas(d)
         /\ Pasadas(Largo) = 0..(Largo - 1) /\ Pasadas(0) = {}
         /\ d < Largo => Pasadas(d + 1) = Pasadas(d) \cup {Lugar(d)}
<1>1. PICK n \in Nat \ {0} : n = Largo
  BY DEF TypeOK
<1>2. /\ \A e, g \in 0..(n - 1) : Lugar(e) = Lugar(g) => e = g
      /\ \A e \in 0..n : Lugar(e) \in 0..(n - 1)
      /\ \A k \in 0..(n - 1) : \E e \in 0..(n - 1) : Lugar(e) = k
  BY <1>1, Vuelta
<1>3. ASSUME d < n PROVE Lugar(d) \notin Pasadas(d)
  BY <1>1, <1>2, <1>3 DEF Pasadas
<1>4. Pasadas(n) = 0..(n - 1)
  BY <1>2 DEF Pasadas
<1>5. Pasadas(0) = {}
  BY DEF Pasadas
<1>6. ASSUME d < n PROVE Pasadas(d + 1) = Pasadas(d) \cup {Lugar(d)}
  <2>1. 0..(d + 1 - 1) = 0..(d - 1) \cup {d}
    BY <1>1
  <2> QED
    BY <2>1 DEF Pasadas
<1> QED
  BY <1>1, <1>3, <1>4, <1>5, <1>6

-----------------------------------------------------------------------------
\* What Clock decides, by the pages the hand has gone over

\* The minimum of a set of numbers.
LEMMA MinEs ==
  ASSUME NEW S, S \subseteq Int, NEW d \in S, \A e \in S : d <= e
  PROVE  Min(S) = d
<1>1. Min(S) \in S /\ \A e \in S : Min(S) <= e
  BY DEF Min
<1>2. Min(S) <= d /\ d <= Min(S) /\ Min(S) \in Int /\ d \in Int
  BY <1>1
<1> QED
  BY <1>2

\* The distances of the pages without one bit, or the other.
LEMMA Distancias ==
  ASSUME TypeOK
  PROVE  /\ SinUso(lista0, puntero0)
              = {d \in 0..(Largo - 1) : lista0[Lugar(d)].bit_uso = 0}
         /\ SinModificar(lista0, puntero0)
              = {d \in 0..(Largo - 1) : lista0[Lugar(d)].bit_modificacion = 0}
         /\ \A d \in 0..(Largo - 1) : lista0[Lugar(d)] \in Paginas
         /\ DOMAIN lista0 = 0..(Largo - 1)
<1>1. DOMAIN lista0 = 0..(Largo - 1)
  BY DEF TypeOK
<1>2. \A d \in 0..(Largo - 1) : Lugar(d) \in 0..(Largo - 1)
  <2>1. Largo \in Nat \ {0}
    BY DEF TypeOK
  <2> QED
    BY <2>1, Vuelta
<1>3. /\ SinUso(lista0, puntero0)
           = {d \in 0..(Largo - 1) : lista0[Lugar(d)].bit_uso = 0}
      /\ SinModificar(lista0, puntero0)
           = {d \in 0..(Largo - 1) : lista0[Lugar(d)].bit_modificacion = 0}
  BY <1>1 DEF SinUso, SinModificar, Lugar
<1>4. \A k \in 0..(Largo - 1) : lista0[k] \in Paginas
  BY DEF TypeOK
<1> QED
  BY <1>1, <1>2, <1>3, <1>4

\* Victim the page at d places, what is cleared, and where the hand is left.
Decide(d, bajados, final) ==
  [victima |-> Lugar(d), bajados |-> bajados, puntero |-> final]

\* clock_comun stops at the first page without bit_uso, or where it began.
LEMMA DecideComun ==
  ASSUME TypeOK, NEW d \in 0..Largo, ConUso(d), d < Largo => lista0[Lugar(d)].bit_uso = 0
  PROVE  clock_comun(lista0, puntero0) = Decide(d, Pasadas(d), Lugar(d) + 1)
<1> DEFINE S == SinUso(lista0, puntero0) \cup {Largo}
<1>1. Largo \in Nat \ {0}
  BY DEF TypeOK
<1>2. S \subseteq Int /\ d \in S /\ \A e \in S : d <= e
  <2>1. SinUso(lista0, puntero0) = {e \in 0..(Largo - 1) : lista0[Lugar(e)].bit_uso = 0}
    BY Distancias
  <2>2. \A e \in S : d <= e
    BY <1>1, <2>1 DEF ConUso
  <2>3. d \in S
    BY <1>1, <2>1
  <2> QED
    BY <1>1, <2>1, <2>2, <2>3
<1>3. Min(S) = d
  BY <1>2, MinEs
<1> QED
  BY <1>3 DEF clock_comun, Decision, Decide, Pasadas, Lugar, Largo

\* clock_mejorado, at the first loop, ...
LEMMA Decide00 ==
  ASSUME TypeOK, NEW d \in 0..(Largo - 1), Sin00(d),
         lista0[Lugar(d)].bit_uso = 0, lista0[Lugar(d)].bit_modificacion = 0
  PROVE  clock_mejorado(lista0, puntero0) = Decide(d, Pasadas(0), Lugar(d + 1))
<1> DEFINE S == SinUso(lista0, puntero0) \cap SinModificar(lista0, puntero0)
<1>1. Largo \in Nat \ {0}
  BY DEF TypeOK
<1>2. S \subseteq Int /\ d \in S /\ \A e \in S : d <= e
  BY <1>1, Distancias DEF Sin00
<1>3. Min(S) = d /\ S # {}
  BY <1>2, MinEs
<1>4. {Visita(lista0, puntero0, e) : e \in {}} = Pasadas(0)
  BY DEF Pasadas
<1>5. clock_mejorado(lista0, puntero0)
        = Decision(lista0, puntero0, Min(S), {}, Visita(lista0, puntero0, Min(S) + 1))
  BY <1>3 DEF clock_mejorado
<1> QED
  BY <1>3, <1>4, <1>5 DEF Decision, Decide, Lugar

\* ... at the second, ...
LEMMA DecideUso0 ==
  ASSUME TypeOK, NEW d \in 0..(Largo - 1), Sin00(Largo), ConUso(d),
         lista0[Lugar(d)].bit_uso = 0
  PROVE  clock_mejorado(lista0, puntero0) = Decide(d, Pasadas(d), Lugar(d + 1))
<1> DEFINE S == SinUso(lista0, puntero0)
<1>1. Largo \in Nat \ {0}
  BY DEF TypeOK
<1>2. S \subseteq Int /\ d \in S /\ \A e \in S : d <= e
  BY <1>1, Distancias DEF ConUso
<1>3. S \cap SinModificar(lista0, puntero0) = {}
  BY <1>1, Distancias DEF Sin00
<1>4. Min(S) = d /\ S # {}
  BY <1>2, MinEs
<1>5. clock_mejorado(lista0, puntero0)
        = Decision(lista0, puntero0, Min(S), 0..(Min(S) - 1),
                   Visita(lista0, puntero0, Min(S) + 1))
  BY <1>3, <1>4 DEF clock_mejorado
<1> QED
  BY <1>4, <1>5 DEF Decision, Decide, Pasadas, Lugar

\* ... or later, when all the pages had bit_uso.
LEMMA DecideTodas ==
  ASSUME TypeOK, NEW d \in 0..Largo, ConUso(Largo), ConModificacion(d),
         d < Largo => lista0[Lugar(d)].bit_modificacion = 0
  PROVE  clock_mejorado(lista0, puntero0) = Decide(d, Pasadas(Largo), Lugar(d + 1))
<1> DEFINE S == SinModificar(lista0, puntero0) \cup {Largo}
<1>1. Largo \in Nat \ {0}
  BY DEF TypeOK
<1>2. S \subseteq Int /\ d \in S /\ \A e \in S : d <= e
  BY <1>1, Distancias DEF ConModificacion
<1>3. SinUso(lista0, puntero0) = {}
  BY <1>1, Distancias DEF ConUso
<1>4. Min(S) = d
  BY <1>2, MinEs
<1>5. clock_mejorado(lista0, puntero0)
        = Decision(lista0, puntero0, Min(S), DOMAIN lista0,
                   Visita(lista0, puntero0, Min(S) + 1))
  BY <1>3 DEF clock_mejorado, Largo
<1> QED
  BY <1>4, <1>5, Distancias DEF Decision, Decide, Pasadas, Lugar

-----------------------------------------------------------------------------
\* The iterations

\* What the function was called with does not change, nor what is said of it.
LEMMA Mismas ==
  ASSUME UNCHANGED <<lista0, puntero0>>
  PROVE  /\ Largo' = Largo /\ \A d : Lugar(d)' = Lugar(d) /\ Pasadas(d)' = Pasadas(d)
         /\ \A k : Bajada(k)' = Bajada(k)
         /\ \A d : /\ ConUso(d)' <=> ConUso(d)
                   /\ ConModificacion(d)' <=> ConModificacion(d)
                   /\ Sin00(d)' <=> Sin00(d)
  BY DEF Largo, Lugar, Pasadas, Bajada, ConUso, ConModificacion, Sin00

\* The bits do not change: what was cleared is what is.
LEMMA MismosBits ==
  ASSUME UNCHANGED <<lista0, puntero0, lista>>, NEW d
  PROVE  Bajadas(d)' <=> Bajadas(d)
  BY Mismas DEF Bajadas

\* The bit of the page under the hand is cleared: one more.
LEMMA UnaMas ==
  ASSUME TypeOK, UNCHANGED <<lista0, puntero0>>, NEW d \in 0..(Largo - 1), puntero = Lugar(d),
         Bajadas(d), lista' = [lista EXCEPT ![puntero].bit_uso = 0]
  PROVE  Bajadas(d + 1)'
<1>0. Largo \in Nat \ {0} /\ d \in 0..Largo /\ d < Largo
  BY DEF TypeOK
<1>1. Lugar(d) \in 0..(Largo - 1)
  BY <1>0, Vuelta
<1>2. Lugar(d) \notin Pasadas(d) /\ Pasadas(d + 1) = Pasadas(d) \cup {Lugar(d)}
  BY <1>0, AunNoPasada
<1>3. lista[Lugar(d)] = lista0[Lugar(d)]
  BY <1>1, <1>2 DEF Bajadas
<1>4. ASSUME NEW k \in 0..(Largo - 1)
      PROVE  lista'[k] = IF k \in Pasadas(d + 1) THEN Bajada(k) ELSE lista0[k]
  <2>1. CASE k = Lugar(d)
    <3>1. lista'[k] = [lista[k] EXCEPT !.bit_uso = 0]
      BY <2>1 DEF TypeOK
    <3> QED
      BY <1>2, <1>3, <2>1, <3>1 DEF Bajada
  <2>2. CASE k # Lugar(d)
    <3>1. lista'[k] = lista[k]
      BY <2>2 DEF TypeOK
    <3>2. k \in Pasadas(d + 1) <=> k \in Pasadas(d)
      BY <1>2, <2>2
    <3> QED
      BY <3>1, <3>2 DEF Bajadas
  <2> QED
    BY <2>1, <2>2
<1> QED
  BY <1>4, Mismas DEF Bajadas

\* How a loop that finds its page ends.
LEMMA Termina ==
  ASSUME UNCHANGED <<algoritmo, lista0, puntero0>>, NEW d, NEW hasta, NEW final,
         (IF algoritmo = "CLOCK" THEN clock_comun(lista0, puntero0)
                                 ELSE clock_mejorado(lista0, puntero0))
           = Decide(d, Pasadas(hasta), final),
         victima' = Lugar(d), puntero' = final,
         DOMAIN lista' = 0..(Largo - 1), Bajadas(hasta)'
  PROVE  Coincide'
<1>1. \A k \in 0..(Largo - 1) :
        lista'[k] = IF k \in Pasadas(hasta) THEN [lista0[k] EXCEPT !.bit_uso = 0] ELSE lista0[k]
  BY Mismas DEF Bajadas, Bajada
<1> QED
  BY <1>1 DEF Coincide, Decide

\* The loop of clock_comun.
LEMMA PasoComun ==
  ASSUME TypeOK, Vueltas, IterarComun
  PROVE  TypeOK' /\ Vueltas'
<1>0. /\ vuelta = "comun" /\ algoritmo = "CLOCK" /\ UNCHANGED <<algoritmo, lista0, puntero0, i>>
      /\ Largo \in Nat \ {0} /\ DOMAIN lista = 0..(Largo - 1)
  BY DEF IterarComun, Vueltas, Comun, TypeOK
<1>1. PICK d \in 0..Largo : puntero = Lugar(d) /\ ConUso(d) /\ Bajadas(d)
  BY <1>0 DEF Vueltas, Comun
<1>2. Lugar(d) \in 0..(Largo - 1) /\ lista[puntero] \in Paginas
  BY <1>1, Vuelta DEF TypeOK
<1>3. CASE lista[puntero].bit_uso = 0
  <2>1. /\ victima' = puntero /\ puntero' = puntero + 1 /\ vuelta' = "fin" /\ lista' = lista
    BY <1>3 DEF IterarComun
  <2>2. d < Largo => lista0[Lugar(d)].bit_uso = 0
    BY <1>1, <1>2, <1>3, AunNoPasada DEF Bajadas
  <2>3. clock_comun(lista0, puntero0) = Decide(d, Pasadas(d), Lugar(d) + 1)
    BY <1>1, <2>2, DecideComun
  <2>4. Coincide'
    BY <1>0, <1>1, <2>1, <2>3, MismosBits, Termina
  <2>5. TypeOK'
    BY <1>0, <1>1, <1>2, <2>1, Mismas DEF TypeOK
  <2> QED
    BY <2>1, <2>4, <2>5 DEF Vueltas, Comun, Buscar00, BuscarUso0
<1>4. CASE lista[puntero].bit_uso = 1
  <2>1. /\ lista' = [lista EXCEPT ![puntero].bit_uso = 0] /\ puntero' = ConVuelta(puntero + 1)
        /\ vuelta' = vuelta
    BY <1>4 DEF IterarComun
  <2>2. d < Largo
    <3>1. ASSUME d = Largo PROVE FALSE
      <4>1. lista[Lugar(d)] = Bajada(Lugar(d))
        BY <1>1, <1>2, <3>1, AunNoPasada DEF Bajadas
      <4>2. lista0[Lugar(d)] \in Paginas
        BY <1>2 DEF TypeOK
      <4> QED
        BY <1>1, <1>4, <4>1, <4>2 DEF Bajada, Paginas
    <3> QED
      BY <1>0, <3>1
  <2>3. lista[Lugar(d)] = lista0[Lugar(d)]
    BY <1>2, <1>1, <2>2, AunNoPasada DEF Bajadas
  <2>4. ConUso(d + 1)
    BY <1>0, <1>1, <1>4, <2>3 DEF ConUso
  <2>5. puntero' = Lugar(d + 1) /\ d \in 0..(Largo - 1) /\ d + 1 \in 0..Largo
    <3>1. d \in 0..(Largo - 1) /\ d + 1 \in 0..Largo
      BY <1>0, <2>2
    <3>2. ConVuelta(Lugar(d) + 1) = Lugar(d + 1)
      BY <3>1, Vuelta
    <3> QED
      BY <1>1, <2>1, <3>1, <3>2
  <2>6. Bajadas(d + 1)'
    BY <1>0, <1>1, <2>1, <2>5, UnaMas
  <2>7. TypeOK'
    <3>1. Lugar(d + 1) \in 0..(Largo - 1)
      BY <2>5, Vuelta
    <3>2. lista' \in [0..(Largo - 1) -> Paginas]
      BY <1>0, <1>1, <1>2, <2>1 DEF TypeOK, Paginas
    <3> QED
      BY <1>0, <2>1, <2>5, <3>1, <3>2, Mismas DEF TypeOK
  <2>8. Comun'
    <3>1. /\ d + 1 \in 0..Largo' /\ puntero' = Lugar(d + 1)'
          /\ ConUso(d + 1)' /\ Bajadas(d + 1)'
      BY <1>0, <2>4, <2>5, <2>6, Mismas
    <3>2. algoritmo' = "CLOCK"
      BY <1>0
    <3> QED
      BY <3>1, <3>2 DEF Comun
  <2> QED
    BY <1>0, <2>1, <2>7, <2>8 DEF Vueltas, Buscar00, BuscarUso0, Coincide
<1> QED
  BY <1>2, <1>3, <1>4 DEF Paginas

\* The first loop of clock_mejorado, the first time and the second.
LEMMA PasoBuscar00 ==
  ASSUME TypeOK, Vueltas, IterarBuscar00
  PROVE  TypeOK' /\ Vueltas'
<1>0. /\ vuelta = "buscar_0_0" /\ algoritmo = "CLOCK-M" /\ puntero = Lugar(i)
      /\ UNCHANGED <<algoritmo, lista0, puntero0, lista>>
      /\ Largo \in Nat \ {0} /\ DOMAIN lista = 0..(Largo - 1)
      /\ victima' = puntero /\ puntero' = ConVuelta(puntero + 1) /\ i' = i + 1
  BY DEF IterarBuscar00, Vueltas, Buscar00, TypeOK
<1>1. i \in 0..(Largo - 1) /\ i + 1 \in 0..Largo
  BY <1>0, LargoDe DEF IterarBuscar00, TypeOK
<1>2. /\ Lugar(i) \in 0..(Largo - 1) /\ Lugar(i + 1) \in 0..(Largo - 1)
      /\ puntero' = Lugar(i + 1) /\ lista0[Lugar(i)] \in Paginas
  BY <1>0, <1>1, Vuelta DEF TypeOK
<1>3. TypeOK'
  BY <1>0, <1>1, <1>2, Mismas DEF TypeOK, IterarBuscar00
<1>4. CASE Bajadas(0) /\ Sin00(i)
  <2>1. lista[puntero] = lista0[Lugar(i)]
    BY <1>0, <1>1, <1>2, <1>4, AunNoPasada DEF Bajadas
  <2>2. CASE lista[puntero].bit_uso = 0 /\ lista[puntero].bit_modificacion = 0
    <3>1. clock_mejorado(lista0, puntero0) = Decide(i, Pasadas(0), Lugar(i + 1))
      BY <1>1, <1>4, <2>1, <2>2, Decide00
    <3>2. Coincide' /\ vuelta' = "fin"
      BY <1>0, <1>2, <1>4, <2>2, <3>1, MismosBits, Termina DEF IterarBuscar00
    <3> QED
      BY <1>3, <3>2 DEF Vueltas, Comun, Buscar00, BuscarUso0
  <2>3. CASE ~(lista[puntero].bit_uso = 0 /\ lista[puntero].bit_modificacion = 0)
    <3>1. vuelta' = "buscar_0_0"
      BY <1>0, <2>3 DEF IterarBuscar00
    <3>2. Sin00(i + 1)
      BY <1>1, <1>2, <1>4, <2>1, <2>3 DEF Sin00, Paginas
    <3>3. Buscar00'
      BY <1>0, <1>1, <1>2, <1>4, <3>2, Mismas, MismosBits DEF Buscar00
    <3> QED
      BY <1>3, <3>1, <3>3 DEF Vueltas, Comun, BuscarUso0, Coincide
  <2> QED
    BY <2>2, <2>3
<1>5. CASE Bajadas(Largo) /\ ConUso(Largo) /\ ConModificacion(i)
  <2>1. lista[puntero] = Bajada(Lugar(i))
    BY <1>0, <1>1, <1>2, <1>5, AunNoPasada DEF Bajadas
  <2>2. /\ lista[puntero].bit_uso = 0
        /\ lista[puntero].bit_modificacion = lista0[Lugar(i)].bit_modificacion
    BY <1>2, <2>1 DEF Bajada, Paginas
  <2>3. CASE lista[puntero].bit_modificacion = 0
    <3>1. clock_mejorado(lista0, puntero0) = Decide(i, Pasadas(Largo), Lugar(i + 1))
      <4>1. i \in 0..Largo /\ (i < Largo => lista0[Lugar(i)].bit_modificacion = 0)
        BY <1>0, <1>1, <2>2, <2>3
      <4> QED
        BY <1>5, <4>1, DecideTodas
    <3>2. Coincide' /\ vuelta' = "fin"
      BY <1>0, <1>2, <1>5, <2>2, <2>3, <3>1, Mismas, MismosBits, Termina DEF IterarBuscar00
    <3> QED
      BY <1>3, <3>2 DEF Vueltas, Comun, Buscar00, BuscarUso0
  <2>4. CASE lista[puntero].bit_modificacion # 0
    <3>1. vuelta' = "buscar_0_0"
      BY <1>0, <2>4 DEF IterarBuscar00
    <3>2. ConModificacion(i + 1)
      BY <1>1, <1>2, <1>5, <2>2, <2>4 DEF ConModificacion, Paginas
    <3>3. Buscar00'
      BY <1>0, <1>1, <1>2, <1>5, <3>2, Mismas, MismosBits DEF Buscar00
    <3> QED
      BY <1>3, <3>1, <3>3 DEF Vueltas, Comun, BuscarUso0, Coincide
  <2> QED
    BY <2>3, <2>4
<1> QED
  BY <1>0, <1>4, <1>5 DEF Vueltas, Buscar00

\* The second loop.
LEMMA PasoBuscarUso0 ==
  ASSUME TypeOK, Vueltas, IterarBuscarUso0
  PROVE  TypeOK' /\ Vueltas'
<1>0. /\ vuelta = "buscar_uso_0" /\ algoritmo = "CLOCK-M" /\ puntero = Lugar(i)
      /\ UNCHANGED <<algoritmo, lista0, puntero0>>
      /\ Largo \in Nat \ {0} /\ DOMAIN lista = 0..(Largo - 1)
      /\ victima' = puntero /\ puntero' = ConVuelta(puntero + 1) /\ i' = i + 1
  BY DEF IterarBuscarUso0, Vueltas, BuscarUso0, TypeOK
<1>1. i \in 0..(Largo - 1) /\ i + 1 \in 0..Largo
  BY <1>0, LargoDe DEF IterarBuscarUso0, TypeOK
<1>2. /\ Lugar(i) \in 0..(Largo - 1) /\ Lugar(i + 1) \in 0..(Largo - 1)
      /\ puntero' = Lugar(i + 1) /\ lista0[Lugar(i)] \in Paginas
  BY <1>0, <1>1, Vuelta DEF TypeOK
<1>3. TypeOK'
  <2>1. lista' \in [0..(Largo - 1) -> Paginas] /\ vuelta' \in {"buscar_uso_0", "fin"}
    <3>1. CASE UNCHANGED lista
      BY <3>1 DEF IterarBuscarUso0, TypeOK
    <3>2. CASE lista' = [lista EXCEPT ![puntero].bit_uso = 0] /\ UNCHANGED vuelta
      <4>1. lista[puntero] \in Paginas
        BY <1>0, <1>2 DEF TypeOK
      <4>2. [lista[puntero] EXCEPT !.bit_uso = 0] \in Paginas
        BY <4>1 DEF Paginas
      <4> QED
        BY <1>0, <3>2, <4>2 DEF TypeOK
    <3> QED
      BY <1>0, <3>1, <3>2 DEF IterarBuscarUso0, TypeOK
  <2> QED
    BY <1>0, <1>1, <1>2, <2>1, Mismas DEF TypeOK
<1>4. CASE Bajadas(i) /\ Sin00(Largo) /\ ConUso(i)
  <2>1. lista[puntero] = lista0[Lugar(i)]
    BY <1>0, <1>1, <1>2, <1>4, AunNoPasada DEF Bajadas
  <2>2. CASE lista[puntero].bit_uso = 0
    <3>1. clock_mejorado(lista0, puntero0) = Decide(i, Pasadas(i), Lugar(i + 1))
      BY <1>1, <1>4, <2>1, <2>2, DecideUso0
    <3>2. vuelta' = "fin" /\ lista' = lista
      BY <2>2 DEF IterarBuscarUso0
    <3>3. Coincide'
      BY <1>0, <1>2, <1>4, <3>1, <3>2, MismosBits, Termina
    <3> QED
      BY <1>3, <3>2, <3>3 DEF Vueltas, Comun, Buscar00, BuscarUso0
  <2>3. CASE lista[puntero].bit_uso # 0
    <3>1. /\ lista[puntero].bit_uso = 1 /\ vuelta' = "buscar_uso_0"
          /\ lista' = [lista EXCEPT ![puntero].bit_uso = 0]
      BY <1>0, <2>3 DEF IterarBuscarUso0
    <3>2. ConUso(i + 1)
      BY <1>1, <1>4, <2>1, <3>1 DEF ConUso
    <3>3. PICK d \in 0..(Largo - 1) : d = i
      BY <1>1
    <3>4. Bajadas(d + 1)'
      BY <1>0, <1>4, <3>1, <3>3, UnaMas
    <3>5. i' = d + 1 /\ ConUso(d + 1)' /\ puntero' = Lugar(d + 1)'
      BY <1>0, <1>2, <3>2, <3>3, Mismas
    <3>6. Sin00(Largo)'
      BY <1>0, <1>4, Mismas
    <3>7. BuscarUso0'
      BY <1>0, <3>4, <3>5, <3>6 DEF BuscarUso0
    <3> QED
      BY <1>3, <3>1, <3>7 DEF Vueltas, Comun, Buscar00, Coincide
  <2> QED
    BY <2>2, <2>3
<1>5. CASE i = 0 /\ Bajadas(Largo) /\ ConUso(Largo) /\ ConModificacion(Largo)
  <2>1. lista[puntero] = Bajada(Lugar(i)) /\ Lugar(i) = Lugar(Largo)
    BY <1>0, <1>1, <1>2, <1>5, AunNoPasada, Vuelta DEF Bajadas
  <2>2. lista[puntero].bit_uso = 0
    BY <1>2, <2>1 DEF Bajada, Paginas
  <2>3. vuelta' = "fin" /\ lista' = lista
    BY <2>2 DEF IterarBuscarUso0
  <2>4. clock_mejorado(lista0, puntero0) = Decide(Largo, Pasadas(Largo), Lugar(Largo + 1))
    BY <1>0, <1>5, DecideTodas
  <2>5. puntero' = Lugar(Largo + 1)
    BY <1>0, <2>1, Vuelta
  <2>6. Coincide'
    BY <1>0, <1>5, <2>1, <2>3, <2>4, <2>5, MismosBits, Termina
  <2> QED
    BY <1>3, <2>3, <2>6 DEF Vueltas, Comun, Buscar00, BuscarUso0
<1> QED
  BY <1>0, <1>4, <1>5 DEF Vueltas, BuscarUso0

\* From one loop to the other.
LEMMA PasoOtraVuelta ==
  ASSUME TypeOK, Vueltas, OtraVuelta
  PROVE  TypeOK' /\ Vueltas'
<1>0. /\ algoritmo = "CLOCK-M" /\ puntero = Lugar(i) /\ i' = 0
      /\ UNCHANGED <<algoritmo, lista0, puntero0, lista, puntero, victima>>
      /\ Largo \in Nat \ {0} /\ vuelta \in {"buscar_0_0", "buscar_uso_0"}
      /\ vuelta' = IF vuelta = "buscar_0_0" THEN "buscar_uso_0" ELSE "buscar_0_0"
  BY DEF OtraVuelta, Vueltas, Buscar00, BuscarUso0, TypeOK
<1>1. i = Largo
  BY <1>0, LargoDe DEF OtraVuelta, TypeOK
<1>2. puntero' = Lugar(0) /\ 0 \in 0..Largo
  BY <1>0, <1>1, Vuelta
<1>3. TypeOK'
  BY <1>0, <1>2, Mismas DEF TypeOK
<1>4. ConUso(0) /\ ConModificacion(0) /\ Sin00(0)
  BY DEF ConUso, ConModificacion, Sin00
<1>5. CASE vuelta = "buscar_0_0"
  <2>1. \/ Bajadas(0) /\ Sin00(Largo)
        \/ Bajadas(Largo) /\ ConUso(Largo) /\ ConModificacion(Largo)
    BY <1>1, <1>5 DEF Vueltas, Buscar00
  <2>2. BuscarUso0'
    BY <1>0, <1>2, <1>4, <2>1, Mismas, MismosBits DEF BuscarUso0
  <2> QED
    BY <1>0, <1>3, <1>5, <2>2 DEF Vueltas, Comun, Buscar00, Coincide
<1>6. CASE vuelta = "buscar_uso_0"
  <2>1. Bajadas(Largo) /\ ConUso(Largo)
    BY <1>0, <1>1, <1>6 DEF Vueltas, BuscarUso0
  <2>2. Buscar00'
    BY <1>0, <1>2, <1>4, <2>1, Mismas, MismosBits DEF Buscar00
  <2> QED
    BY <1>0, <1>3, <1>6, <2>2 DEF Vueltas, Comun, BuscarUso0, Coincide
<1> QED
  BY <1>0, <1>5, <1>6

-----------------------------------------------------------------------------
\* The decision of the loops

\* The loops of both algorithms keep their invariant.
THEOREM VueltasCorrectas == Spec => [](TypeOK /\ Vueltas)
<1>1. Init => TypeOK /\ Vueltas
  <2> SUFFICES ASSUME Init PROVE TypeOK /\ Vueltas
    OBVIOUS
  <2>1. PICK n \in 1..MaxMarcos : /\ lista0 \in [0..(n - 1) -> Paginas]
                                  /\ puntero0 \in 0..(n - 1)
    BY DEF Init, Paginas
  <2>2. n \in Nat \ {0} /\ Largo = n
    BY <2>1, LargoDe, MaxMarcosAssumption DEF MaxMarcosAssumption, Largo
  <2>3. TypeOK
    BY <2>1, <2>2 DEF Init, TypeOK
  <2>4. puntero = Lugar(0) /\ 0 \in 0..Largo
    BY <2>2, <2>3, Vuelta DEF Init
  <2>5. Bajadas(0) /\ ConUso(0) /\ Sin00(0)
    BY <2>2 DEF Init, Bajadas, Pasadas, ConUso, Sin00
  <2> QED
    BY <2>3, <2>4, <2>5 DEF Init, Vueltas, Comun, Buscar00, BuscarUso0, Coincide
<1>2. TypeOK /\ Vueltas /\ [Next]_vars => (TypeOK /\ Vueltas)'
  <2> SUFFICES ASSUME TypeOK, Vueltas, [Next]_vars PROVE TypeOK' /\ Vueltas'
    OBVIOUS
  <2>1. CASE UNCHANGED vars
    <3>1. UNCHANGED <<lista0, puntero0, lista>>
      BY <2>1 DEF vars
    <3>2. TypeOK'
      BY <2>1, <3>1, Mismas DEF vars, TypeOK
    <3>3. Comun' /\ Buscar00' /\ BuscarUso0'
      BY <2>1, <3>1, Mismas, MismosBits DEF vars, Vueltas, Comun, Buscar00, BuscarUso0
    <3>4. Coincide'
      BY <2>1 DEF vars, Vueltas, Coincide
    <3> QED
      BY <3>2, <3>3, <3>4 DEF Vueltas
  <2> QED
    BY <2>1, PasoComun, PasoBuscar00, PasoBuscarUso0, PasoOtraVuelta DEF Next
<1> QED
  BY <1>1, <1>2, PTL DEF Spec

\* Whatever the pages present, their bits and the place of the hand, when a loop of
\* hilo_cpu.c ends it has chosen the victim, cleared the bits and left the hand that the
\* one step of Clock, on which Paginacion rests, gives.
THEOREM UnaSolaDecision == Spec => []Coincide
<1>1. Vueltas => Coincide
  BY DEF Vueltas
<1> QED
  BY <1>1, VueltasCorrectas, PTL
=============================================================================
