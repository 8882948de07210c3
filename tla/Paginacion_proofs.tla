------------------------- MODULE Paginacion_proofs -------------------------
(***************************************************************************)
(* Theorems about Paginacion, for every set of processes, every size of    *)
(* the memory, the tables and the TLB, and both replacement algorithms.    *)
(***************************************************************************)
EXTENDS Paginacion, FiniteSetTheorems, FunctionTheorems, TLAPS

-----------------------------------------------------------------------------
\* Numbers

\* A set of natural numbers that is not empty has a least element.
LEMMA MinNat ==
  ASSUME NEW S, S \subseteq Nat, S # {}
  PROVE  Min(S) \in S /\ \A y \in S : Min(S) <= y
<1>1. \E x \in S : \A y \in S : ~ (<<y, x>> \in OpToRel(<, Nat))
  BY NatLessThanWellFounded, WFMin, Zenon
<1>2. PICK x \in S : \A y \in S : ~ (<<y, x>> \in OpToRel(<, Nat))
  BY <1>1
<1>3. \A y \in S : ~ (y < x)
  BY <1>2 DEF OpToRel
<1>4. \A y \in S : x <= y
  BY <1>3
<1> QED
  BY <1>4 DEF Min

\* A page number splits into its two entries ...
LEMMA PosicionDe ==
  ASSUME NEW n \in TodasLasPaginas
  PROVE  Posicion(n) \in Posiciones /\ calcular_num_pagina(Posicion(n)) = n
  BY MemoriaAssumption
     DEF MemoriaAssumption, Posicion, Posiciones, Entradas, calcular_num_pagina, TodasLasPaginas

\* ... and the two entries give the number back.
LEMMA NumeroDe ==
  ASSUME NEW pos \in Posiciones
  PROVE  calcular_num_pagina(pos) \in TodasLasPaginas /\ Posicion(calcular_num_pagina(pos)) = pos
<1> DEFINE E == ENTRADAS_POR_TABLA
           a == pos[1]
           b == pos[2]
<1>1. /\ E \in Nat \ {0} /\ a \in 0..(E - 1) /\ b \in 0..(E - 1) /\ pos = <<a, b>>
      /\ a \in Nat /\ b \in Nat
  BY MemoriaAssumption DEF MemoriaAssumption, Posiciones, Entradas
<1> HIDE DEF E, a, b
<1>2. (a * E + b) \div E = a /\ (a * E + b) % E = b
  BY <1>1
<1>3. a * E + b \in 0..(E * E - 1)
  <2>1. a * E <= (E - 1) * E
    BY <1>1
  <2>2. (E - 1) * E = E * E - E
    BY <1>1
  <2>3. a * E \in Nat
    BY <1>1
  <2>4. E * E \in Nat
    BY <1>1
  <2> QED
    BY <1>1, <2>1, <2>2, <2>3, <2>4
<1> QED
  BY <1>1, <1>2, <1>3 DEF E, a, b, Posicion, calcular_num_pagina, TodasLasPaginas

\* The numbers of two pages are different.
LEMMA NumerosDistintos ==
  ASSUME NEW a \in Posiciones, NEW b \in Posiciones,
         calcular_num_pagina(a) = calcular_num_pagina(b)
  PROVE  a = b
  BY NumeroDe

\* The pages of a process are in its tables.
LEMMA PaginasEnTabla ==
  ASSUME NEW p \in Procesos, NEW n \in Paginas(p)
  PROVE  n \in TodasLasPaginas /\ n \in Nat /\ Posicion(n) \in Posiciones
<1>1. CantidadDePaginas[p] \in 1..(ENTRADAS_POR_TABLA * ENTRADAS_POR_TABLA)
  BY MemoriaAssumption DEF MemoriaAssumption
<1>2. ENTRADAS_POR_TABLA * ENTRADAS_POR_TABLA \in Nat
  BY MemoriaAssumption DEF MemoriaAssumption
<1>3. n \in TodasLasPaginas /\ n \in Nat
  BY <1>1, <1>2 DEF Paginas, TodasLasPaginas
<1> QED
  BY <1>3, PosicionDe

-----------------------------------------------------------------------------
\* The list of present pages and the clocks

\* Memory and the tables are finite, so there is a number of pages present.
LEMMA Finitas ==
  /\ IsFiniteSet(Posiciones) /\ IsFiniteSet(Marcos)
  /\ \A p : IsFiniteSet(Presentes(p)) /\ Tam(p) \in Nat /\ (Tam(p) = 0 <=> Presentes(p) = {})
<1>1. IsFiniteSet(Entradas) /\ IsFiniteSet(Marcos)
  BY MemoriaAssumption, FS_Interval DEF MemoriaAssumption, Entradas, Marcos
<1>2. IsFiniteSet(Posiciones)
  BY <1>1, FS_Product DEF Posiciones
<1>3. ASSUME NEW p
      PROVE  IsFiniteSet(Presentes(p)) /\ Tam(p) \in Nat /\ (Tam(p) = 0 <=> Presentes(p) = {})
  <2>1. Presentes(p) \in SUBSET Posiciones
    BY DEF Presentes
  <2>2. IsFiniteSet(Presentes(p))
    BY <1>2, <2>1, FS_Subset
  <2> QED
    BY <2>2, FS_CardinalityType, FS_EmptySet DEF Tam
<1> QED
  BY <1>1, <1>2, <1>3

\* Pages of p in smaller frames than that of pos: its place in the sorted list.
Menores(p, pos) == {q \in Presentes(p) : Marco(p, q) < Marco(p, pos)}

\* The places of the present pages are 0, 1, ..., each of them once.
LEMMA EnListaPresente ==
  ASSUME MemoriaTypeOK, NEW p \in Procesos,
         \A a, b \in Presentes(p) : Marco(p, a) = Marco(p, b) => a = b
  PROVE  /\ \A pos \in Presentes(p) : Cardinality(Menores(p, pos)) \in 0..(Tam(p) - 1)
         /\ \A a, b \in Presentes(p) :
              Cardinality(Menores(p, a)) = Cardinality(Menores(p, b)) => a = b
         /\ \A k \in 0..(Tam(p) - 1) :
              /\ EnLista(p, k) \in Presentes(p)
              /\ Cardinality(Menores(p, EnLista(p, k))) = k
<1> DEFINE S == Presentes(p)
           T == 0..(Tam(p) - 1)
           f == [pos \in S |-> Cardinality(Menores(p, pos))]
<1>1. IsFiniteSet(S) /\ Tam(p) \in Nat /\ Tam(p) = Cardinality(S)
  BY Finitas DEF Tam
<1>2. \A pos \in S : Marco(p, pos) \in Nat
  BY DEF MemoriaTypeOK, Presentes, Marco, Pagina, Marcos
<1>3. ASSUME NEW pos \in S
      PROVE  Cardinality(Menores(p, pos)) \in T /\ IsFiniteSet(Menores(p, pos))
  <2>1. Menores(p, pos) \in SUBSET S /\ pos \notin Menores(p, pos)
    BY <1>2 DEF Menores
  <2>2. /\ IsFiniteSet(Menores(p, pos)) /\ Cardinality(Menores(p, pos)) \in Nat
        /\ Cardinality(Menores(p, pos)) <= Tam(p) /\ Cardinality(Menores(p, pos)) # Tam(p)
    BY <1>1, <2>1, FS_Subset, FS_CardinalityType
  <2> QED
    BY <1>1, <2>2
<1>4. ASSUME NEW a \in S, NEW b \in S, Marco(p, a) < Marco(p, b)
      PROVE  Cardinality(Menores(p, a)) # Cardinality(Menores(p, b))
  <2>1. Menores(p, a) \in SUBSET Menores(p, b)
    BY <1>2, <1>4 DEF Menores
  <2>2. a \in Menores(p, b) /\ a \notin Menores(p, a)
    BY <1>2, <1>4 DEF Menores
  <2> QED
    BY <1>3, <2>1, <2>2, FS_Subset
<1>5. \A a, b \in S : Cardinality(Menores(p, a)) = Cardinality(Menores(p, b)) => a = b
  <2> SUFFICES ASSUME NEW a \in S, NEW b \in S, a # b
               PROVE  Cardinality(Menores(p, a)) # Cardinality(Menores(p, b))
    OBVIOUS
  <2>1. Marco(p, a) < Marco(p, b) \/ Marco(p, b) < Marco(p, a)
    BY <1>2
  <2> QED
    BY <1>4, <2>1
<1>6. f \in [S -> T]
  BY <1>3
<1>7. f \in Injection(S, T)
  BY <1>5, <1>6, Fun_IsInj
<1>8. IsFiniteSet(T) /\ Cardinality(T) = Tam(p)
  <2>1. 0 \in Int /\ Tam(p) - 1 \in Int
    BY <1>1
  <2>2. /\ IsFiniteSet(T)
        /\ Cardinality(T) = IF 0 > Tam(p) - 1 THEN 0 ELSE (Tam(p) - 1) - 0 + 1
    BY <2>1, FS_Interval, Zenon
  <2> QED
    BY <1>1, <2>2
<1>9. f \in Surjection(S, T)
  BY <1>1, <1>7, <1>8, FS_Injection
<1>10. ASSUME NEW k \in T
       PROVE  EnLista(p, k) \in S /\ Cardinality(Menores(p, EnLista(p, k))) = k
  <2>1. \E pos \in S : f[pos] = k
    <3> HIDE DEF f, S, T
    <3>1. \A t \in T : \E s \in S : f[s] = t
      BY <1>9, Fun_SurjectionProperties
    <3> QED
      BY <3>1, <1>10
  <2>2. \E pos \in S : Cardinality(Menores(p, pos)) = k
    BY <2>1
  <2> QED
    BY <2>2 DEF EnLista, Menores
<1> QED
  BY <1>3, <1>5, <1>10

\* The hand stays on the list, and one of its pages is chosen.
LEMMA ClockDecide ==
  ASSUME NEW n \in Nat \ {0}, NEW lista, DOMAIN lista = 0..(n - 1), NEW puntero \in Nat
  PROVE  /\ clock_comun(lista, puntero).victima \in 0..(n - 1)
         /\ clock_comun(lista, puntero).puntero \in 1..n
         /\ clock_mejorado(lista, puntero).victima \in 0..(n - 1)
         /\ clock_mejorado(lista, puntero).puntero \in 0..(n - 1)
<1>1. Tamanio(lista) = n
  <2>1. 0 \in Int /\ n - 1 \in Int
    OBVIOUS
  <2>2. Cardinality(0..(n - 1)) = IF 0 > n - 1 THEN 0 ELSE (n - 1) - 0 + 1
    BY <2>1, FS_Interval, Zenon
  <2> QED
    BY <2>2 DEF Tamanio
<1>2. \A d \in Nat : Visita(lista, puntero, d) \in 0..(n - 1)
  BY <1>1 DEF Visita
<1>3. SinUso(lista, puntero) \subseteq Nat /\ SinModificar(lista, puntero) \subseteq Nat
  BY DEF SinUso, SinModificar
<1>4. Min(SinUso(lista, puntero) \cup {n}) \in Nat
  <2>1. SinUso(lista, puntero) \cup {n} \subseteq Nat /\ SinUso(lista, puntero) \cup {n} # {}
    BY <1>3
  <2> QED
    BY <2>1, MinNat
<1>5. Min(SinModificar(lista, puntero) \cup {n}) \in Nat
  <2>1. /\ SinModificar(lista, puntero) \cup {n} \subseteq Nat
        /\ SinModificar(lista, puntero) \cup {n} # {}
    BY <1>3
  <2> QED
    BY <2>1, MinNat
<1>6. SinUso(lista, puntero) # {} => Min(SinUso(lista, puntero)) \in Nat
  BY <1>3, MinNat
<1>7. SinUso(lista, puntero) \cap SinModificar(lista, puntero) # {} =>
        Min(SinUso(lista, puntero) \cap SinModificar(lista, puntero)) \in Nat
  <2>1. SinUso(lista, puntero) \cap SinModificar(lista, puntero) \subseteq Nat
    BY <1>3
  <2> QED
    BY <2>1, MinNat
<1>8. /\ clock_comun(lista, puntero).victima \in 0..(n - 1)
      /\ clock_comun(lista, puntero).puntero \in 1..n
  <2> DEFINE d == Min(SinUso(lista, puntero) \cup {n})
  <2>1. clock_comun(lista, puntero).victima = Visita(lista, puntero, d)
    BY <1>1 DEF clock_comun, Decision
  <2>2. clock_comun(lista, puntero).puntero = Visita(lista, puntero, d) + 1
    BY <1>1 DEF clock_comun, Decision
  <2>3. Visita(lista, puntero, d) \in 0..(n - 1)
    BY <1>2, <1>4
  <2> QED
    BY <2>1, <2>2, <2>3
<1>9. \E d \in Nat : /\ clock_mejorado(lista, puntero).victima = Visita(lista, puntero, d)
                     /\ clock_mejorado(lista, puntero).puntero = Visita(lista, puntero, d + 1)
  <2> DEFINE uso == SinUso(lista, puntero)
             mod == SinModificar(lista, puntero)
  <2>1. CASE uso \cap mod # {}
    <3>1. /\ clock_mejorado(lista, puntero).victima = Visita(lista, puntero, Min(uso \cap mod))
          /\ clock_mejorado(lista, puntero).puntero = Visita(lista, puntero, Min(uso \cap mod) + 1)
      BY <2>1 DEF clock_mejorado, Decision
    <3> QED
      BY <1>7, <2>1, <3>1
  <2>2. CASE uso \cap mod = {} /\ uso # {}
    <3>1. /\ clock_mejorado(lista, puntero).victima = Visita(lista, puntero, Min(uso))
          /\ clock_mejorado(lista, puntero).puntero = Visita(lista, puntero, Min(uso) + 1)
      BY <2>2 DEF clock_mejorado, Decision
    <3> QED
      BY <1>6, <2>2, <3>1
  <2>3. CASE uso = {}
    <3> DEFINE m == Min(mod \cup {n})
    <3>1. /\ clock_mejorado(lista, puntero).victima = Visita(lista, puntero, m)
          /\ clock_mejorado(lista, puntero).puntero = Visita(lista, puntero, m + 1)
      BY <1>1, <2>3 DEF clock_mejorado, Decision
    <3> QED
      BY <1>5, <3>1
  <2> QED
    BY <2>1, <2>2, <2>3
<1> QED
  <2>1. PICK d \in Nat :
          /\ clock_mejorado(lista, puntero).victima = Visita(lista, puntero, d)
          /\ clock_mejorado(lista, puntero).puntero = Visita(lista, puntero, d + 1)
    BY <1>9
  <2>2. Visita(lista, puntero, d) \in 0..(n - 1) /\ Visita(lista, puntero, d + 1) \in 0..(n - 1)
    BY <1>2
  <2> QED
    BY <1>8, <2>1, <2>2

\* No two pages of p are in one frame.
Distintos(p) == \A a, b \in Presentes(p) : Marco(p, a) = Marco(p, b) => a = b

\* cargar_a_memoria takes a page of the process for its victim.
LEMMA VictimaPresente ==
  ASSUME MemoriaTypeOK, NEW p \in Procesos, Distintos(p), puntero_clock[p] < Tam(p)
  PROVE  /\ EnLista(p, elegir_pagina_a_sacar(p).victima) \in Presentes(p)
         /\ elegir_pagina_a_sacar(p).puntero \in Nat
         /\ ALGORITMO_REEMPLAZO = "CLOCK-M" => elegir_pagina_a_sacar(p).puntero \in 0..(Tam(p) - 1)
<1> DEFINE lista == PaginasEnMemoria(p)
<1>1. /\ Tam(p) \in Nat \ {0} /\ puntero_clock[p] \in Nat
  BY Finitas DEF MemoriaTypeOK
<1>2. DOMAIN lista = 0..(Tam(p) - 1)
  BY DEF PaginasEnMemoria
<1>3. /\ clock_comun(lista, puntero_clock[p]).victima \in 0..(Tam(p) - 1)
      /\ clock_comun(lista, puntero_clock[p]).puntero \in 1..Tam(p)
      /\ clock_mejorado(lista, puntero_clock[p]).victima \in 0..(Tam(p) - 1)
      /\ clock_mejorado(lista, puntero_clock[p]).puntero \in 0..(Tam(p) - 1)
  <2> HIDE DEF lista
  <2> QED
    BY <1>1, <1>2, ClockDecide
<1>4. /\ elegir_pagina_a_sacar(p).victima \in 0..(Tam(p) - 1)
      /\ elegir_pagina_a_sacar(p).puntero \in Nat
      /\ ALGORITMO_REEMPLAZO = "CLOCK-M" => elegir_pagina_a_sacar(p).puntero \in 0..(Tam(p) - 1)
  BY <1>1, <1>3 DEF elegir_pagina_a_sacar
<1> QED
  BY <1>4, EnListaPresente DEF Distintos

\* The page found again by its frame is the one that was chosen.
LEMMA VictimaEs ==
  ASSUME MemoriaTypeOK, hc.id \in Procesos, Distintos(hc.id),
         NEW pos \in Presentes(hc.id), Marco(hc.id, pos) = hc.marco
  PROVE  Victima = pos
<1>1. {q \in Presentes(hc.id) : Marco(hc.id, q) = hc.marco} = {pos}
  BY DEF Distintos
<1>2. {calcular_num_pagina(q) : q \in {q \in Presentes(hc.id) : Marco(hc.id, q) = hc.marco}}
        = {calcular_num_pagina(pos)}
  BY <1>1
<1>3. pos \in Posiciones
  BY DEF Presentes
<1>4. calcular_num_pagina(pos) \in Int
  BY <1>3, NumeroDe, MemoriaAssumption DEF TodasLasPaginas, MemoriaAssumption
<1>5. calcular_numero_de_pagina_a_reemplazar(hc.id, hc.marco) = calcular_num_pagina(pos)
  BY <1>2, <1>4 DEF calcular_numero_de_pagina_a_reemplazar
<1> QED
  BY <1>3, <1>5, NumeroDe DEF Victima

\* The loop of hilo_kernel is at one of the pages.
LEMMA EnCursoPresente ==
  ASSUME Presentes(hk.id) # {}
  PROVE  EnCurso \in Presentes(hk.id) /\ EnCurso \in Posiciones
<1> DEFINE S == {calcular_num_pagina(q) : q \in Presentes(hk.id)}
<1>1. \A q \in Presentes(hk.id) : calcular_num_pagina(q) \in Nat
  BY NumeroDe, MemoriaAssumption DEF Presentes, TodasLasPaginas, MemoriaAssumption
<1>2. S \subseteq Nat /\ S # {}
  BY <1>1
<1>3. Min(S) \in S /\ \A y \in S : Min(S) <= y
  <2> HIDE DEF S
  <2> QED
    BY <1>2, MinNat
<1>4. \E pos \in Presentes(hk.id) : \A q \in Presentes(hk.id) :
        calcular_num_pagina(pos) <= calcular_num_pagina(q)
  BY <1>3
<1>5. EnCurso \in Presentes(hk.id)
  BY <1>4 DEF EnCurso
<1> QED
  BY <1>5 DEF Presentes

\* buscar_frame_libre gives a frame that is not in use.
LEMMA MarcoLibre ==
  ASSUME MemoriaTypeOK, bitmap # Marcos
  PROVE  buscar_frame_libre \in Marcos /\ buscar_frame_libre \notin bitmap
<1>1. bitmap \subseteq Marcos
  BY DEF MemoriaTypeOK
<1>2. Marcos \ bitmap # {}
  BY <1>1, Zenon
<1>3. Marcos \subseteq Nat
  BY MemoriaAssumption DEF Marcos, MemoriaAssumption
<1>4. Marcos \ bitmap \subseteq Nat
  BY <1>3, Zenon
<1>5. buscar_frame_libre \in Marcos \ bitmap
  BY <1>2, <1>4, MinNat DEF buscar_frame_libre
<1> QED
  BY <1>5

-----------------------------------------------------------------------------
\* The orders of the TLB

\* Every entry has its turn.
LEMMA TurnoDe ==
  ASSUME NEW orden \in Ordenes, NEW l \in EntradasTLB
  PROVE  Turno(orden, l) \in EntradasTLB /\ orden[Turno(orden, l)] = l
<1>1. orden \in [EntradasTLB -> EntradasTLB]
  BY DEF Ordenes
<1>2. orden \in Injection(EntradasTLB, EntradasTLB)
  BY <1>1, Fun_IsInj DEF Ordenes
<1>3. IsFiniteSet(EntradasTLB)
  BY FS_Interval, TLBAssumption DEF EntradasTLB, TLBAssumption
<1>4. orden \in Surjection(EntradasTLB, EntradasTLB)
  BY <1>2, <1>3, FS_Injection
<1>5. \E i \in EntradasTLB : orden[i] = l
  BY <1>4, Fun_SurjectionProperties
<1> QED
  BY <1>5 DEF Turno

\* An order of the entries is one still when an entry is moved to its end.
LEMMA AlFinalOrden ==
  ASSUME NEW orden \in Ordenes, NEW l \in EntradasTLB
  PROVE  AlFinal(orden, l) \in Ordenes
<1> DEFINE t == Turno(orden, l)
           g(i) == IF i < t THEN i ELSE i + 1
<1>1. t \in EntradasTLB /\ orden[t] = l
  BY TurnoDe
<1>2. ENTRADAS_TLB \in Nat \ {0} /\ EntradasTLB = 1..ENTRADAS_TLB
  BY TLBAssumption DEF TLBAssumption, EntradasTLB
<1>3. AlFinal(orden, l) = [i \in EntradasTLB |-> IF i = ENTRADAS_TLB THEN l ELSE orden[g(i)]]
  BY DEF AlFinal
<1>4. orden \in [EntradasTLB -> EntradasTLB] /\ \A i, j \in EntradasTLB : orden[i] = orden[j] => i = j
  BY DEF Ordenes
<1> HIDE DEF t
<1>5. ASSUME NEW i \in EntradasTLB, i # ENTRADAS_TLB
      PROVE  g(i) \in EntradasTLB /\ g(i) # t
  BY <1>1, <1>2, <1>5
<1>6. ASSUME NEW i \in EntradasTLB, NEW j \in EntradasTLB,
             AlFinal(orden, l)[i] = AlFinal(orden, l)[j]
      PROVE  i = j
  <2>1. CASE i = ENTRADAS_TLB /\ j # ENTRADAS_TLB
    <3>1. orden[t] = orden[g(j)]
      BY <1>1, <1>3, <1>6, <2>1
    <3> QED
      BY <1>1, <1>4, <1>5, <2>1, <3>1
  <2>2. CASE i # ENTRADAS_TLB /\ j = ENTRADAS_TLB
    <3>1. orden[t] = orden[g(i)]
      BY <1>1, <1>3, <1>6, <2>2
    <3> QED
      BY <1>1, <1>4, <1>5, <2>2, <3>1
  <2>3. CASE i # ENTRADAS_TLB /\ j # ENTRADAS_TLB
    <3>1. orden[g(i)] = orden[g(j)]
      BY <1>3, <1>6, <2>3
    <3>2. g(i) = g(j)
      BY <1>4, <1>5, <2>3, <3>1
    <3> QED
      BY <1>1, <1>2, <3>2
  <2> QED
    BY <2>1, <2>2, <2>3
<1>7. AlFinal(orden, l) \in [EntradasTLB -> EntradasTLB]
  BY <1>3, <1>4, <1>5
<1> QED
  BY <1>6, <1>7 DEF Ordenes

\* The entry that the TLB gives up is one of its own.
LEMMA ReemplazarTLB ==
  ASSUME TLBTypeOK
  PROVE  elegir_pagina_a_reemplazar_TLB \in EntradasTLB
<1>1. 1 \in EntradasTLB
  BY TLBAssumption DEF TLBAssumption, EntradasTLB
<1> QED
  BY <1>1 DEF elegir_pagina_a_reemplazar_TLB, TLBTypeOK, Ordenes

\* The entry a search finds is one of the page.
LEMMA EncontrarPagina ==
  ASSUME NEW n, EstaEnTLB(n)
  PROVE  /\ encontrar_pagina(n) \in EntradasTLB
         /\ lista_tlb[encontrar_pagina(n)].pagina = n
<1>1. {l \in EntradasTLB : lista_tlb[l].pagina = n} \subseteq Nat
  BY DEF EntradasTLB
<1>2. {l \in EntradasTLB : lista_tlb[l].pagina = n} # {}
  BY DEF EstaEnTLB
<1> QED
  BY <1>1, <1>2, MinNat DEF encontrar_pagina

-----------------------------------------------------------------------------
\* Type correctness

\* The entry of a page keeps its type when its bits change.
LEMMA PaginaConBits ==
  ASSUME NEW e \in Pagina
  PROVE  /\ [e EXCEPT !.bit_modificacion = 0] \in Pagina
         /\ [e EXCEPT !.bit_presencia = 0] \in Pagina
         /\ [e EXCEPT !.bit_uso = 0] \in Pagina
         /\ [e EXCEPT !.bit_uso = 1] \in Pagina
         /\ [e EXCEPT !.bit_uso = 1, !.bit_modificacion = 1] \in Pagina
<1>1. [e EXCEPT !.bit_modificacion = 0] \in Pagina
  BY DEF Pagina
<1>2. [e EXCEPT !.bit_presencia = 0] \in Pagina
  BY DEF Pagina
<1>3. [e EXCEPT !.bit_uso = 0] \in Pagina
  BY DEF Pagina
<1>4. [e EXCEPT !.bit_uso = 1] \in Pagina
  BY DEF Pagina
<1>5. [e EXCEPT !.bit_uso = 1, !.bit_modificacion = 1] \in Pagina
  <2>1. \A r \in Pagina : [r EXCEPT !.bit_modificacion = 1] \in Pagina
    BY DEF Pagina
  <2> QED
    BY <1>4, <2>1
<1> QED
  BY <1>1, <1>2, <1>3, <1>4, <1>5

\* New tables have their type.
LEMMA TablaNuevaTipo ==
  ASSUME NEW bits \in [Posiciones -> 0..2]
  PROVE  TablaNueva(bits) \in [Posiciones -> Pagina]
<1>1. 0 \in Marcos
  BY MemoriaAssumption DEF MemoriaAssumption, Marcos
<1> QED
  BY <1>1 DEF TablaNueva, Pagina

\* The tables that do not exist have the type of those that do.
LEMMA SinTablaTipo == SinTabla \in [Posiciones -> Pagina]
<1>1. [pos \in Posiciones |-> 0] \in [Posiciones -> 0..2]
  OBVIOUS
<1> QED
  BY <1>1, TablaNuevaTipo DEF SinTabla

\* A page loaded in the frame of hc.
LEMMA CargadaTipo ==
  ASSUME NEW t \in [Posiciones -> Pagina], hc.pos \in Posiciones, hc.marco \in Marcos
  PROVE  Cargada(t) \in [Posiciones -> Pagina]
  BY DEF Cargada, Pagina

\* ... and where it is then.
LEMMA CargadaEs ==
  ASSUME NEW t \in [Posiciones -> Pagina], hc.pos \in Posiciones, NEW q \in Posiciones
  PROVE  /\ Cargada(t)[q].bit_presencia = IF q = hc.pos THEN 1 ELSE t[q].bit_presencia
         /\ Cargada(t)[q].numero_frame = IF q = hc.pos THEN hc.marco ELSE t[q].numero_frame
         /\ Cargada(t)[q].bit_modificacion = t[q].bit_modificacion
<1>1. t[q] \in Pagina
  OBVIOUS
<1>2. CASE q # hc.pos
  BY <1>2 DEF Cargada
<1>3. CASE q = hc.pos
  BY <1>1, <1>3 DEF Cargada, Pagina
<1> QED
  BY <1>2, <1>3

\* Memory, the TLB and the CPU start with their types.
LEMMA InitTypeOK == Init => TypeOK
<1> SUFFICES ASSUME Init PROVE TypeOK
  OBVIOUS
<1>1. MemoriaTypeOK
  <2>1. SinTabla \in [Posiciones -> Pagina]
    BY SinTablaTipo
  <2>2. CpuLibre.pos \in Posiciones /\ CpuLibre.marco \in Marcos
    BY MemoriaAssumption DEF MemoriaAssumption, CpuLibre, Atender, Posiciones, Entradas, Marcos
  <2> QED
    BY <2>1, <2>2 DEF Init, MemoriaInit, MemoriaTypeOK, HiloLibre, CpuLibre, Atender, Datos
<1>2. TLBTypeOK
  BY DEF Init, TLBInit, TLBTypeOK
<1>3. 0 \in Marcos
  BY MemoriaAssumption DEF MemoriaAssumption, Marcos
<1> QED
  BY <1>1, <1>2, <1>3 DEF Init, TLBInit, TypeOK, SinAcceso

\* A page and its process.
LEMMA Presente ==
  \A p, pos : <<p, pos>> \in PaginasPresentes <=> p \in Procesos /\ pos \in Presentes(p)
  BY DEF PaginasPresentes

\* What MarcosExclusivos says of the pages of one process.
LEMMA ExclusivosDistintos ==
  ASSUME MarcosExclusivos, NEW p \in Procesos
  PROVE  Distintos(p)
<1> SUFFICES ASSUME NEW a \in Presentes(p), NEW b \in Presentes(p), Marco(p, a) = Marco(p, b)
             PROVE  a = b
  BY DEF Distintos
<1>1. <<p, a>> \in PaginasPresentes /\ <<p, b>> \in PaginasPresentes
  BY Presente
<1>2. <<p, a>> = <<p, b>>
  BY <1>1 DEF MarcosExclusivos
<1> QED
  BY <1>2

\* What the CPU needs of the TLB: its entries are of pages and of frames.
TiposCpu ==
  /\ TLBTypeOK
  /\ \A l \in EntradasTLB : lista_tlb[l] # Vacia => lista_tlb[l].marco \in Marcos
  /\ en_cpu \in Procesos \cup {NULO}
  /\ acceso \in [en: {"libre", "pedido", "con_marco"}, pagina: Nat, marco: Marcos]
  /\ resultado = NULO \/ resultado \in [id: Procesos, pagina: Nat, valor: Datos]

\* Steps that leave the CPU and the TLB alone keep their types, ...
LEMMA TiposCpuFijos ==
  ASSUME TiposCpu, UNCHANGED <<tlb_vars, cpu_vars>>
  PROVE  TiposCpu'
  BY DEF TiposCpu, TLBTypeOK, tlb_vars, cpu_vars

\* ... and so do those that leave memory alone.
LEMMA TiposMemoriaFijos ==
  ASSUME MemoriaTypeOK, UNCHANGED memoria_vars
  PROVE  MemoriaTypeOK'
  BY DEF MemoriaTypeOK, memoria_vars, Pagina, Marcos

\* The CPU keeps the type of its variables ...
LEMMA CpuTypeOK ==
  ASSUME TypeOK, Turnos, AccesoCpu
  PROVE  TiposCpu'
<1> USE DEF TiposCpu
<1>0. TiposCpu
  BY DEF TypeOK
<1>1. CASE \E p \in Procesos : Despachar(p)
  BY <1>0, <1>1 DEF Despachar, TLBTypeOK, tlb_vars
<1>2. CASE Devolver
  <2>1. TLBTypeOK'
    BY <1>2 DEF Devolver, limpiar_TLB, TLBTypeOK
  <2> QED
    BY <1>0, <1>2, <2>1 DEF Devolver, limpiar_TLB
<1>3. ASSUME en_cpu # NULO, NEW n \in Paginas(en_cpu), BuscarEnTLB(n)
      PROVE  TiposCpu'
  <2> DEFINE l == encontrar_pagina(n)
  <2>1. en_cpu \in Procesos
    BY <1>0, <1>3
  <2>2. n \in Nat
    BY <1>3, <2>1, PaginasEnTabla
  <2>3. l \in EntradasTLB /\ lista_tlb[l].pagina = n
    BY <1>3, EncontrarPagina DEF BuscarEnTLB
  <2>4. lista_tlb[l] # Vacia
    BY <2>2, <2>3 DEF Vacia
  <2>5. lista_tlb[l].marco \in Marcos
    BY <1>0, <2>3, <2>4
  <2>6. AlFinal(ultima_referencia, l) \in Ordenes
    BY <1>0, <2>3, AlFinalOrden DEF TLBTypeOK
  <2>7. /\ ultima_referencia' = AlFinal(ultima_referencia, l)
        /\ lista_tlb' = lista_tlb /\ primera_referencia' = primera_referencia
        /\ acceso' = [en |-> "con_marco", pagina |-> n, marco |-> lista_tlb[l].marco]
        /\ resultado' = NULO /\ en_cpu' = en_cpu
    BY <1>3 DEF BuscarEnTLB, Referenciar, Acceso
  <2> HIDE DEF l
  <2>8. acceso' \in [en: {"libre", "pedido", "con_marco"}, pagina: Nat, marco: Marcos]
    BY <2>2, <2>5, <2>7
  <2>9. TLBTypeOK'
    BY <1>0, <2>6, <2>7 DEF TLBTypeOK
  <2> QED
    BY <1>0, <2>7, <2>8, <2>9
<1>4. ASSUME en_cpu # NULO, NEW n \in Paginas(en_cpu), PedirTodoMemoria(n)
      PROVE  TiposCpu'
  <2>1. n \in Nat
    BY <1>0, <1>4, PaginasEnTabla
  <2>2. 0 \in Marcos
    BY MemoriaAssumption DEF MemoriaAssumption, Marcos
  <2> QED
    BY <1>0, <1>4, <2>1, <2>2 DEF PedirTodoMemoria, Acceso, TLBTypeOK, tlb_vars
<1>5. CASE RecibirFrame
  <2> DEFINE l == elegir_pagina_a_reemplazar_TLB
  <2>1. l \in EntradasTLB
    BY <1>0, ReemplazarTLB
  <2>2. hc.marco \in Marcos /\ hc.marco \in Nat /\ acceso.pagina \in Nat
    BY <1>0, MemoriaAssumption DEF TypeOK, MemoriaTypeOK, Marcos, MemoriaAssumption
  <2>3. /\ AlFinal(primera_referencia, l) \in Ordenes
        /\ AlFinal(ultima_referencia, l) \in Ordenes
    BY <1>0, <2>1, AlFinalOrden DEF TLBTypeOK
  <2>4. /\ lista_tlb' = [lista_tlb EXCEPT ![l] = [pagina |-> acceso.pagina, marco |-> hc.marco]]
        /\ primera_referencia' = AlFinal(primera_referencia, l)
        /\ ultima_referencia' = AlFinal(ultima_referencia, l)
        /\ acceso' = [acceso EXCEPT !.en = "con_marco", !.marco = hc.marco]
        /\ resultado' = resultado /\ en_cpu' = en_cpu
    BY <1>5 DEF RecibirFrame, guardar_en_TLB
  <2> HIDE DEF l
  <2>5. TLBTypeOK'
    BY <1>0, <2>1, <2>2, <2>3, <2>4 DEF TLBTypeOK
  <2>6. \A m \in EntradasTLB : lista_tlb'[m] # Vacia => lista_tlb'[m].marco \in Marcos
    BY <1>0, <2>1, <2>2, <2>4 DEF TLBTypeOK
  <2>7. acceso' \in [en: {"libre", "pedido", "con_marco"}, pagina: Nat, marco: Marcos]
    <3>1. \A r \in [en: {"libre", "pedido", "con_marco"}, pagina: Nat, marco: Marcos] :
            [r EXCEPT !.marco = hc.marco]
              \in [en: {"libre", "pedido", "con_marco"}, pagina: Nat, marco: Marcos]
      BY <2>2
    <3>2. [acceso EXCEPT !.en = "con_marco"]
            \in [en: {"libre", "pedido", "con_marco"}, pagina: Nat, marco: Marcos]
      BY <1>0
    <3> QED
      BY <2>4, <3>1, <3>2
  <2> QED
    BY <1>0, <2>4, <2>5, <2>6, <2>7
<1>6. CASE Leer
  <2>1. en_cpu \in Procesos
    BY <1>0, <1>6 DEF Leer, Turnos
  <2>2. memoria_real[acceso.marco] \in Datos
    BY <1>0 DEF TypeOK, MemoriaTypeOK
  <2>3. 0 \in Marcos
    BY MemoriaAssumption DEF MemoriaAssumption, Marcos
  <2> QED
    BY <1>0, <1>6, <2>1, <2>2, <2>3 DEF Leer, SinAcceso, TLBTypeOK, tlb_vars
<1>7. CASE \E v \in Valores : Escribir(v)
  <2>1. 0 \in Marcos
    BY MemoriaAssumption DEF MemoriaAssumption, Marcos
  <2> QED
    BY <1>0, <1>7, <2>1 DEF Escribir, SinAcceso, TLBTypeOK, tlb_vars
<1> QED
  BY <1>1, <1>2, <1>3, <1>4, <1>5, <1>6, <1>7 DEF AccesoCpu

\* The entry of a page is one.
LEMMA EntradaTipo ==
  ASSUME MemoriaTypeOK, NEW p \in Procesos, NEW pos \in Posiciones
  PROVE  tabla[p][pos] \in Pagina
  BY DEF MemoriaTypeOK

\* ... and memory of its own, ...
LEMMA LecturaTipo ==
  ASSUME MemoriaTypeOK, NEW p \in Procesos, NEW entrada, NEW marco, Lectura(p, entrada, marco)
  PROVE  MemoriaTypeOK'
<1>1. \A pos \in Posiciones : tabla[p][pos] \in Pagina /\ [tabla[p][pos] EXCEPT !.bit_uso = 1] \in Pagina
  BY EntradaTipo, PaginaConBits
<1>2. tabla' \in [Procesos -> [Posiciones -> Pagina]]
  BY <1>1 DEF MemoriaTypeOK, Lectura
<1> QED
  BY <1>2 DEF MemoriaTypeOK, Lectura

\* ... and write a value to a frame of it, ...
LEMMA EscrituraTipo ==
  ASSUME MemoriaTypeOK, NEW p \in Procesos, NEW entrada, NEW marco \in Marcos, NEW v \in Valores,
         Escritura(p, entrada, marco, v)
  PROVE  MemoriaTypeOK'
<1>1. \A pos \in Posiciones :
        /\ tabla[p][pos] \in Pagina
        /\ [tabla[p][pos] EXCEPT !.bit_uso = 1, !.bit_modificacion = 1] \in Pagina
  BY EntradaTipo, PaginaConBits
<1>2. tabla' \in [Procesos -> [Posiciones -> Pagina]]
  BY <1>1 DEF MemoriaTypeOK, Escritura
<1>3. memoria_real' \in [Marcos -> Datos]
  BY DEF MemoriaTypeOK, Escritura, Datos
<1> QED
  BY <1>2, <1>3 DEF MemoriaTypeOK, Escritura

\* ... which is what the CPU does to memory.
LEMMA AccesoTipo ==
  ASSUME TypeOK, Turnos, AccesoCpu
  PROVE  MemoriaTypeOK'
<1>0. MemoriaTypeOK
  BY DEF TypeOK
<1>1. CASE UNCHANGED memoria_vars
  BY <1>0, <1>1, TiposMemoriaFijos
<1>2. ASSUME en_cpu # NULO, NEW n \in Paginas(en_cpu), PedirTodoMemoria(n)
      PROVE  MemoriaTypeOK'
  <2>1. en_cpu \in Procesos /\ Posicion(n) \in Posiciones
    BY <1>2, PaginasEnTabla DEF TypeOK
  <2>2. Marco(en_cpu, Posicion(n)) \in Marcos /\ 0 \in Marcos
    BY <1>0, <2>1, MemoriaAssumption DEF MemoriaTypeOK, Marco, Pagina, MemoriaAssumption, Marcos
  <2> QED
    BY <1>0, <1>2, <2>1, <2>2 DEF PedirTodoMemoria, SolicitudFrame, Atender, MemoriaTypeOK
<1>3. CASE RecibirFrame
  <2>1. <<0, 0>> \in Posiciones /\ 0 \in Marcos
    BY MemoriaAssumption DEF MemoriaAssumption, Posiciones, Entradas, Marcos
  <2> QED
    BY <1>0, <1>3, <2>1 DEF RecibirFrame, MemoriaTypeOK, CpuLibre, Atender
<1>4. CASE Leer
  <2>1. en_cpu \in Procesos
    BY <1>4 DEF Leer, Turnos, TypeOK
  <2> QED
    BY <1>0, <1>4, <2>1, LecturaTipo DEF Leer
<1>5. CASE \E v \in Valores : Escribir(v)
  <2>1. en_cpu \in Procesos /\ acceso.marco \in Marcos
    BY <1>5 DEF Escribir, Turnos, TypeOK
  <2> QED
    BY <1>0, <1>5, <2>1, EscrituraTipo DEF Escribir
<1> QED
  BY <1>1, <1>2, <1>3, <1>4, <1>5 DEF AccesoCpu, Despachar, Devolver, BuscarEnTLB

\* ... what the kernel asks memory for, ...
LEMMA PedidoTipo ==
  ASSUME TypeOK, NEW p \in Procesos, PedidoDelKernel(p)
  PROVE  MemoriaTypeOK'
<1>0. MemoriaTypeOK
  BY DEF TypeOK
<1>1. CASE CrearTablas(p)
  <2>1. ASSUME NEW bits \in [Paginas(p) -> BitsSinIniciar]
        PROVE  TablaNueva([pos \in Posiciones |->
                 IF calcular_num_pagina(pos) \in Paginas(p) THEN bits[calcular_num_pagina(pos)] ELSE 0])
                 \in [Posiciones -> Pagina]
    <3>1. [pos \in Posiciones |->
             IF calcular_num_pagina(pos) \in Paginas(p) THEN bits[calcular_num_pagina(pos)] ELSE 0]
             \in [Posiciones -> 0..2]
      <4>1. BitsSinIniciar \subseteq 0..2
        BY MemoriaAssumption DEF MemoriaAssumption
      <4>2. \A n \in Paginas(p) : bits[n] \in 0..2
        BY <4>1
      <4> QED
        BY <4>2
    <3> QED
      BY <3>1, TablaNuevaTipo
  <2>2. ASSUME \E bits \in [Paginas(p) -> BitsSinIniciar] :
                 tabla' = [tabla EXCEPT ![p] = TablaNueva([pos \in Posiciones |->
                   IF calcular_num_pagina(pos) \in Paginas(p) THEN bits[calcular_num_pagina(pos)] ELSE 0])]
        PROVE  tabla' \in [Procesos -> [Posiciones -> Pagina]]
    <3>1. PICK bits \in [Paginas(p) -> BitsSinIniciar] :
            tabla' = [tabla EXCEPT ![p] = TablaNueva([pos \in Posiciones |->
              IF calcular_num_pagina(pos) \in Paginas(p) THEN bits[calcular_num_pagina(pos)] ELSE 0])]
      BY <2>2
    <3>2. PICK t \in [Posiciones -> Pagina] : tabla' = [tabla EXCEPT ![p] = t]
      BY <2>1, <3>1
    <3>3. tabla' \in [Procesos -> [Posiciones -> Pagina]]
      BY <1>0, <3>2 DEF MemoriaTypeOK
    <3> QED
      BY <3>3
  <2>3. tabla \in [Procesos -> [Posiciones -> Pagina]] /\ indefinido \in BOOLEAN
    BY <1>0 DEF MemoriaTypeOK
  <2>4. tabla' \in [Procesos -> [Posiciones -> Pagina]] /\ indefinido' \in BOOLEAN
    BY <1>1, <2>2, <2>3, Zenon DEF CrearTablas
  <2> QED
    BY <1>0, <1>1, <2>4 DEF CrearTablas, MemoriaTypeOK, Datos
<1>2. CASE Suspender(p)
  BY <1>0, <1>2 DEF Suspender, MemoriaTypeOK
<1>3. CASE Finalizar(p)
  BY <1>0, <1>3 DEF Finalizar, MemoriaTypeOK, Datos
<1> QED
  BY <1>1, <1>2, <1>3 DEF PedidoDelKernel

\* ... hilo_kernel, ...
LEMMA HiloKernelTipo ==
  ASSUME MemoriaTypeOK, HiloKernel
  PROVE  MemoriaTypeOK'
<1>0. hk.id \in Procesos
  BY DEF HiloKernel, GuardarPaginaSuspendida, LiberarPagina, ResponderKernel, MemoriaTypeOK
<1>1. CASE GuardarPaginaSuspendida
  <2>1. EnCurso \in Posiciones /\ calcular_num_pagina(EnCurso) \in TodasLasPaginas
    BY <1>1, EnCursoPresente, NumeroDe DEF GuardarPaginaSuspendida
  <2>2. [tabla[hk.id][EnCurso] EXCEPT !.bit_modificacion = 0] \in Pagina
    BY <1>0, <2>1, EntradaTipo, PaginaConBits
  <2>3. Marco(hk.id, EnCurso) \in Marcos
    BY <1>0, <2>1 DEF MemoriaTypeOK, Pagina, Marco
  <2>4. tabla' \in [Procesos -> [Posiciones -> Pagina]]
    BY <1>0, <1>1, <2>1, <2>2 DEF GuardarPaginaSuspendida, MemoriaTypeOK
  <2>5. swap' \in [Procesos -> [TodasLasPaginas -> Datos]]
    BY <1>0, <1>1, <2>1, <2>3 DEF GuardarPaginaSuspendida, MemoriaTypeOK
  <2> QED
    BY <1>1, <2>4, <2>5 DEF GuardarPaginaSuspendida, MemoriaTypeOK
<1>2. CASE LiberarPagina
  <2>1. EnCurso \in Posiciones
    BY <1>2, EnCursoPresente DEF LiberarPagina
  <2>2. [tabla[hk.id][EnCurso] EXCEPT !.bit_presencia = 0] \in Pagina
    BY <1>0, <2>1, EntradaTipo, PaginaConBits
  <2>3. tabla' \in [Procesos -> [Posiciones -> Pagina]]
    BY <1>0, <1>2, <2>1, <2>2 DEF LiberarPagina, MemoriaTypeOK
  <2> QED
    BY <1>2, <2>3 DEF LiberarPagina, MemoriaTypeOK
<1>3. CASE ResponderKernel
  BY <1>0, <1>3, SinTablaTipo DEF ResponderKernel, MemoriaTypeOK, HiloLibre
<1> QED
  BY <1>1, <1>2, <1>3 DEF HiloKernel

\* ... and hilo_cpu keep the type of the variables of memory.
LEMMA HiloCpuTipo ==
  ASSUME MemoriaTypeOK, Vigente, MarcosExclusivos, HiloCpu
  PROVE  MemoriaTypeOK'
<1>0. hc.id \in Procesos /\ hc.pos \in Posiciones /\ hc.marco \in Marcos
  BY DEF HiloCpu, BuscarMarcoLibre, CargarMarco, ElegirPaginaASacar, GuardarVictima,
         ReemplazarPagina, MemoriaTypeOK
<1>1. Distintos(hc.id)
  BY <1>0, ExclusivosDistintos
<1>2. CASE BuscarMarcoLibre
  BY <1>2, MarcoLibre DEF BuscarMarcoLibre, HayLugar, MemoriaTypeOK
<1>3. swap[hc.id][calcular_num_pagina(hc.pos)] \in Datos
  BY <1>0, NumeroDe DEF MemoriaTypeOK
<1>4. CASE CargarMarco
  <2>1. Cargada(tabla[hc.id]) \in [Posiciones -> Pagina]
    BY <1>0, CargadaTipo DEF MemoriaTypeOK
  <2> QED
    BY <1>0, <1>3, <1>4, <2>1 DEF CargarMarco, MemoriaTypeOK
<1>5. CASE ElegirPaginaASacar /\ ~(puntero_clock[hc.id] < Tam(hc.id))
  BY <1>5 DEF ElegirPaginaASacar, MemoriaTypeOK
<1>6. CASE ElegirPaginaASacar /\ puntero_clock[hc.id] < Tam(hc.id)
  <2> DEFINE c == elegir_pagina_a_sacar(hc.id)
             bajados == {EnLista(hc.id, k) : k \in c.bajados}
  <2>1. EnLista(hc.id, c.victima) \in Posiciones /\ c.puntero \in Nat
    BY <1>0, <1>1, <1>6, VictimaPresente DEF Presentes
  <2>2. Marco(hc.id, EnLista(hc.id, c.victima)) \in Marcos
    BY <1>0, <2>1 DEF MemoriaTypeOK, Marco, Pagina
  <2>3. /\ tabla' = [tabla EXCEPT ![hc.id] = [pos \in Posiciones |->
               IF pos \in bajados THEN [tabla[hc.id][pos] EXCEPT !.bit_uso = 0]
                                  ELSE tabla[hc.id][pos]]]
        /\ puntero_clock' = [puntero_clock EXCEPT ![hc.id] = c.puntero]
        /\ hc' = [hc EXCEPT !.en = "sacar", !.marco = Marco(hc.id, EnLista(hc.id, c.victima))]
        /\ UNCHANGED <<tablas, bitmap, memoria_real, swap, hk, caido, indefinido>>
    <3>1. ~(puntero_clock[hc.id] >= Tam(hc.id))
      BY <1>0, <1>6, Finitas DEF MemoriaTypeOK
    <3> QED
      BY <1>6, <3>1, Zenon DEF ElegirPaginaASacar
  <2>4. \A pos \in Posiciones : /\ tabla[hc.id][pos] \in Pagina
                                /\ [tabla[hc.id][pos] EXCEPT !.bit_uso = 0] \in Pagina
    BY <1>0, EntradaTipo, PaginaConBits
  <2> HIDE DEF c, bajados
  <2>5. tabla' \in [Procesos -> [Posiciones -> Pagina]]
    BY <1>0, <2>3, <2>4 DEF MemoriaTypeOK
  <2>6. puntero_clock' \in [Procesos -> Nat]
    BY <1>0, <2>1, <2>3 DEF MemoriaTypeOK
  <2> QED
    BY <1>0, <2>2, <2>3, <2>5, <2>6 DEF MemoriaTypeOK
<1>7. ASSUME hc.en \in {"sacar", "reemplazar"}
      PROVE  Victima \in Presentes(hc.id) /\ Marco(hc.id, Victima) = hc.marco
  <2>1. PICK pos \in Presentes(hc.id) : Marco(hc.id, pos) = hc.marco
    BY <1>7 DEF Vigente
  <2> QED
    BY <1>0, <1>1, <2>1, VictimaEs
<1>8. CASE GuardarVictima
  <2>1. Victima \in Posiciones
    BY <1>7, <1>8 DEF GuardarVictima, Presentes
  <2>2. [tabla[hc.id][Victima] EXCEPT !.bit_modificacion = 0] \in Pagina
    BY <1>0, <2>1, EntradaTipo, PaginaConBits
  <2>3. calcular_num_pagina(Victima) \in TodasLasPaginas
    BY <2>1, NumeroDe
  <2>4. /\ tabla \in [Procesos -> [Posiciones -> Pagina]]
        /\ swap \in [Procesos -> [TodasLasPaginas -> Datos]]
        /\ memoria_real[hc.marco] \in Datos
    BY <1>0 DEF MemoriaTypeOK
  <2>5. [tabla EXCEPT ![hc.id][Victima].bit_modificacion = 0]
          \in [Procesos -> [Posiciones -> Pagina]]
    BY <1>0, <2>1, <2>2, <2>4
  <2>6. [swap EXCEPT ![hc.id][calcular_num_pagina(Victima)] = memoria_real[hc.marco]]
          \in [Procesos -> [TodasLasPaginas -> Datos]]
    BY <1>0, <2>3, <2>4
  <2>7. /\ tabla' \in [Procesos -> [Posiciones -> Pagina]]
        /\ swap' \in [Procesos -> [TodasLasPaginas -> Datos]]
    BY <1>8, <2>4, <2>5, <2>6, Zenon DEF GuardarVictima
  <2> QED
    BY <1>0, <1>8, <2>7 DEF GuardarVictima, MemoriaTypeOK
<1>9. CASE ReemplazarPagina
  <2>1. Victima \in Posiciones
    BY <1>7, <1>9 DEF ReemplazarPagina, Presentes
  <2>2. [tabla[hc.id][Victima] EXCEPT !.bit_presencia = 0] \in Pagina
    BY <1>0, <2>1, EntradaTipo, PaginaConBits
  <2>3. [tabla[hc.id] EXCEPT ![Victima].bit_presencia = 0] \in [Posiciones -> Pagina]
    BY <1>0, <2>1, <2>2 DEF MemoriaTypeOK
  <2>4. Cargada([tabla[hc.id] EXCEPT ![Victima].bit_presencia = 0]) \in [Posiciones -> Pagina]
    BY <1>0, <2>3, CargadaTipo
  <2> QED
    BY <1>0, <1>3, <1>9, <2>4 DEF ReemplazarPagina, MemoriaTypeOK
<1> QED
  BY <1>2, <1>4, <1>5, <1>6, <1>8, <1>9 DEF HiloCpu, ElegirPaginaASacar

\* A step keeps every type.
LEMMA NextTypeOK ==
  ASSUME TypeOK, Inductiva, [Next]_vars
  PROVE  TypeOK'
<1>0. TiposCpu /\ MemoriaTypeOK
  BY DEF TypeOK, TiposCpu
<1>1. CASE AccesoCpu
  BY <1>1, CpuTypeOK, AccesoTipo DEF Inductiva, TypeOK, TiposCpu
<1>2. CASE \E p \in Procesos : PedidoDelKernel(p)
  <2>1. TiposCpu'
    BY <1>0, <1>2, TiposCpuFijos DEF PedidoDelKernel
  <2> QED
    BY <1>2, <2>1, PedidoTipo DEF TypeOK, TiposCpu
<1>3. CASE PasoHiloKernel
  <2>1. TiposCpu'
    BY <1>0, <1>3, TiposCpuFijos DEF PasoHiloKernel
  <2> QED
    BY <1>0, <1>3, <2>1, HiloKernelTipo DEF PasoHiloKernel, TypeOK, TiposCpu
<1>4. CASE PasoHiloCpu
  <2>1. TiposCpu'
    BY <1>0, <1>4, TiposCpuFijos DEF PasoHiloCpu
  <2> QED
    BY <1>0, <1>4, <2>1, HiloCpuTipo DEF PasoHiloCpu, Inductiva, TypeOK, TiposCpu
<1>5. CASE UNCHANGED vars
  <2>1. TiposCpu'
    BY <1>0, <1>5, TiposCpuFijos DEF vars
  <2> QED
    BY <1>0, <1>5, <2>1, TiposMemoriaFijos DEF vars, TypeOK, TiposCpu
<1> QED
  BY <1>1, <1>2, <1>3, <1>4, <1>5 DEF Next

-----------------------------------------------------------------------------
\* Who has each frame

\* MarcosExclusivos, BitmapFiel and MarcosRespetados, page by page.
Reparto ==
  /\ \A p, q \in Procesos : \A a \in Presentes(p), b \in Presentes(q) :
       Marco(p, a) = Marco(q, b) => p = q /\ a = b
  /\ \A p \in Procesos : \A a \in Presentes(p) : Marco(p, a) \in bitmap
  /\ \A m \in bitmap : \E p \in Procesos : \E a \in Presentes(p) : Marco(p, a) = m
  /\ MarcosRespetados

\* They say the same.
LEMMA RepartoEs == MarcosExclusivos /\ BitmapFiel /\ MarcosRespetados <=> Reparto
<1>1. \A x : x \in PaginasPresentes <=>
        \E p \in Procesos : \E pos \in Presentes(p) : x = <<p, pos>>
  BY DEF PaginasPresentes
<1>2. ASSUME NEW x \in PaginasPresentes
      PROVE  x = <<x[1], x[2]>> /\ x[1] \in Procesos /\ x[2] \in Presentes(x[1])
  BY <1>1
<1>3. ASSUME NEW p \in Procesos, NEW pos \in Presentes(p)
      PROVE  \E x \in PaginasPresentes : x[1] = p /\ x[2] = pos
  <2>1. <<p, pos>> \in PaginasPresentes
    BY <1>1
  <2> QED
    BY <2>1
<1>4. ASSUME MarcosExclusivos, NEW p \in Procesos, NEW q \in Procesos,
             NEW a \in Presentes(p), NEW b \in Presentes(q), Marco(p, a) = Marco(q, b)
      PROVE  p = q /\ a = b
  <2>1. PICK x \in PaginasPresentes : x[1] = p /\ x[2] = a
    BY <1>3
  <2>2. PICK y \in PaginasPresentes : y[1] = q /\ y[2] = b
    BY <1>3
  <2>3. x = y
    BY <1>4, <2>1, <2>2 DEF MarcosExclusivos
  <2> QED
    BY <2>1, <2>2, <2>3
<1>5. MarcosExclusivos <=>
        \A p, q \in Procesos : \A a \in Presentes(p), b \in Presentes(q) :
          Marco(p, a) = Marco(q, b) => p = q /\ a = b
  <2>1. ASSUME \A p, q \in Procesos : \A a \in Presentes(p), b \in Presentes(q) :
                 Marco(p, a) = Marco(q, b) => p = q /\ a = b,
               NEW x \in PaginasPresentes, NEW y \in PaginasPresentes,
               Marco(x[1], x[2]) = Marco(y[1], y[2])
        PROVE  x = y
    <3>1. x[1] = y[1] /\ x[2] = y[2]
      BY <1>2, <2>1
    <3> QED
      BY <1>2, <3>1
  <2> QED
    BY <1>4, <2>1 DEF MarcosExclusivos
<1>6. BitmapFiel <=>
        /\ \A p \in Procesos : \A a \in Presentes(p) : Marco(p, a) \in bitmap
        /\ \A m \in bitmap : \E p \in Procesos : \E a \in Presentes(p) : Marco(p, a) = m
  <2> DEFINE EnUso == {Marco(x[1], x[2]) : x \in PaginasPresentes}
  <2>1. \A m : m \in EnUso <=> \E p \in Procesos : \E a \in Presentes(p) : Marco(p, a) = m
    <3>1. ASSUME NEW p \in Procesos, NEW a \in Presentes(p)
          PROVE  Marco(p, a) \in EnUso
      <4>1. PICK x \in PaginasPresentes : x[1] = p /\ x[2] = a
        BY <1>3
      <4> QED
        BY <4>1
    <3>2. ASSUME NEW m \in EnUso
          PROVE  \E p \in Procesos : \E a \in Presentes(p) : Marco(p, a) = m
      BY <1>2
    <3> QED
      BY <3>1, <3>2
  <2>2. BitmapFiel <=> bitmap = EnUso
    BY DEF BitmapFiel
  <2> HIDE DEF EnUso
  <2> QED
    BY <2>1, <2>2
<1> QED
  BY <1>5, <1>6 DEF Reparto

\* They say the same of the next state.
LEMMA RepartoEsLuego == (MarcosExclusivos /\ BitmapFiel /\ MarcosRespetados <=> Reparto)'
  BY RepartoEs, PTL

\* A step that leaves the pages of p present in their frames.
MismosMarcos(p) ==
  \A pos \in Posiciones :
    /\ tabla'[p][pos].bit_presencia = 1 <=> tabla[p][pos].bit_presencia = 1
    /\ tabla[p][pos].bit_presencia = 1 => tabla'[p][pos].numero_frame = tabla[p][pos].numero_frame

\* Its list of present pages is then the same.
LEMMA MismosMarcosDe ==
  ASSUME NEW p, MismosMarcos(p)
  PROVE  /\ Presentes(p)' = Presentes(p) /\ Tam(p)' = Tam(p)
         /\ \A pos \in Presentes(p) : Marco(p, pos)' = Marco(p, pos)
<1>1. Presentes(p)' = Presentes(p)
  BY DEF MismosMarcos, Presentes
<1>2. \A pos \in Presentes(p) : Marco(p, pos)' = Marco(p, pos)
  BY DEF MismosMarcos, Marco, Presentes
<1> QED
  BY <1>1, <1>2 DEF Tam

\* Nothing changes hands while every page stays in its frame.
LEMMA RepartoIgual ==
  ASSUME Reparto, \A p \in Procesos : MismosMarcos(p), bitmap' = bitmap
  PROVE  Reparto'
<1>1. \A p \in Procesos : /\ Presentes(p)' = Presentes(p) /\ Tam(p)' = Tam(p)
                          /\ \A pos \in Presentes(p) : Marco(p, pos)' = Marco(p, pos)
  BY MismosMarcosDe DEF Presentes
<1> QED
  BY <1>1 DEF Reparto, MarcosRespetados

\* hilo_kernel takes a page out of its frame.
LEMMA RepartoQuitar ==
  ASSUME Reparto, NEW p \in Procesos, NEW pos \in Presentes(p),
         \A q \in Procesos : q # p => MismosMarcos(q),
         Presentes(p)' = Presentes(p) \ {pos},
         \A q \in Posiciones : Marco(p, q)' = Marco(p, q),
         bitmap' = bitmap \ {Marco(p, pos)}
  PROVE  Reparto'
<1>1. \A q \in Procesos : /\ Presentes(q)' = IF q = p THEN Presentes(q) \ {pos} ELSE Presentes(q)
                          /\ \A x \in Presentes(q) : Marco(q, x)' = Marco(q, x)
  BY MismosMarcosDe DEF Presentes
<1>2. ASSUME NEW q \in Procesos
      PROVE  (Tam(q) <= MARCOS_POR_PROCESO)'
  <2>1. Tam(q) <= MARCOS_POR_PROCESO
    BY DEF Reparto, MarcosRespetados
  <2>2. CASE q # p
    BY <1>1, <2>1, <2>2 DEF Tam
  <2>3. CASE q = p
    <3>1. Cardinality(Presentes(p) \ {pos}) = Cardinality(Presentes(p)) - 1
      BY Finitas, FS_RemoveElement
    <3>2. Tam(p)' = Tam(p) - 1
      BY <3>1 DEF Tam
    <3> QED
      BY <2>1, <2>3, <3>2, Finitas, MemoriaAssumption DEF MemoriaAssumption
  <2> QED
    BY <2>2, <2>3
<1>3. MarcosRespetados'
  BY <1>2 DEF MarcosRespetados
<1> QED
  BY <1>1, <1>3 DEF Reparto

\* hilo_cpu puts a page in a frame that nobody had.
LEMMA RepartoPoner ==
  ASSUME Reparto, NEW p \in Procesos, NEW pos \in Posiciones, pos \notin Presentes(p),
         NEW m, m \notin bitmap, Tam(p) < MARCOS_POR_PROCESO,
         \A q \in Procesos : q # p => MismosMarcos(q),
         Presentes(p)' = Presentes(p) \cup {pos},
         \A q \in Posiciones : Marco(p, q)' = IF q = pos THEN m ELSE Marco(p, q),
         bitmap' = bitmap \cup {m}
  PROVE  Reparto'
<1>1. \A q \in Procesos :
        /\ Presentes(q)' = IF q = p THEN Presentes(q) \cup {pos} ELSE Presentes(q)
        /\ \A x \in Presentes(q) : Marco(q, x)' = Marco(q, x)
  BY MismosMarcosDe DEF Presentes
<1>2. ASSUME NEW q \in Procesos
      PROVE  (Tam(q) <= MARCOS_POR_PROCESO)'
  <2>1. CASE q # p
    BY <1>1, <2>1 DEF Tam, Reparto, MarcosRespetados
  <2>2. CASE q = p
    <3>1. Cardinality(Presentes(p) \cup {pos}) = Cardinality(Presentes(p)) + 1
      BY Finitas, FS_AddElement
    <3>2. Tam(p)' = Tam(p) + 1
      BY <3>1 DEF Tam
    <3> QED
      BY <2>2, <3>2, Finitas, MemoriaAssumption DEF MemoriaAssumption
  <2> QED
    BY <2>1, <2>2
<1>3. MarcosRespetados'
  BY <1>2 DEF MarcosRespetados
<1>4. Marco(p, pos)' = m
  OBVIOUS
<1> QED
  BY <1>1, <1>3, <1>4 DEF Reparto

\* hilo_cpu puts a page in the frame of another page of the process.
LEMMA RepartoCambiar ==
  ASSUME Reparto, NEW p \in Procesos, NEW pos \in Posiciones, pos \notin Presentes(p),
         NEW v \in Presentes(p),
         \A q \in Procesos : q # p => MismosMarcos(q),
         Presentes(p)' = (Presentes(p) \ {v}) \cup {pos},
         \A q \in Posiciones : Marco(p, q)' = IF q = pos THEN Marco(p, v) ELSE Marco(p, q),
         bitmap' = bitmap
  PROVE  Reparto'
<1>1. \A q \in Procesos :
        /\ Presentes(q)' = IF q = p THEN (Presentes(q) \ {v}) \cup {pos} ELSE Presentes(q)
        /\ \A x \in Presentes(q) : Marco(q, x)' = Marco(q, x)
  BY MismosMarcosDe DEF Presentes
<1>2. ASSUME NEW q \in Procesos
      PROVE  (Tam(q) <= MARCOS_POR_PROCESO)'
  <2>1. CASE q # p
    BY <1>1, <2>1 DEF Tam, Reparto, MarcosRespetados
  <2>2. CASE q = p
    <3>1. /\ Cardinality(Presentes(p) \ {v}) = Cardinality(Presentes(p)) - 1
          /\ IsFiniteSet(Presentes(p) \ {v})
      BY Finitas, FS_RemoveElement
    <3>2. Cardinality((Presentes(p) \ {v}) \cup {pos}) = Cardinality(Presentes(p) \ {v}) + 1
      BY <3>1, FS_AddElement
    <3>3. Tam(p)' = Tam(p)
      BY <3>1, <3>2, Finitas DEF Tam
    <3> QED
      BY <2>2, <3>3 DEF Reparto, MarcosRespetados
  <2> QED
    BY <2>1, <2>2
<1>3. MarcosRespetados'
  BY <1>2 DEF MarcosRespetados
<1>4. Marco(p, pos)' = Marco(p, v)
  OBVIOUS
<1>5. (\A q, r \in Procesos : \A a \in Presentes(q), b \in Presentes(r) :
         Marco(q, a) = Marco(r, b) => q = r /\ a = b)'
  BY <1>1, <1>4 DEF Reparto
<1>6. (\A q \in Procesos : \A a \in Presentes(q) : Marco(q, a) \in bitmap)'
  BY <1>1, <1>4 DEF Reparto
<1>7. (\A m \in bitmap : \E q \in Procesos : \E a \in Presentes(q) : Marco(q, a) = m)'
  BY <1>1, <1>4 DEF Reparto
<1> QED
  BY <1>3, <1>5, <1>6, <1>7 DEF Reparto

-----------------------------------------------------------------------------
\* The inductive invariant

\* Memory starts with no page present and nobody waiting.
LEMMA InitInductiva == Init => Inductiva
<1> SUFFICES ASSUME Init PROVE Inductiva
  OBVIOUS
<1>1. \A p \in Procesos : Presentes(p) = {} /\ Tam(p) = 0
  <2>1. \A p \in Procesos : Presentes(p) = {}
    BY DEF Init, MemoriaInit, Presentes, SinTabla, TablaNueva
  <2> QED
    BY <2>1, Finitas
<1>2. Turnos
  BY <1>1 DEF Init, MemoriaInit, Turnos, HiloLibre, CpuLibre, Atender, SinAcceso
<1>3. Vigente
  BY DEF Init, MemoriaInit, Vigente, CpuLibre, Atender
<1>4. Reparto
  BY <1>1, MemoriaAssumption DEF Init, MemoriaInit, Reparto, MarcosRespetados, MemoriaAssumption
<1> QED
  BY <1>2, <1>3, <1>4, RepartoEs DEF Inductiva

\* What hilo_cpu knows stays true while nobody touches the pages of its process
\* and no other frame is taken.
LEMMA VigenteIgual ==
  ASSUME Vigente, hc' = hc, hc.en # "libre" => MismosMarcos(hc.id), bitmap' \subseteq bitmap
  PROVE  Vigente'
<1>1. CASE hc.en = "libre"
  BY <1>1 DEF Vigente
<1>2. CASE hc.en # "libre"
  <2>1. /\ Presentes(hc.id)' = Presentes(hc.id) /\ Tam(hc.id)' = Tam(hc.id)
        /\ \A pos \in Presentes(hc.id) : Marco(hc.id, pos)' = Marco(hc.id, pos)
    <3>1. \A p : p = hc.id => MismosMarcos(p)
      BY <1>2
    <3>2. \A p : p = hc.id => /\ Presentes(p)' = Presentes(p) /\ Tam(p)' = Tam(p)
                              /\ \A pos \in Presentes(p) : Marco(p, pos)' = Marco(p, pos)
      BY <3>1, MismosMarcosDe
    <3>3. PICK p : p = hc.id
      OBVIOUS
    <3>4. Presentes(hc.id)' = Presentes(p)' /\ Tam(hc.id)' = Tam(p)'
      BY <3>3
    <3>5. \A pos : Marco(hc.id, pos)' = Marco(p, pos)'
      BY <3>3
    <3> QED
      BY <3>2, <3>3, <3>4, <3>5
  <2> QED
    BY <2>1 DEF Vigente
<1> QED
  BY <1>1, <1>2

\* Turnos depends on which pages are present, and on what each thread is doing.
LEMMA TurnosIgual ==
  ASSUME Turnos, \A p \in Procesos : MismosMarcos(p),
         UNCHANGED <<tablas, hk, hc, en_cpu, acceso>>
  PROVE  Turnos'
<1>1. \A p \in Procesos : Presentes(p)' = Presentes(p)
  BY MismosMarcosDe
<1> QED
  BY <1>1 DEF Turnos, Paginas

\* A step that only changes the bits of pages.
LEMMA BitsInductiva ==
  ASSUME TypeOK, Inductiva, \A p \in Procesos : MismosMarcos(p),
         UNCHANGED <<tablas, bitmap, hk, hc, en_cpu, acceso>>
  PROVE  Inductiva'
<1>1. Turnos'
  BY TurnosIgual DEF Inductiva
<1>2. hc.en # "libre" => hc.id \in Procesos
  BY DEF TypeOK, MemoriaTypeOK
<1>3. Vigente'
  BY <1>2, VigenteIgual DEF Inductiva
<1>4. Reparto'
  BY RepartoEs, RepartoIgual DEF Inductiva
<1> QED
  BY <1>1, <1>3, <1>4, RepartoEsLuego DEF Inductiva

\* The least of those steps.
LEMMA SinTocarTablas == UNCHANGED tabla => \A p : MismosMarcos(p)
  BY DEF MismosMarcos

\* The actions of memory by the pages whose frames they leave alone.
LEMMA MarcosQueSiguen ==
  ASSUME TypeOK, Inductiva
  PROVE  /\ Leer => \A p \in Procesos : MismosMarcos(p)
         /\ \A v : Escribir(v) => \A p \in Procesos : MismosMarcos(p)
         /\ \A q \in Procesos : CrearTablas(q) => \A p \in Procesos : MismosMarcos(p)
         /\ GuardarPaginaSuspendida => \A p \in Procesos : MismosMarcos(p)
         /\ LiberarPagina => \A p \in Procesos : p # hk.id => MismosMarcos(p)
         /\ ResponderKernel => \A p \in Procesos : MismosMarcos(p)
         /\ ElegirPaginaASacar => \A p \in Procesos : MismosMarcos(p)
         /\ GuardarVictima => \A p \in Procesos : MismosMarcos(p)
         /\ CargarMarco => \A p \in Procesos : p # hc.id => MismosMarcos(p)
         /\ ReemplazarPagina => \A p \in Procesos : p # hc.id => MismosMarcos(p)
<1>0. /\ MemoriaTypeOK /\ Turnos /\ Vigente
      /\ \A p \in Procesos, pos \in Posiciones : tabla[p][pos] \in Pagina
      /\ hk.op # "nada" => hk.id \in Procesos
      /\ hc.en # "libre" => hc.id \in Procesos
  BY DEF TypeOK, Inductiva, MemoriaTypeOK
<1>1. \A e \in Pagina :
        /\ [e EXCEPT !.bit_uso = 0].bit_presencia = e.bit_presencia
        /\ [e EXCEPT !.bit_uso = 0].numero_frame = e.numero_frame
        /\ [e EXCEPT !.bit_uso = 1].bit_presencia = e.bit_presencia
        /\ [e EXCEPT !.bit_uso = 1].numero_frame = e.numero_frame
        /\ [e EXCEPT !.bit_modificacion = 0].bit_presencia = e.bit_presencia
        /\ [e EXCEPT !.bit_modificacion = 0].numero_frame = e.numero_frame
  BY DEF Pagina
<1>2. \A e \in Pagina :
        /\ [e EXCEPT !.bit_uso = 1, !.bit_modificacion = 1].bit_presencia = e.bit_presencia
        /\ [e EXCEPT !.bit_uso = 1, !.bit_modificacion = 1].numero_frame = e.numero_frame
  BY DEF Pagina
\* Only the pages of p change.
<1>4. ASSUME NEW p \in Procesos, NEW t, tabla' = [tabla EXCEPT ![p] = t]
      PROVE  \A q \in Procesos : q # p => MismosMarcos(q)
  BY <1>0, <1>4 DEF MismosMarcos, MemoriaTypeOK
\* p has no page present, and gets none.
<1>5. ASSUME NEW p \in Procesos, NEW bits, tabla' = [tabla EXCEPT ![p] = TablaNueva(bits)],
             Presentes(p) = {}
      PROVE  \A q \in Procesos : MismosMarcos(q)
  <2>1. \A pos \in Posiciones : tabla'[p][pos].bit_presencia = 0
    BY <1>0, <1>5 DEF TablaNueva, MemoriaTypeOK
  <2>2. \A pos \in Posiciones : tabla[p][pos].bit_presencia # 1
    BY <1>5 DEF Presentes
  <2> QED
    BY <1>4, <1>5, <2>1, <2>2 DEF MismosMarcos
<1>6. ASSUME Leer PROVE \A p \in Procesos : MismosMarcos(p)
  <2>1. en_cpu \in Procesos
    BY <1>0, <1>6 DEF Leer, Turnos, TypeOK
  <2> DEFINE t == [pos \in Posiciones |->
               IF pos \in EnMarco(en_cpu, EntradaDe(acceso.pagina), acceso.marco)
                 THEN [tabla[en_cpu][pos] EXCEPT !.bit_uso = 1] ELSE tabla[en_cpu][pos]]
  <2>2. tabla' = [tabla EXCEPT ![en_cpu] = t]
    BY <1>6 DEF Leer, Lectura
  <2>3. \A pos \in Posiciones : /\ t[pos].bit_presencia = tabla[en_cpu][pos].bit_presencia
                                /\ t[pos].numero_frame = tabla[en_cpu][pos].numero_frame
    BY <1>0, <1>1, <2>1
  <2> HIDE DEF t
  <2>5. tabla'[en_cpu] = t /\ \A q \in Procesos : q # en_cpu => tabla'[q] = tabla[q]
    BY <1>0, <2>1, <2>2 DEF MemoriaTypeOK
  <2> QED
    BY <2>3, <2>5 DEF MismosMarcos
<1>7. ASSUME NEW v, Escribir(v) PROVE \A p \in Procesos : MismosMarcos(p)
  <2>1. en_cpu \in Procesos
    BY <1>0, <1>7 DEF Escribir, Turnos, TypeOK
  <2> DEFINE t == [pos \in Posiciones |->
               IF pos \in EnMarco(en_cpu, EntradaDe(acceso.pagina), acceso.marco)
                 THEN [tabla[en_cpu][pos] EXCEPT !.bit_uso = 1, !.bit_modificacion = 1]
                 ELSE tabla[en_cpu][pos]]
  <2>2. tabla' = [tabla EXCEPT ![en_cpu] = t]
    BY <1>7 DEF Escribir, Escritura
  <2>3. \A pos \in Posiciones :
          t[pos] \in {tabla[en_cpu][pos],
                     [tabla[en_cpu][pos] EXCEPT !.bit_uso = 1, !.bit_modificacion = 1]}
    OBVIOUS
  <2> HIDE DEF t
  <2>4. ASSUME NEW pos \in Posiciones
        PROVE  /\ t[pos].bit_presencia = tabla[en_cpu][pos].bit_presencia
               /\ t[pos].numero_frame = tabla[en_cpu][pos].numero_frame
    <3>1. tabla[en_cpu][pos] \in Pagina
      BY <1>0, <2>1
    <3> QED
      BY <1>2, <2>3, <3>1
  <2>5. tabla'[en_cpu] = t /\ \A q \in Procesos : q # en_cpu => tabla'[q] = tabla[q]
    BY <1>0, <2>1, <2>2 DEF MemoriaTypeOK
  <2> QED
    BY <2>4, <2>5 DEF MismosMarcos
<1>8. ASSUME NEW q \in Procesos, CrearTablas(q) PROVE \A p \in Procesos : MismosMarcos(p)
  <2>1. Presentes(q) = {}
    BY <1>0, <1>8 DEF CrearTablas, Turnos
  <2> QED
    BY <1>5, <1>8, <2>1, SinTocarTablas DEF CrearTablas
<1>9. ASSUME GuardarPaginaSuspendida PROVE \A p \in Procesos : MismosMarcos(p)
  <2>1. EnCurso \in Posiciones /\ hk.id \in Procesos
    BY <1>0, <1>9, EnCursoPresente DEF GuardarPaginaSuspendida
  <2>2. PICK pos : pos = EnCurso
    OBVIOUS
  <2> DEFINE t == [tabla[hk.id] EXCEPT ![pos].bit_modificacion = 0]
  <2>3. tabla' = [tabla EXCEPT ![hk.id] = t]
    BY <1>9, <2>2 DEF GuardarPaginaSuspendida
  <2>4. \A q \in Posiciones : /\ t[q].bit_presencia = tabla[hk.id][q].bit_presencia
                              /\ t[q].numero_frame = tabla[hk.id][q].numero_frame
    BY <1>0, <1>1, <2>1 DEF MemoriaTypeOK
  <2> HIDE DEF t
  <2>5. tabla'[hk.id] = t /\ \A q \in Procesos : q # hk.id => tabla'[q] = tabla[q]
    BY <1>0, <2>1, <2>3 DEF MemoriaTypeOK
  <2> QED
    BY <2>4, <2>5 DEF MismosMarcos
<1>10. ASSUME LiberarPagina PROVE \A p \in Procesos : p # hk.id => MismosMarcos(p)
  BY <1>0, <1>4, <1>10 DEF LiberarPagina
<1>11. ASSUME ResponderKernel PROVE \A p \in Procesos : MismosMarcos(p)
  BY <1>0, <1>5, <1>11, SinTocarTablas DEF ResponderKernel, SinTabla
<1>12. ASSUME ElegirPaginaASacar PROVE \A p \in Procesos : MismosMarcos(p)
  <2>1. CASE UNCHANGED tabla
    BY <2>1, SinTocarTablas
  <2>2. CASE \E bajados : tabla' = [tabla EXCEPT ![hc.id] = [pos \in Posiciones |->
          IF pos \in bajados THEN [tabla[hc.id][pos] EXCEPT !.bit_uso = 0]
                             ELSE tabla[hc.id][pos]]]
    <3>1. PICK bajados : tabla' = [tabla EXCEPT ![hc.id] = [pos \in Posiciones |->
            IF pos \in bajados THEN [tabla[hc.id][pos] EXCEPT !.bit_uso = 0]
                               ELSE tabla[hc.id][pos]]]
      BY <2>2
    <3>2. hc.id \in Procesos
      BY <1>0, <1>12 DEF ElegirPaginaASacar
    <3> DEFINE t == [pos \in Posiciones |->
                 IF pos \in bajados THEN [tabla[hc.id][pos] EXCEPT !.bit_uso = 0]
                                    ELSE tabla[hc.id][pos]]
    <3>3. \A pos \in Posiciones : /\ t[pos].bit_presencia = tabla[hc.id][pos].bit_presencia
                                  /\ t[pos].numero_frame = tabla[hc.id][pos].numero_frame
      BY <1>0, <1>1, <3>2
    <3> HIDE DEF t
    <3>4. tabla' = [tabla EXCEPT ![hc.id] = t]
      BY <3>1 DEF t
    <3>5. tabla'[hc.id] = t /\ \A q \in Procesos : q # hc.id => tabla'[q] = tabla[q]
      BY <1>0, <3>2, <3>4 DEF MemoriaTypeOK
    <3> QED
      BY <3>3, <3>5 DEF MismosMarcos
  <2> QED
    BY <1>12, <2>1, <2>2, Zenon DEF ElegirPaginaASacar
<1>13. ASSUME GuardarVictima PROVE \A p \in Procesos : MismosMarcos(p)
  <2>1. CASE UNCHANGED tabla
    BY <2>1, SinTocarTablas
  <2>2. CASE tabla' = [tabla EXCEPT ![hc.id][Victima].bit_modificacion = 0]
    <3>1. PICK pos : pos = Victima
      OBVIOUS
    <3> DEFINE t == [tabla[hc.id] EXCEPT ![pos].bit_modificacion = 0]
    <3>2. tabla' = [tabla EXCEPT ![hc.id] = t]
      BY <2>2, <3>1
    <3>3. hc.id \in Procesos
      BY <1>0, <1>13 DEF GuardarVictima
    <3>4. \A q \in Posiciones : /\ t[q].bit_presencia = tabla[hc.id][q].bit_presencia
                                /\ t[q].numero_frame = tabla[hc.id][q].numero_frame
      BY <1>0, <1>1, <3>3 DEF MemoriaTypeOK
    <3> HIDE DEF t
    <3>5. tabla'[hc.id] = t /\ \A q \in Procesos : q # hc.id => tabla'[q] = tabla[q]
      BY <1>0, <3>3, <3>2 DEF MemoriaTypeOK
    <3> QED
      BY <3>4, <3>5 DEF MismosMarcos
  <2> QED
    BY <1>13, <2>1, <2>2 DEF GuardarVictima
<1>14. ASSUME CargarMarco PROVE \A p \in Procesos : p # hc.id => MismosMarcos(p)
  BY <1>0, <1>4, <1>14 DEF CargarMarco
<1>15. ASSUME ReemplazarPagina PROVE \A p \in Procesos : p # hc.id => MismosMarcos(p)
  BY <1>0, <1>4, <1>15 DEF ReemplazarPagina
<1> QED
  BY <1>6, <1>7, <1>8, <1>9, <1>10, <1>11, <1>12, <1>13, <1>14, <1>15

\* What the three actions that move a page do to the entries of its process.
LEMMA LiberarPaginaEs ==
  ASSUME TypeOK, LiberarPagina, NEW q \in Posiciones
  PROVE  /\ EnCurso \in Presentes(hk.id) /\ EnCurso \in Posiciones
         /\ tabla'[hk.id][q].bit_presencia = IF q = EnCurso THEN 0 ELSE tabla[hk.id][q].bit_presencia
         /\ tabla'[hk.id][q].numero_frame = tabla[hk.id][q].numero_frame
         /\ tabla'[hk.id][q].bit_modificacion = tabla[hk.id][q].bit_modificacion
<1>1. MemoriaTypeOK /\ hk.id \in Procesos
  BY DEF TypeOK, MemoriaTypeOK, LiberarPagina
<1>2. EnCurso \in Presentes(hk.id) /\ EnCurso \in Posiciones
  BY EnCursoPresente DEF LiberarPagina
<1>3. PICK pos : pos = EnCurso
  OBVIOUS
<1>4. tabla' = [tabla EXCEPT ![hk.id][pos].bit_presencia = 0]
  BY <1>3 DEF LiberarPagina
<1>5. \A e \in Pagina :
        /\ [e EXCEPT !.bit_presencia = 0].bit_presencia = 0
        /\ [e EXCEPT !.bit_presencia = 0].numero_frame = e.numero_frame
        /\ [e EXCEPT !.bit_presencia = 0].bit_modificacion = e.bit_modificacion
  BY DEF Pagina
<1>6. tabla[hk.id][q] \in Pagina
  BY <1>1, EntradaTipo
<1>7. tabla'[hk.id][q] = IF q = pos THEN [tabla[hk.id][q] EXCEPT !.bit_presencia = 0]
                                    ELSE tabla[hk.id][q]
  BY <1>1, <1>4 DEF MemoriaTypeOK
<1> QED
  BY <1>2, <1>3, <1>5, <1>6, <1>7

\* CargarMarco: the page comes in.
LEMMA CargarMarcoEs ==
  ASSUME TypeOK, CargarMarco, NEW q \in Posiciones
  PROVE  /\ tabla'[hc.id][q].bit_presencia = IF q = hc.pos THEN 1 ELSE tabla[hc.id][q].bit_presencia
         /\ tabla'[hc.id][q].numero_frame =
              IF q = hc.pos THEN hc.marco ELSE tabla[hc.id][q].numero_frame
         /\ tabla'[hc.id][q].bit_modificacion = tabla[hc.id][q].bit_modificacion
<1>1. MemoriaTypeOK /\ hc.id \in Procesos /\ hc.pos \in Posiciones
  BY DEF TypeOK, MemoriaTypeOK, CargarMarco
<1>2. tabla'[hc.id] = Cargada(tabla[hc.id]) /\ tabla[hc.id] \in [Posiciones -> Pagina]
  BY <1>1 DEF MemoriaTypeOK, CargarMarco
<1> QED
  BY <1>1, <1>2, CargadaEs

\* ReemplazarPagina: the victim goes and the page comes in.
LEMMA ReemplazarPaginaEs ==
  ASSUME TypeOK, ReemplazarPagina, Victima \in Posiciones, NEW q \in Posiciones
  PROVE  /\ tabla'[hc.id][q].bit_presencia =
              IF q = hc.pos THEN 1 ELSE IF q = Victima THEN 0 ELSE tabla[hc.id][q].bit_presencia
         /\ tabla'[hc.id][q].numero_frame =
              IF q = hc.pos THEN hc.marco ELSE tabla[hc.id][q].numero_frame
         /\ tabla'[hc.id][q].bit_modificacion = tabla[hc.id][q].bit_modificacion
<1>1. /\ MemoriaTypeOK /\ hc.id \in Procesos /\ hc.pos \in Posiciones
      /\ tabla[hc.id] \in [Posiciones -> Pagina]
  BY DEF TypeOK, MemoriaTypeOK, ReemplazarPagina
<1>2. PICK v : v = Victima
  OBVIOUS
<1> DEFINE t == [tabla[hc.id] EXCEPT ![v].bit_presencia = 0]
<1>3. tabla' = [tabla EXCEPT ![hc.id] = Cargada(t)]
  BY <1>2 DEF ReemplazarPagina
<1>4. /\ t \in [Posiciones -> Pagina]
      /\ t[q].bit_presencia = IF q = v THEN 0 ELSE tabla[hc.id][q].bit_presencia
      /\ t[q].numero_frame = tabla[hc.id][q].numero_frame
      /\ t[q].bit_modificacion = tabla[hc.id][q].bit_modificacion
  <2>1. [tabla[hc.id][v] EXCEPT !.bit_presencia = 0] \in Pagina
    BY <1>1, <1>2, EntradaTipo, PaginaConBits
  <2>2. \A e \in Pagina : /\ [e EXCEPT !.bit_presencia = 0].bit_presencia = 0
                          /\ [e EXCEPT !.bit_presencia = 0].numero_frame = e.numero_frame
                          /\ [e EXCEPT !.bit_presencia = 0].bit_modificacion = e.bit_modificacion
    BY DEF Pagina
  <2> QED
    BY <1>1, <1>2, <2>1, <2>2
<1> HIDE DEF t
<1>5. tabla'[hc.id] = Cargada(t)
  BY <1>1, <1>3 DEF MemoriaTypeOK
<1> QED
  BY <1>1, <1>2, <1>4, <1>5, CargadaEs

\* The CPU keeps the invariant.
LEMMA InductivaCpu ==
  ASSUME TypeOK, Inductiva, AccesoCpu
  PROVE  Inductiva'
<1>0. /\ MemoriaTypeOK /\ Turnos /\ Vigente /\ Reparto
      /\ hc.en # "libre" => hc.id \in Procesos
      /\ acceso.en \in {"libre", "pedido", "con_marco"}
      /\ NULO \notin Procesos
  BY RepartoEs, MemoriaAssumption DEF TypeOK, Inductiva, MemoriaTypeOK, MemoriaAssumption
<1>a. ASSUME Turnos', Vigente', Reparto' PROVE Inductiva'
  BY <1>a, RepartoEsLuego DEF Inductiva
<1>b. ASSUME UNCHANGED <<tabla, bitmap>> PROVE Reparto'
  BY <1>0, <1>b, SinTocarTablas, RepartoIgual
<1>c. ASSUME UNCHANGED <<tabla, bitmap, hc>> PROVE Vigente'
  BY <1>0, <1>c, SinTocarTablas, VigenteIgual
<1>1. ASSUME NEW p \in Procesos, Despachar(p)
      PROVE  Inductiva'
  <2>1. Turnos'
    BY <1>0, <1>1 DEF Despachar, memoria_vars, Turnos, Presentes, Paginas
  <2> QED
    BY <1>1, <1>a, <1>b, <1>c, <2>1 DEF Despachar, memoria_vars
<1>2. CASE Devolver
  <2>1. Turnos'
    BY <1>0, <1>2 DEF Devolver, memoria_vars, Turnos, Presentes, TypeOK, MemoriaTypeOK
  <2> QED
    BY <1>2, <1>a, <1>b, <1>c, <2>1 DEF Devolver, memoria_vars
<1>3. ASSUME en_cpu # NULO, NEW n \in Paginas(en_cpu), BuscarEnTLB(n)
      PROVE  Inductiva'
  <2>1. Turnos'
    BY <1>0, <1>3 DEF BuscarEnTLB, memoria_vars, Turnos, Presentes, Acceso, Paginas
  <2> QED
    BY <1>3, <1>a, <1>b, <1>c, <2>1 DEF BuscarEnTLB, memoria_vars
<1>4. ASSUME en_cpu # NULO, NEW n \in Paginas(en_cpu), PedirTodoMemoria(n)
      PROVE  Inductiva'
  <2> DEFINE pos == Posicion(n)
  <2>1. /\ acceso' = [en |-> "pedido", pagina |-> n, marco |-> 0]
        /\ hc' = [en |-> IF tabla[en_cpu][pos].bit_presencia = 1 THEN "responder" ELSE "falta",
                  id |-> en_cpu, pos |-> pos,
                  marco |-> IF tabla[en_cpu][pos].bit_presencia = 1 THEN Marco(en_cpu, pos) ELSE 0]
        /\ UNCHANGED <<tablas, tabla, bitmap, hk, en_cpu>>
    BY <1>4 DEF PedirTodoMemoria, SolicitudFrame, Atender, Acceso
  <2>2. pos \in Posiciones
    BY <1>4, PaginasEnTabla DEF TypeOK
  <2>3. Turnos'
    BY <1>0, <1>4, <2>1 DEF Turnos, Presentes, Paginas
  <2>4. Vigente'
    <3>1. hc'.en = "responder" => pos \in Presentes(en_cpu) /\ hc'.marco = Marco(en_cpu, pos)
      BY <2>1, <2>2 DEF Presentes
    <3>2. hc'.en # "responder" => hc'.en = "falta" /\ pos \notin Presentes(en_cpu)
      BY <2>1, <2>2 DEF Presentes
    <3>3. Presentes(en_cpu)' = Presentes(en_cpu) /\ Marco(en_cpu, pos)' = Marco(en_cpu, pos)
      BY <2>1 DEF Presentes, Marco
    <3>4. hc'.id = en_cpu' /\ hc'.pos = pos
      BY <2>1
    <3> QED
      BY <3>1, <3>2, <3>3, <3>4 DEF Vigente
  <2> QED
    BY <1>a, <1>b, <2>1, <2>3, <2>4
<1>5. CASE RecibirFrame
  <2>1. /\ hc' = CpuLibre /\ acceso' = [acceso EXCEPT !.en = "con_marco", !.marco = hc.marco]
        /\ UNCHANGED <<tablas, tabla, bitmap, hk, en_cpu>>
    BY <1>5 DEF RecibirFrame
  <2>2. acceso'.en = "con_marco" /\ acceso'.pagina = acceso.pagina
    BY <2>1 DEF TypeOK
  <2>3. Turnos'
    BY <1>0, <1>5, <2>1, <2>2 DEF RecibirFrame, Turnos, Presentes, Paginas, CpuLibre, Atender
  <2>4. Vigente'
    BY <2>1 DEF Vigente, CpuLibre, Atender
  <2> QED
    BY <1>a, <1>b, <2>1, <2>3, <2>4
<1>d. ASSUME \A p \in Procesos : MismosMarcos(p), acceso.en = "con_marco", acceso' = SinAcceso,
             UNCHANGED <<tablas, bitmap, hk, hc, en_cpu>>
      PROVE  Inductiva'
  <2>1. \A p \in Procesos : Presentes(p)' = Presentes(p)
    BY <1>d, MismosMarcosDe
  <2>2. Turnos'
    BY <1>0, <1>d, <2>1 DEF Turnos, SinAcceso
  <2> QED
    BY <1>0, <1>a, <1>d, <2>2, VigenteIgual, RepartoIgual
<1>6. CASE Leer
  <2>1. \A p \in Procesos : MismosMarcos(p)
    BY <1>6, MarcosQueSiguen
  <2> QED
    BY <1>6, <1>d, <2>1 DEF Leer, Lectura
<1>7. ASSUME NEW v \in Valores, Escribir(v)
      PROVE  Inductiva'
  <2>1. \A p \in Procesos : MismosMarcos(p)
    BY <1>7, MarcosQueSiguen
  <2> QED
    BY <1>7, <1>d, <2>1 DEF Escribir, Escritura
<1> QED
  BY <1>1, <1>2, <1>3, <1>4, <1>5, <1>6, <1>7 DEF AccesoCpu

\* What the kernel asks for keeps the invariant.
LEMMA InductivaPedido ==
  ASSUME TypeOK, Inductiva, NEW p \in Procesos, PedidoDelKernel(p)
  PROVE  Inductiva'
<1>0. /\ MemoriaTypeOK /\ Turnos /\ Vigente /\ Reparto
      /\ hc.en # "libre" => hc.id \in Procesos
      /\ NULO \notin Procesos
      /\ UNCHANGED <<en_cpu, acceso>>
  BY RepartoEs, MemoriaAssumption
     DEF TypeOK, Inductiva, MemoriaTypeOK, MemoriaAssumption, PedidoDelKernel, cpu_vars
<1>1. CASE CrearTablas(p)
  <2>2. \A q \in Procesos : MismosMarcos(q)
    BY <1>1, MarcosQueSiguen
  <2>3. \A q \in Procesos : Presentes(q)' = Presentes(q)
    BY <2>2, MismosMarcosDe
  <2>4. /\ tablas' = [tablas EXCEPT ![p] = "creadas"] /\ tablas[p] = "sin_crear"
        /\ UNCHANGED <<bitmap, hk, hc>>
    BY <1>1 DEF CrearTablas
  <2>5. Turnos'
    BY <1>0, <2>3, <2>4 DEF Turnos, Paginas, MemoriaTypeOK
  <2>6. Vigente'
    BY <1>0, <2>2, <2>4, VigenteIgual
  <2>7. Reparto'
    BY <1>0, <2>2, <2>4, RepartoIgual
  <2> QED
    BY <2>5, <2>6, <2>7, RepartoEsLuego DEF Inductiva
<1>2. CASE p # en_cpu /\ (Suspender(p) \/ Finalizar(p))
  <2>1. /\ hk' \in {[op |-> "suspender", id |-> p], [op |-> "finalizar", id |-> p]}
        /\ tablas[p] = "creadas"
        /\ UNCHANGED <<tablas, tabla, bitmap, hc>>
    BY <1>2 DEF Suspender, Finalizar
  <2>2. Turnos'
    BY <1>0, <1>2, <2>1 DEF Turnos, Paginas, Presentes
  <2>3. Vigente'
    BY <1>0, <2>1, SinTocarTablas, VigenteIgual
  <2>4. Reparto'
    BY <1>0, <2>1, SinTocarTablas, RepartoIgual
  <2> QED
    BY <2>2, <2>3, <2>4, RepartoEsLuego DEF Inductiva
<1> QED
  BY <1>1, <1>2 DEF PedidoDelKernel

\* hilo_kernel keeps the invariant: the process it works for is not that of
\* hilo_cpu.
LEMMA InductivaHiloKernel ==
  ASSUME TypeOK, Inductiva, PasoHiloKernel
  PROVE  Inductiva'
<1>0. /\ MemoriaTypeOK /\ Turnos /\ Vigente /\ Reparto
      /\ hk.op # "nada" /\ hk.id \in Procesos
      /\ hc.en # "libre" => hc.id \in Procesos /\ hc.id # hk.id
      /\ UNCHANGED <<en_cpu, acceso, hc>>
  BY RepartoEs
     DEF TypeOK, Inductiva, MemoriaTypeOK, PasoHiloKernel, HiloKernel, cpu_vars, Turnos,
         GuardarPaginaSuspendida, LiberarPagina, ResponderKernel
<1>1. CASE GuardarPaginaSuspendida
  <2>4. \A p \in Procesos : MismosMarcos(p)
    BY <1>1, MarcosQueSiguen
  <2> QED
    BY <1>0, <1>1, <2>4, BitsInductiva DEF GuardarPaginaSuspendida
<1>2. CASE LiberarPagina
  <2> DEFINE pos == EnCurso
             p == hk.id
  <2>1. pos \in Presentes(p) /\ pos \in Posiciones
    BY <1>2, EnCursoPresente DEF LiberarPagina
  <2>2. /\ tabla' = [tabla EXCEPT ![p][pos].bit_presencia = 0]
        /\ bitmap' = bitmap \ {Marco(p, pos)}
        /\ UNCHANGED <<tablas, hk, hc>>
    BY <1>2 DEF LiberarPagina
  <2>3. p \in Procesos
    BY <1>0
  <2> HIDE DEF pos
  <2>4. \A q \in Procesos : q # p => MismosMarcos(q)
    BY <1>2, MarcosQueSiguen
  <2>5. ASSUME NEW q \in Posiciones
        PROVE  /\ tabla'[p][q].bit_presencia = IF q = pos THEN 0 ELSE tabla[p][q].bit_presencia
               /\ tabla'[p][q].numero_frame = tabla[p][q].numero_frame
    BY <1>2, LiberarPaginaEs DEF pos
  <2>6. Presentes(p)' = Presentes(p) \ {pos}
    BY <2>2, <2>5 DEF Presentes
  <2>7. \A q \in Posiciones : Marco(p, q)' = Marco(p, q)
    BY <2>2, <2>5 DEF Marco
  <2>8. Reparto'
    <3>1. ASSUME NEW r, r = hk.id PROVE Reparto'
      <4>1. Presentes(r)' = Presentes(r) \ {pos} /\ \A q \in Posiciones : Marco(r, q)' = Marco(r, q)
        BY <2>2, <2>6, <2>7, <3>1
      <4> QED
        BY <1>0, <2>1, <2>2, <2>3, <2>4, <3>1, <4>1, RepartoQuitar
    <3> QED
      BY <3>1
  <2>9. Vigente'
    BY <1>0, <2>2, <2>4, VigenteIgual
  <2>10. Turnos'
    <3>1. \A q \in Procesos : Presentes(q) = {} => Presentes(q)' = {}
      BY <2>1, <2>4, MismosMarcosDe
    <3> QED
      BY <1>0, <2>2, <3>1 DEF Turnos, Paginas
  <2> QED
    BY <2>8, <2>9, <2>10, RepartoEsLuego DEF Inductiva
<1>3. CASE ResponderKernel
  <2>1. /\ Presentes(hk.id) = {} /\ hk' = HiloLibre
        /\ tablas' = IF hk.op = "finalizar" THEN [tablas EXCEPT ![hk.id] = "liberadas"] ELSE tablas
        /\ tabla' = IF hk.op = "finalizar" THEN [tabla EXCEPT ![hk.id] = SinTabla] ELSE tabla
        /\ UNCHANGED <<bitmap, hc>>
    BY <1>3 DEF ResponderKernel
  <2>2. \A q \in Procesos : MismosMarcos(q)
    BY <1>3, MarcosQueSiguen
  <2>3. \A q \in Procesos : Presentes(q)' = Presentes(q)
    BY <2>2, MismosMarcosDe
  <2>4. Turnos'
    <3>1. \A q \in Procesos : q # hk.id => tablas'[q] = tablas[q]
      BY <1>0, <2>1 DEF MemoriaTypeOK
    <3>2. hk'.op = "nada"
      BY <2>1 DEF HiloLibre
    <3>3. en_cpu # NULO => en_cpu \in Procesos /\ en_cpu # hk.id
      BY <1>0 DEF TypeOK, Turnos
    <3> QED
      BY <1>0, <2>1, <2>3, <3>1, <3>2, <3>3 DEF Turnos, Paginas
  <2>5. Vigente'
    BY <1>0, <2>1, <2>2, VigenteIgual
  <2>6. Reparto'
    BY <1>0, <2>1, <2>2, RepartoIgual
  <2> QED
    BY <2>4, <2>5, <2>6, RepartoEsLuego DEF Inductiva
<1> QED
  BY <1>1, <1>2, <1>3 DEF PasoHiloKernel, HiloKernel

\* hilo_cpu keeps the invariant.
LEMMA InductivaHiloCpu ==
  ASSUME TypeOK, Inductiva, PasoHiloCpu
  PROVE  Inductiva'
<1>0. /\ MemoriaTypeOK /\ Turnos /\ Vigente /\ Reparto
      /\ hc.en # "libre" /\ hc.id \in Procesos /\ hc.pos \in Posiciones /\ hc.marco \in Marcos
      /\ UNCHANGED <<en_cpu, acceso, hk, tablas>>
  BY RepartoEs
     DEF TypeOK, Inductiva, MemoriaTypeOK, PasoHiloCpu, HiloCpu, cpu_vars,
         BuscarMarcoLibre, CargarMarco, ElegirPaginaASacar, GuardarVictima, ReemplazarPagina
<1>1. Distintos(hc.id)
  BY <1>0, ExclusivosDistintos DEF Inductiva
<1>2. ASSUME hc.en \in {"sacar", "reemplazar"}
      PROVE  Victima \in Presentes(hc.id) /\ Victima \in Posiciones /\ Marco(hc.id, Victima) = hc.marco
  <2>1. PICK pos \in Presentes(hc.id) : Marco(hc.id, pos) = hc.marco
    BY <1>0, <1>2 DEF Vigente
  <2> QED
    BY <1>0, <1>1, <2>1, VictimaEs DEF Presentes
<1>3. tablas[hc.id] = "creadas"
  BY <1>0 DEF Turnos, TypeOK, MemoriaTypeOK
<1>4. ASSUME hc'.en # "libre", hc'.id = hc.id, hc'.pos = hc.pos,
             \A q \in Procesos : q # hc.id => Presentes(q)' = Presentes(q)
      PROVE  Turnos'
  BY <1>0, <1>3, <1>4 DEF Turnos, Paginas
<1>5. CASE BuscarMarcoLibre
  <2>1. /\ hc' = [hc EXCEPT !.en = "cargar", !.marco = buscar_frame_libre]
        /\ hc.en = "falta" /\ HayLugar(hc.id) /\ UNCHANGED <<tabla, bitmap>>
    BY <1>5 DEF BuscarMarcoLibre
  <2>2. hc'.en = "cargar" /\ hc'.marco = buscar_frame_libre /\ hc'.id = hc.id /\ hc'.pos = hc.pos
    BY <1>0, <2>1 DEF MemoriaTypeOK
  <2>3. buscar_frame_libre \notin bitmap
    BY <1>0, <2>1, MarcoLibre DEF HayLugar
  <2>4. \A q : Presentes(q)' = Presentes(q) /\ Tam(q)' = Tam(q)
    BY <2>1 DEF Presentes, Tam
  <2>5. hc.pos \notin Presentes(hc.id) /\ Tam(hc.id) < MARCOS_POR_PROCESO
    BY <1>0, <2>1 DEF Vigente, HayLugar
  <2>6. Vigente'
    BY <2>1, <2>2, <2>3, <2>4, <2>5 DEF Vigente
  <2>7. Turnos'
    BY <1>4, <2>2, <2>4
  <2>8. Reparto'
    BY <1>0, <2>1, SinTocarTablas, RepartoIgual
  <2> QED
    BY <2>6, <2>7, <2>8, RepartoEsLuego DEF Inductiva
<1>6. CASE CargarMarco
  <2> DEFINE p == hc.id
             pos == hc.pos
             m == hc.marco
  <2>1. /\ hc.en = "cargar" /\ hc' = [hc EXCEPT !.en = "responder"]
        /\ bitmap' = bitmap \cup {m}
    BY <1>6 DEF CargarMarco
  <2>2. hc'.en = "responder" /\ hc'.marco = m /\ hc'.id = p /\ hc'.pos = pos
    BY <1>0, <2>1 DEF MemoriaTypeOK
  <2>3. pos \notin Presentes(p) /\ m \notin bitmap /\ Tam(p) < MARCOS_POR_PROCESO
    BY <1>0, <2>1 DEF Vigente
  <2>4. \A q \in Procesos : q # p => MismosMarcos(q)
    BY <1>6, MarcosQueSiguen
  <2>5. ASSUME NEW q \in Posiciones
        PROVE  /\ tabla'[p][q].bit_presencia = IF q = pos THEN 1 ELSE tabla[p][q].bit_presencia
               /\ tabla'[p][q].numero_frame = IF q = pos THEN m ELSE tabla[p][q].numero_frame
    BY <1>6, CargarMarcoEs
  <2>6. \A r : r = p => Presentes(r)' = Presentes(r) \cup {pos}
    BY <1>0, <2>5 DEF Presentes
  <2>7. \A r : r = p => \A q \in Posiciones : Marco(r, q)' = IF q = pos THEN m ELSE Marco(r, q)
    BY <2>5 DEF Marco
  <2>8. ASSUME NEW r, r = p PROVE Reparto'
    <3>1. Presentes(r)' = Presentes(r) \cup {pos}
      BY <2>6, <2>8
    <3>2. \A q \in Posiciones : Marco(r, q)' = IF q = pos THEN m ELSE Marco(r, q)
      BY <2>7, <2>8
    <3> QED
      BY <1>0, <2>1, <2>3, <2>4, <2>8, <3>1, <3>2, RepartoPoner
  <2>9. Vigente'
    <3>1. ASSUME NEW r, r = p PROVE pos \in Presentes(r)' /\ Marco(r, pos)' = m
      <4>1. pos \in Presentes(r)'
        BY <2>6, <3>1
      <4>2. Marco(r, pos)' = m
        BY <1>0, <2>2, <2>7, <3>1
      <4> QED
        BY <4>1, <4>2
    <3>2. pos \in Presentes(hc.id)' /\ Marco(hc.id, hc.pos)' = m
      BY <2>2, <3>1
    <3> QED
      BY <2>2, <3>2 DEF Vigente
  <2>10. Turnos'
    <3>1. \A q \in Procesos : q # hc.id => Presentes(q)' = Presentes(q)
      BY <2>4, MismosMarcosDe
    <3> QED
      BY <1>4, <2>2, <3>1
  <2> QED
    BY <2>8, <2>9, <2>10, RepartoEsLuego DEF Inductiva
<1>7. CASE ElegirPaginaASacar /\ ~(puntero_clock[hc.id] < Tam(hc.id))
  <2>1. UNCHANGED <<tabla, hc, bitmap>>
    BY <1>7 DEF ElegirPaginaASacar
  <2> QED
    BY <1>0, <2>1, SinTocarTablas, BitsInductiva
<1>8. CASE ElegirPaginaASacar /\ puntero_clock[hc.id] < Tam(hc.id)
  <2> DEFINE c == elegir_pagina_a_sacar(hc.id)
             bajados == {EnLista(hc.id, k) : k \in c.bajados}
  <2>0. PICK v : v = EnLista(hc.id, c.victima)
    OBVIOUS
  <2>1. v \in Presentes(hc.id) /\ v \in Posiciones
    BY <1>0, <1>1, <1>8, <2>0, VictimaPresente DEF Presentes
  <2>2. /\ tabla' = [tabla EXCEPT ![hc.id] = [pos \in Posiciones |->
               IF pos \in bajados THEN [tabla[hc.id][pos] EXCEPT !.bit_uso = 0]
                                  ELSE tabla[hc.id][pos]]]
        /\ hc' = [hc EXCEPT !.en = "sacar", !.marco = Marco(hc.id, v)]
        /\ hc.en = "falta" /\ UNCHANGED bitmap
    <3>1. ~(puntero_clock[hc.id] >= Tam(hc.id))
      BY <1>0, <1>8, Finitas DEF MemoriaTypeOK
    <3> QED
      BY <1>8, <2>0, <3>1, Zenon DEF ElegirPaginaASacar
  <2> HIDE DEF c, bajados
  <2>3. hc'.en = "sacar" /\ hc'.marco = Marco(hc.id, v) /\ hc'.id = hc.id /\ hc'.pos = hc.pos
    BY <1>0, <2>2 DEF MemoriaTypeOK
  <2>4. \A q \in Procesos : MismosMarcos(q)
    BY <1>8, MarcosQueSiguen
  <2>5. ASSUME NEW r \in Procesos
        PROVE  Presentes(r)' = Presentes(r) /\ \A pos \in Presentes(r) : Marco(r, pos)' = Marco(r, pos)
    BY <2>4, MismosMarcosDe
  <2>6. hc.pos \notin Presentes(hc.id)
    BY <1>0, <2>2 DEF Vigente
  <2>7. ASSUME NEW r, r = hc.id
        PROVE  hc.pos \notin Presentes(r)' /\ v \in Presentes(r)' /\ Marco(r, v)' = Marco(r, v)
    <3>1. r \in Procesos /\ v \in Presentes(r) /\ hc.pos \notin Presentes(r)
      BY <1>0, <2>1, <2>6, <2>7
    <3> QED
      BY <2>5, <3>1
  <2>8. /\ hc'.pos \notin Presentes(hc.id)'
        /\ v \in Presentes(hc.id)' /\ Marco(hc.id, v)' = hc'.marco
    BY <2>3, <2>7
  <2>9. Vigente'
    BY <2>3, <2>8 DEF Vigente
  <2>10. Turnos'
    BY <1>4, <2>3, <2>5
  <2>11. Reparto'
    BY <1>0, <2>2, <2>4, RepartoIgual
  <2> QED
    BY <2>9, <2>10, <2>11, RepartoEsLuego DEF Inductiva
<1>9. CASE GuardarVictima
  <2>1. /\ hc.en = "sacar" /\ hc' = [hc EXCEPT !.en = "reemplazar"] /\ UNCHANGED bitmap
        /\ \/ tabla' = [tabla EXCEPT ![hc.id][Victima].bit_modificacion = 0]
           \/ UNCHANGED tabla
    BY <1>9 DEF GuardarVictima
  <2>2. hc'.en = "reemplazar" /\ hc'.marco = hc.marco /\ hc'.id = hc.id /\ hc'.pos = hc.pos
    BY <1>0, <2>1 DEF MemoriaTypeOK
  <2>3. Victima \in Presentes(hc.id) /\ Victima \in Posiciones /\ Marco(hc.id, Victima) = hc.marco
    BY <1>2, <2>1
  <2>4. PICK v : v = Victima
    OBVIOUS
  <2>5. \A q \in Procesos : MismosMarcos(q)
    BY <1>9, MarcosQueSiguen
  <2>6. ASSUME NEW r \in Procesos
        PROVE  Presentes(r)' = Presentes(r) /\ \A pos \in Presentes(r) : Marco(r, pos)' = Marco(r, pos)
    BY <2>5, MismosMarcosDe
  <2>7. hc.pos \notin Presentes(hc.id)
    BY <1>0, <2>1 DEF Vigente
  <2>8. ASSUME NEW r, r = hc.id
        PROVE  hc.pos \notin Presentes(r)' /\ v \in Presentes(r)' /\ Marco(r, v)' = Marco(r, v)
    BY <1>0, <2>3, <2>4, <2>6, <2>7, <2>8
  <2>9. /\ hc'.pos \notin Presentes(hc.id)'
        /\ v \in Presentes(hc.id)' /\ Marco(hc.id, v)' = hc'.marco
    BY <2>2, <2>3, <2>4, <2>8
  <2>10. Vigente'
    BY <2>2, <2>9 DEF Vigente
  <2>11. Turnos'
    BY <1>4, <2>2, <2>6
  <2>12. Reparto'
    BY <1>0, <2>1, <2>5, RepartoIgual
  <2> QED
    BY <2>10, <2>11, <2>12, RepartoEsLuego DEF Inductiva
<1>10. CASE ReemplazarPagina
  <2> DEFINE p == hc.id
             pos == hc.pos
             m == hc.marco
  <2>1. hc.en = "reemplazar" /\ hc' = [hc EXCEPT !.en = "responder"] /\ UNCHANGED bitmap
    BY <1>10 DEF ReemplazarPagina
  <2>2. hc'.en = "responder" /\ hc'.marco = m /\ hc'.id = p /\ hc'.pos = pos
    BY <1>0, <2>1 DEF MemoriaTypeOK
  <2>3. pos \notin Presentes(p)
    BY <1>0, <2>1 DEF Vigente
  <2>4. PICK v : v = Victima
    OBVIOUS
  <2>5. v \in Presentes(p) /\ v \in Posiciones /\ Marco(p, v) = m
    BY <1>2, <2>1, <2>4
  <2>6. \A q \in Procesos : q # p => MismosMarcos(q)
    BY <1>10, MarcosQueSiguen
  <2>9. ASSUME NEW q \in Posiciones
        PROVE  /\ tabla'[p][q].bit_presencia =
                    IF q = pos THEN 1 ELSE IF q = v THEN 0 ELSE tabla[p][q].bit_presencia
               /\ tabla'[p][q].numero_frame = IF q = pos THEN m ELSE tabla[p][q].numero_frame
    BY <1>10, <2>4, <2>5, ReemplazarPaginaEs
  <2>10. \A r : r = p => Presentes(r)' = (Presentes(r) \ {v}) \cup {pos}
    BY <1>0, <2>3, <2>5, <2>9 DEF Presentes
  <2>11. \A r : r = p => \A q \in Posiciones : Marco(r, q)' = IF q = pos THEN m ELSE Marco(r, q)
    BY <2>9 DEF Marco
  <2>12. ASSUME NEW r, r = p PROVE Reparto'
    <3>1. Presentes(r)' = (Presentes(r) \ {v}) \cup {pos}
      BY <2>10, <2>12
    <3>2. \A q \in Posiciones : Marco(r, q)' = IF q = pos THEN Marco(r, v) ELSE Marco(r, q)
      BY <2>5, <2>11, <2>12
    <3> QED
      BY <1>0, <2>1, <2>3, <2>5, <2>6, <2>12, <3>1, <3>2, RepartoCambiar
  <2>13. Vigente'
    <3>1. ASSUME NEW r, r = p PROVE pos \in Presentes(r)' /\ Marco(r, pos)' = m
      <4>1. pos \in Presentes(r)'
        BY <2>10, <3>1
      <4>2. Marco(r, pos)' = m
        BY <1>0, <2>2, <2>11, <3>1
      <4> QED
        BY <4>1, <4>2
    <3>2. pos \in Presentes(hc.id)' /\ Marco(hc.id, hc.pos)' = m
      BY <2>2, <3>1
    <3> QED
      BY <2>2, <3>2 DEF Vigente
  <2>14. Turnos'
    <3>1. \A q \in Procesos : q # hc.id => Presentes(q)' = Presentes(q)
      BY <2>6, MismosMarcosDe
    <3> QED
      BY <1>4, <2>2, <3>1
  <2> QED
    BY <2>12, <2>13, <2>14, RepartoEsLuego DEF Inductiva
<1> QED
  BY <1>5, <1>6, <1>7, <1>8, <1>9, <1>10 DEF PasoHiloCpu, HiloCpu

\* Every step keeps the invariant.
LEMMA NextInductiva ==
  ASSUME TypeOK, Inductiva, [Next]_vars
  PROVE  Inductiva'
<1>1. CASE UNCHANGED vars
  BY <1>1, SinTocarTablas, BitsInductiva DEF vars, memoria_vars, cpu_vars
<1> QED
  BY <1>1, InductivaCpu, InductivaPedido, InductivaHiloKernel, InductivaHiloCpu DEF Next

-----------------------------------------------------------------------------
\* Theorems

\* Types and the inductive invariant, together: each needs the other.
THEOREM Invariantes == Spec => [](TypeOK /\ Inductiva)
  BY InitTypeOK, InitInductiva, NextTypeOK, NextInductiva, PTL DEF Spec

\* Every variable of memory, of the TLB and of the CPU keeps its type: no frame
\* number outside memory, no page outside the tables.
THEOREM TipoCorrecto == Spec => []TypeOK
  BY Invariantes, PTL

\* The threads of memory never work on one process, and what hilo_cpu found out
\* is still so when it uses it.
THEOREM HilosSeparados == Spec => []Inductiva
  BY Invariantes, PTL

\* No two pages are ever in one frame.
THEOREM UnaPaginaPorMarco == Spec => []MarcosExclusivos
<1>1. Inductiva => MarcosExclusivos
  BY DEF Inductiva
<1> QED
  BY <1>1, HilosSeparados, PTL

\* The bitmap has the frames in use and no other.
THEOREM BitmapExacto == Spec => []BitmapFiel
<1>1. Inductiva => BitmapFiel
  BY DEF Inductiva
<1> QED
  BY <1>1, HilosSeparados, PTL

\* No process is given more than MARCOS_POR_PROCESO frames.
THEOREM CupoDeMarcos == Spec => []MarcosRespetados
<1>1. Inductiva => MarcosRespetados
  BY DEF Inductiva
<1> QED
  BY <1>1, HilosSeparados, PTL

-----------------------------------------------------------------------------
\* With clock_mejorado and frames for everybody, cargar_a_memoria always finds a page to
\* evict. With clock_comun it may not: the hand is left after the last page of the list.

\* The processes with pages in frames, and the one in the CPU.
Ocupantes == {p \in Procesos : Presentes(p) # {} \/ p = en_cpu}

\* Memory has MARCOS_POR_PROCESO frames for each of them.
HayMarcos ==
  IsFiniteSet(Ocupantes) /\ Cardinality(Ocupantes) * MARCOS_POR_PROCESO <= CantidadDeMarcos

\* Each hand is on one of the places a process may fill.
ManoEnLista == \A p \in Procesos : puntero_clock[p] < MARCOS_POR_PROCESO

\* Who has a frame in use, ...
Duenio(f) == CHOOSE p \in Procesos : \E pos \in Presentes(p) : Marco(p, pos) = f
\* ... for which page, ...
PaginaEn(f) == CHOOSE pos \in Presentes(Duenio(f)) : Marco(Duenio(f), pos) = f
\* ... and where in the list of its owner.
Puesto(f) == <<Duenio(f), Cardinality(Menores(Duenio(f), PaginaEn(f)))>>

\* Every frame in use has an owner of its own, and a place in its list.
LEMMA PuestoUnico ==
  ASSUME TypeOK, Inductiva
  PROVE  /\ \A f \in bitmap : /\ Duenio(f) \in Ocupantes
                              /\ Puesto(f)[2] \in 0..(Tam(Duenio(f)) - 1)
                              /\ Tam(Duenio(f)) \in Nat /\ Tam(Duenio(f)) <= MARCOS_POR_PROCESO
         /\ \A f, g \in bitmap : Puesto(f) = Puesto(g) => f = g
<1>0. MemoriaTypeOK /\ Turnos /\ Reparto
  BY RepartoEs DEF TypeOK, Inductiva
<1>1. ASSUME NEW f \in bitmap
      PROVE  /\ Duenio(f) \in Procesos /\ PaginaEn(f) \in Presentes(Duenio(f))
             /\ Marco(Duenio(f), PaginaEn(f)) = f
  <2>1. \E p \in Procesos : \E pos \in Presentes(p) : Marco(p, pos) = f
    BY <1>0 DEF Reparto
  <2>2. Duenio(f) \in Procesos /\ \E pos \in Presentes(Duenio(f)) : Marco(Duenio(f), pos) = f
    BY <2>1 DEF Duenio
  <2> QED
    BY <2>2 DEF PaginaEn
<1>2. \A p \in Procesos : \A a, b \in Presentes(p) : Marco(p, a) = Marco(p, b) => a = b
  BY <1>0 DEF Reparto
<1>3. ASSUME NEW f \in bitmap
      PROVE  /\ Duenio(f) \in Ocupantes
             /\ Puesto(f)[2] \in 0..(Tam(Duenio(f)) - 1)
             /\ Tam(Duenio(f)) \in Nat /\ Tam(Duenio(f)) <= MARCOS_POR_PROCESO
  <2>1. Duenio(f) \in Ocupantes
    BY <1>1 DEF Ocupantes
  <2>2. Tam(Duenio(f)) \in Nat /\ Tam(Duenio(f)) <= MARCOS_POR_PROCESO
    BY <1>1, Finitas DEF Inductiva, MarcosRespetados
  <2>3. Cardinality(Menores(Duenio(f), PaginaEn(f))) \in 0..(Tam(Duenio(f)) - 1)
    BY <1>0, <1>1, <1>2, EnListaPresente
  <2> QED
    BY <2>1, <2>2, <2>3 DEF Puesto
<1>4. ASSUME NEW f \in bitmap, NEW g \in bitmap, Puesto(f) = Puesto(g)
      PROVE  f = g
  <2>1. PICK p, a, b : p = Duenio(f) /\ a = PaginaEn(f) /\ b = PaginaEn(g)
    OBVIOUS
  <2>2. /\ p = Duenio(g) /\ p \in Procesos /\ a \in Presentes(p) /\ b \in Presentes(p)
        /\ Marco(p, a) = f /\ Marco(p, b) = g
        /\ Cardinality(Menores(p, a)) = Cardinality(Menores(p, b))
    BY <1>1, <1>4, <2>1 DEF Puesto
  <2>3. a = b
    BY <1>0, <1>2, <2>2, EnListaPresente
  <2> QED
    BY <2>2, <2>3
<1> QED
  BY <1>3, <1>4

\* When there are frames for everybody, a process with a place to fill finds one.
LEMMA QuedaMarco ==
  ASSUME TypeOK, Inductiva, HayMarcos, NEW p \in Ocupantes, Tam(p) < MARCOS_POR_PROCESO
  PROVE  bitmap # Marcos
<1> DEFINE K == 0..(MARCOS_POR_PROCESO - 1)
           T == (Ocupantes \X K) \ {<<p, MARCOS_POR_PROCESO - 1>>}
           F == [f \in bitmap |-> Puesto(f)]
<1>1. MARCOS_POR_PROCESO \in Nat \ {0} /\ CantidadDeMarcos \in Nat \ {0}
  BY MemoriaAssumption DEF MemoriaAssumption
<1>2. IsFiniteSet(K) /\ Cardinality(K) = MARCOS_POR_PROCESO
  <2>1. 0 \in Int /\ MARCOS_POR_PROCESO - 1 \in Int /\ ~(0 > MARCOS_POR_PROCESO - 1)
    BY <1>1
  <2>2. /\ IsFiniteSet(K)
        /\ Cardinality(K) = IF 0 > MARCOS_POR_PROCESO - 1 THEN 0 ELSE (MARCOS_POR_PROCESO - 1) - 0 + 1
    BY <2>1, FS_Interval, Zenon
  <2> QED
    BY <1>1, <2>2
<1>3. Cardinality(Marcos) = CantidadDeMarcos
  <2>1. 0 \in Int /\ CantidadDeMarcos - 1 \in Int
    BY <1>1
  <2>2. Cardinality(0..(CantidadDeMarcos - 1)) =
          IF 0 > CantidadDeMarcos - 1 THEN 0 ELSE (CantidadDeMarcos - 1) - 0 + 1
    BY <2>1, FS_Interval, Zenon
  <2> QED
    BY <1>1, <2>2 DEF Marcos
<1>4. /\ IsFiniteSet(Ocupantes \X K)
      /\ Cardinality(Ocupantes \X K) = Cardinality(Ocupantes) * MARCOS_POR_PROCESO
  <2> HIDE DEF K
  <2> QED
    BY <1>2, FS_Product DEF HayMarcos
<1>5. <<p, MARCOS_POR_PROCESO - 1>> \in Ocupantes \X K
  BY <1>1
<1>6. IsFiniteSet(T) /\ Cardinality(T) = Cardinality(Ocupantes) * MARCOS_POR_PROCESO - 1
  <2> HIDE DEF K
  <2> QED
    BY <1>4, <1>5, FS_RemoveElement
<1>7. F \in [bitmap -> T]
  <2> SUFFICES ASSUME NEW f \in bitmap PROVE Puesto(f) \in T
    OBVIOUS
  <2>1. PICK q, k : q = Duenio(f) /\ k = Cardinality(Menores(Duenio(f), PaginaEn(f)))
    OBVIOUS
  <2>2. Puesto(f) = <<q, k>>
    BY <2>1 DEF Puesto
  <2>3. /\ q \in Ocupantes /\ k \in 0..(Tam(q) - 1) /\ Tam(q) \in Nat
        /\ Tam(q) <= MARCOS_POR_PROCESO
    BY <2>1, <2>2, PuestoUnico
  <2>4. k \in K /\ (q = p => k # MARCOS_POR_PROCESO - 1)
    BY <1>1, <2>3
  <2> QED
    BY <2>2, <2>3, <2>4
<1>8. F \in Injection(bitmap, T)
  <2>1. \A f, g \in bitmap : F[f] = F[g] => f = g
    BY PuestoUnico
  <2> HIDE DEF F, T
  <2> QED
    BY <1>7, <2>1, Fun_IsInj
<1>9. Cardinality(bitmap) <= Cardinality(T)
  <2> HIDE DEF F, T
  <2> QED
    BY <1>6, <1>8, FS_Injection
<1>10. Cardinality(Ocupantes) \in Nat /\ Cardinality(Ocupantes) * MARCOS_POR_PROCESO \in Nat
  BY <1>1, FS_CardinalityType DEF HayMarcos
<1> QED
  BY <1>1, <1>3, <1>6, <1>9, <1>10 DEF HayMarcos

\* A step: the hand is left on the list, and there was a page to choose.
LEMMA ManoPaso ==
  ASSUME ALGORITMO_REEMPLAZO = "CLOCK-M", TypeOK, Inductiva, HayMarcos, ManoEnLista, SinCaida,
         [Next]_vars
  PROVE  ManoEnLista' /\ SinCaida'
<1>0. /\ MemoriaTypeOK /\ Turnos /\ MarcosRespetados
      /\ MARCOS_POR_PROCESO \in Nat \ {0}
  BY MemoriaAssumption DEF TypeOK, Inductiva, MemoriaAssumption
<1>1. CASE ElegirPaginaASacar
  <2>1. hc.id \in Procesos /\ hc.id \in Ocupantes
    BY <1>0, <1>1 DEF ElegirPaginaASacar, MemoriaTypeOK, Turnos, Ocupantes
  <2>2. Tam(hc.id) \in Nat /\ Tam(hc.id) <= MARCOS_POR_PROCESO
    BY <1>0, <2>1, Finitas DEF MarcosRespetados
  <2>3. Tam(hc.id) = MARCOS_POR_PROCESO
    BY <1>0, <1>1, <2>1, <2>2, QuedaMarco DEF ElegirPaginaASacar, HayLugar
  <2>4. puntero_clock[hc.id] \in Nat /\ puntero_clock[hc.id] < Tam(hc.id)
    BY <1>0, <2>1, <2>3 DEF ManoEnLista, MemoriaTypeOK
  <2>5. /\ UNCHANGED caido
        /\ puntero_clock' = [puntero_clock EXCEPT ![hc.id] = elegir_pagina_a_sacar(hc.id).puntero]
    BY <1>1, <2>2, <2>4 DEF ElegirPaginaASacar
  <2>6. elegir_pagina_a_sacar(hc.id).puntero \in 0..(Tam(hc.id) - 1)
    BY <1>0, <2>1, <2>4, VictimaPresente, ExclusivosDistintos DEF Inductiva
  <2>7. puntero_clock'[hc.id] < MARCOS_POR_PROCESO
    BY <1>0, <2>1, <2>2, <2>3, <2>5, <2>6 DEF MemoriaTypeOK
  <2>8. \A p \in Procesos : p # hc.id => puntero_clock'[p] = puntero_clock[p]
    BY <1>0, <2>1, <2>5 DEF MemoriaTypeOK
  <2> QED
    BY <2>5, <2>7, <2>8 DEF ManoEnLista, SinCaida
<1>2. ASSUME NEW q \in Procesos, CrearTablas(q)
      PROVE  ManoEnLista' /\ SinCaida'
  BY <1>0, <1>2 DEF CrearTablas, ManoEnLista, SinCaida, MemoriaTypeOK
<1>3. CASE UNCHANGED <<puntero_clock, caido>>
  BY <1>3 DEF ManoEnLista, SinCaida
<1>4. AccesoCpu => UNCHANGED <<puntero_clock, caido>>
  BY DEF AccesoCpu, Despachar, Devolver, BuscarEnTLB, PedirTodoMemoria, SolicitudFrame,
         RecibirFrame, Leer, Lectura, Escribir, Escritura, memoria_vars
<1>5. PasoHiloKernel => UNCHANGED <<puntero_clock, caido>>
  BY DEF PasoHiloKernel, HiloKernel, GuardarPaginaSuspendida, LiberarPagina, ResponderKernel
<1>6. PasoHiloCpu => ElegirPaginaASacar \/ UNCHANGED <<puntero_clock, caido>>
  BY DEF PasoHiloCpu, HiloCpu, BuscarMarcoLibre, CargarMarco, GuardarVictima, ReemplazarPagina
<1>7. \A q \in Procesos : PedidoDelKernel(q) => CrearTablas(q) \/ UNCHANGED <<puntero_clock, caido>>
  BY DEF PedidoDelKernel, Suspender, Finalizar
<1>8. UNCHANGED vars => UNCHANGED <<puntero_clock, caido>>
  BY DEF vars, memoria_vars
<1> QED
  BY <1>1, <1>2, <1>3, <1>4, <1>5, <1>6, <1>7, <1>8 DEF Next

\* clock_mejorado never goes past the end of the list, and cargar_a_memoria never
\* evicts from an empty one, while memory has MARCOS_POR_PROCESO frames for each
\* process with a page in a frame and the one in the CPU.
THEOREM SinCaidaSiHayMarcos ==
  ALGORITMO_REEMPLAZO = "CLOCK-M" => (Spec /\ []HayMarcos => []SinCaida)
<1> SUFFICES ASSUME ALGORITMO_REEMPLAZO = "CLOCK-M"
             PROVE  Spec /\ []HayMarcos => []SinCaida
  OBVIOUS
<1>1. Init => ManoEnLista /\ SinCaida
  BY MemoriaAssumption DEF Init, MemoriaInit, ManoEnLista, SinCaida, MemoriaAssumption
<1>2. TypeOK /\ Inductiva /\ HayMarcos /\ ManoEnLista /\ SinCaida /\ [Next]_vars
        => (ManoEnLista /\ SinCaida)'
  BY ManoPaso
<1> QED
  BY <1>1, <1>2, Invariantes, PTL DEF Spec

\* In particular when it has them for all the processes there will ever be.
THEOREM SinCaidaConMemoria ==
  ASSUME ALGORITMO_REEMPLAZO = "CLOCK-M", IsFiniteSet(Procesos),
         Cardinality(Procesos) * MARCOS_POR_PROCESO <= CantidadDeMarcos
  PROVE  Spec => []SinCaida
<1>1. HayMarcos
  <2>1. Ocupantes \in SUBSET Procesos
    BY DEF Ocupantes
  <2>2. IsFiniteSet(Ocupantes) /\ Cardinality(Ocupantes) <= Cardinality(Procesos)
    BY <2>1, FS_Subset
  <2>3. /\ Cardinality(Ocupantes) \in Nat /\ Cardinality(Procesos) \in Nat
        /\ MARCOS_POR_PROCESO \in Nat /\ CantidadDeMarcos \in Nat
    BY <2>2, FS_CardinalityType, MemoriaAssumption DEF MemoriaAssumption
  <2>4. Cardinality(Ocupantes) * MARCOS_POR_PROCESO <= Cardinality(Procesos) * MARCOS_POR_PROCESO
    BY <2>2, <2>3
  <2> QED
    BY <2>2, <2>3, <2>4 DEF HayMarcos
<1> QED
  BY <1>1, SinCaidaSiHayMarcos, PTL
=============================================================================
