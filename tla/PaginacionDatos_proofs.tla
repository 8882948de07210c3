----------------------- MODULE PaginacionDatos_proofs -----------------------
(***************************************************************************)
(* What the CPU finds in memory: the frame it uses is that of its page, a  *)
(* page that may be dropped is the same in swap, and together they give    *)
(* each program the flat memory of MemoriaPlana.                           *)
(***************************************************************************)
EXTENDS Paginacion_proofs

-----------------------------------------------------------------------------
\* The TLB while it has one entry or two

\* An entry moved to the end comes after every other.
LEMMA TurnoAlFinal ==
  ASSUME NEW orden \in Ordenes, NEW l \in EntradasTLB, NEW m \in EntradasTLB, m # l
  PROVE  Turno(AlFinal(orden, l), m) < Turno(AlFinal(orden, l), l)
<1> DEFINE o == AlFinal(orden, l)
<1>1. o \in Ordenes
  BY AlFinalOrden
<1>2. ENTRADAS_TLB \in EntradasTLB /\ o[ENTRADAS_TLB] = l
  BY TLBAssumption DEF AlFinal, EntradasTLB, TLBAssumption
<1> HIDE DEF o
<1>3. /\ Turno(o, l) \in EntradasTLB /\ o[Turno(o, l)] = l
      /\ Turno(o, m) \in EntradasTLB /\ o[Turno(o, m)] = m
  BY <1>1, TurnoDe
<1>4. Turno(o, l) = ENTRADAS_TLB
  BY <1>1, <1>2, <1>3 DEF Ordenes
<1>5. Turno(o, m) # ENTRADAS_TLB
  BY <1>2, <1>3
<1>6. Turno(o, m) < Turno(o, l)
  BY <1>3, <1>4, <1>5, TLBAssumption DEF EntradasTLB, TLBAssumption
<1> QED
  BY <1>6 DEF o

\* Of two entries with one frame, marco_obsoleto tells the older one.
LEMMA RelevadaObsoleta ==
  ASSUME TLBTypeOK, ENTRADAS_TLB <= 2, NEW l \in EntradasTLB, EntradaRelevada(l)
  PROVE  marco_obsoleto(lista_tlb[l].pagina, lista_tlb[l].marco)
<1> DEFINE f == lista_tlb[l].marco
<1>1. PICK m \in ConMarco(f) : Turno(primera_referencia, l) < Turno(primera_referencia, m)
  BY DEF EntradaRelevada
<1>2. m \in EntradasTLB /\ l \in ConMarco(f)
  BY <1>1 DEF ConMarco
<1>3. Turno(primera_referencia, l) \in Nat /\ Turno(primera_referencia, m) \in Nat /\ m # l
  <2>1. Turno(primera_referencia, l) \in EntradasTLB /\ Turno(primera_referencia, m) \in EntradasTLB
    BY <1>2, TurnoDe DEF TLBTypeOK
  <2> QED
    BY <1>1, <2>1 DEF EntradasTLB
<1>4. ConMarco(f) = {l, m}
  <2>1. EntradasTLB \subseteq {l, m}
    BY <1>2, <1>3, TLBAssumption DEF EntradasTLB, TLBAssumption
  <2> QED
    BY <1>1, <1>2, <2>1 DEF ConMarco
<1>5. marco_duplicado(f)
  <2>1. IsFiniteSet({l}) /\ Cardinality({l}) = 1
    BY FS_Singleton
  <2>2. Cardinality({l} \cup {m}) = Cardinality({l}) + 1
    BY <1>3, <2>1, FS_AddElement
  <2>3. {l} \cup {m} = {l, m}
    OBVIOUS
  <2> QED
    BY <1>4, <2>1, <2>2, <2>3 DEF marco_duplicado
<1>6. MasViejo(f) = l
  <2> DEFINE P(x) == \A y \in ConMarco(f) : Turno(primera_referencia, x) <= Turno(primera_referencia, y)
  <2>1. P(l) /\ ~P(m)
    BY <1>1, <1>3, <1>4
  <2>2. \A x \in ConMarco(f) : P(x) => x = l
    BY <1>4, <2>1
  <2>3. MasViejo(f) = CHOOSE x \in ConMarco(f) : P(x)
    BY DEF MasViejo
  <2> HIDE DEF P
  <2> QED
    BY <1>2, <2>1, <2>2, <2>3
<1> QED
  BY <1>5, <1>6 DEF marco_obsoleto

\* The pages of the process in the CPU that are in a frame stay in it.
SigueEnMarco ==
  en_cpu \in Procesos => \A pos \in Posiciones :
    tabla[en_cpu][pos].bit_presencia = 1 =>
      /\ tabla'[en_cpu][pos].bit_presencia = 1
      /\ tabla'[en_cpu][pos].numero_frame = tabla[en_cpu][pos].numero_frame

\* It is enough that no page of the process moves.
LEMMA SigueSiMismos ==
  ASSUME en_cpu \in Procesos => MismosMarcos(en_cpu)
  PROVE  SigueEnMarco
  BY DEF MismosMarcos, SigueEnMarco

\* TLBFiel while the TLB does not change, nor an answer of hilo_cpu.
LEMMA TLBFielIgual ==
  ASSUME TypeOK, TLBFiel, UNCHANGED <<tlb_vars, en_cpu>>, SigueEnMarco,
         hc.en = "responder" => hc' = hc
  PROVE  TLBFiel'
<1> SUFFICES ASSUME NEW l \in EntradasTLB, lista_tlb'[l] # Vacia
             PROVE  (/\ en_cpu # NULO /\ lista_tlb[l].pagina \in Paginas(en_cpu)
                     /\ \/ EntradaAlDia(l) \/ EntradaRelevada(l)
                        \/ hc.en = "responder" /\ hc.marco = lista_tlb[l].marco)'
  BY DEF TLBFiel
<1>1. /\ en_cpu # NULO /\ lista_tlb[l].pagina \in Paginas(en_cpu)
      /\ \/ EntradaAlDia(l) \/ EntradaRelevada(l)
         \/ hc.en = "responder" /\ hc.marco = lista_tlb[l].marco
  BY DEF TLBFiel, tlb_vars
<1>2. (en_cpu # NULO /\ lista_tlb[l].pagina \in Paginas(en_cpu))'
  BY <1>1 DEF tlb_vars, Paginas
<1>3. ASSUME EntradaAlDia(l) PROVE EntradaAlDia(l)'
  <2>1. Posicion(lista_tlb[l].pagina) \in Posiciones /\ en_cpu \in Procesos
    BY <1>1, PaginasEnTabla DEF TypeOK
  <2>2. PICK pos : pos = Posicion(lista_tlb[l].pagina)
    OBVIOUS
  <2>3. Posicion(lista_tlb[l].pagina)' = pos
    BY <2>2 DEF tlb_vars, Posicion
  <2>4. tabla[en_cpu][pos].bit_presencia = 1 /\ tabla[en_cpu][pos].numero_frame = lista_tlb[l].marco
    BY <1>3, <2>2 DEF EntradaAlDia
  <2>5. tabla'[en_cpu][pos].bit_presencia = 1 /\ tabla'[en_cpu][pos].numero_frame = lista_tlb[l].marco
    BY <2>1, <2>2, <2>4 DEF SigueEnMarco
  <2> QED
    BY <2>3, <2>5 DEF EntradaAlDia, tlb_vars
<1>4. ASSUME EntradaRelevada(l) PROVE EntradaRelevada(l)'
  BY <1>4 DEF EntradaRelevada, ConMarco, Turno, tlb_vars
<1> QED
  BY <1>1, <1>2, <1>3, <1>4 DEF tlb_vars

\* MarcoVigente while the access does not change, or is over.
LEMMA MarcoVigenteIgual ==
  ASSUME TypeOK, Turnos, MarcoVigente, SigueEnMarco,
         UNCHANGED <<en_cpu, acceso>> \/ acceso'.en # "con_marco"
  PROVE  MarcoVigente'
<1>1. CASE acceso'.en # "con_marco"
  BY <1>1 DEF MarcoVigente
<1>2. CASE UNCHANGED <<en_cpu, acceso>> /\ acceso.en = "con_marco"
  <2>1. en_cpu \in Procesos /\ Posicion(acceso.pagina) \in Posiciones
    BY <1>2, PaginasEnTabla DEF TypeOK, Turnos
  <2>2. PICK pos : pos = Posicion(acceso.pagina)
    OBVIOUS
  <2>3. Posicion(acceso.pagina)' = pos
    BY <1>2, <2>2 DEF Posicion
  <2>4. tabla[en_cpu][pos].bit_presencia = 1 /\ tabla[en_cpu][pos].numero_frame = acceso.marco
    BY <1>2, <2>2 DEF MarcoVigente
  <2>5. tabla'[en_cpu][pos].bit_presencia = 1 /\ tabla'[en_cpu][pos].numero_frame = acceso.marco
    BY <2>1, <2>2, <2>4 DEF SigueEnMarco
  <2> QED
    BY <1>2, <2>3, <2>5 DEF MarcoVigente
<1> QED
  BY <1>1, <1>2 DEF MarcoVigente

\* The TLB starts empty.
LEMMA TLBInicial == Init => TLBFiel /\ MarcoVigente
  BY DEF Init, TLBInit, TLBFiel, MarcoVigente, SinAcceso

\* hilo_kernel and the kernel do not touch the process in the CPU.
LEMMA SigueConKernel ==
  ASSUME TypeOK, Inductiva, PasoHiloKernel \/ \E p \in Procesos : PedidoDelKernel(p)
  PROVE  SigueEnMarco /\ hc' = hc /\ UNCHANGED <<tlb_vars, cpu_vars>>
<1>1. hk.op # "nada" => hk.id # en_cpu
  BY DEF Inductiva, Turnos
<1>2. CASE PasoHiloKernel
  <2>1. hk.op # "nada" /\ hc' = hc /\ UNCHANGED <<tlb_vars, cpu_vars>>
    BY <1>2 DEF PasoHiloKernel, HiloKernel, GuardarPaginaSuspendida, LiberarPagina, ResponderKernel
  <2>2. \A p \in Procesos : p # hk.id => MismosMarcos(p)
    BY <1>2, MarcosQueSiguen DEF PasoHiloKernel, HiloKernel
  <2> QED
    BY <1>1, <2>1, <2>2, SigueSiMismos
<1>3. ASSUME NEW p \in Procesos, PedidoDelKernel(p)
      PROVE  SigueEnMarco /\ hc' = hc /\ UNCHANGED <<tlb_vars, cpu_vars>>
  <2>1. hc' = hc /\ UNCHANGED <<tlb_vars, cpu_vars>>
    BY <1>3 DEF PedidoDelKernel, CrearTablas, Suspender, Finalizar
  <2>2. \A q \in Procesos : MismosMarcos(q)
    BY <1>3, MarcosQueSiguen, SinTocarTablas DEF PedidoDelKernel, Suspender, Finalizar
  <2> QED
    BY <2>1, <2>2, SigueSiMismos
<1> QED
  BY <1>2, <1>3

\* A hit gives the frame its page is in.
LEMMA AciertoVigente ==
  ASSUME TypeOK, Inductiva, TLBFiel, ENTRADAS_TLB <= 2,
         NEW n \in Paginas(en_cpu), en_cpu # NULO, BuscarEnTLB(n)
  PROVE  /\ encontrar_pagina(n) \in EntradasTLB
         /\ ~EntradaRelevada(encontrar_pagina(n))
         /\ tabla[en_cpu][Posicion(n)].bit_presencia = 1
         /\ tabla[en_cpu][Posicion(n)].numero_frame = lista_tlb[encontrar_pagina(n)].marco
<1> DEFINE l == encontrar_pagina(n)
<1>1. l \in EntradasTLB /\ lista_tlb[l].pagina = n
  BY EncontrarPagina DEF BuscarEnTLB
<1>2. lista_tlb[l] # Vacia
  BY <1>1, PaginasEnTabla DEF TypeOK, Vacia
<1>3. ~marco_obsoleto(lista_tlb[l].pagina, lista_tlb[l].marco)
  BY <1>1 DEF BuscarEnTLB
<1>4. ~EntradaRelevada(l)
  BY <1>1, <1>3, RelevadaObsoleta DEF TypeOK
<1>5. hc.en = "libre"
  BY DEF BuscarEnTLB, Inductiva, Turnos
<1>6. EntradaAlDia(l)
  BY <1>1, <1>2, <1>4, <1>5 DEF TLBFiel
<1> QED
  BY <1>1, <1>4, <1>6 DEF EntradaAlDia

\* A hit makes its entry the last one used, after any entry it takes over from.
LEMMA TLBFielAcierto ==
  ASSUME TypeOK, Inductiva, TLBFiel, ENTRADAS_TLB <= 2,
         NEW n \in Paginas(en_cpu), en_cpu # NULO, BuscarEnTLB(n)
  PROVE  TLBFiel' /\ MarcoVigente'
<1>0. PICK l : l = encontrar_pagina(n)
  OBVIOUS
<1>1. /\ l \in EntradasTLB /\ ~EntradaRelevada(l)
      /\ tabla[en_cpu][Posicion(n)].bit_presencia = 1
      /\ tabla[en_cpu][Posicion(n)].numero_frame = lista_tlb[l].marco
  BY <1>0, AciertoVigente
<1>2. /\ ultima_referencia' = AlFinal(ultima_referencia, l)
      /\ acceso' = Acceso("con_marco", n, lista_tlb[l].marco)
      /\ UNCHANGED <<lista_tlb, primera_referencia, tabla, hc, en_cpu>>
  BY <1>0 DEF BuscarEnTLB, Referenciar, memoria_vars
<1>3. MarcoVigente'
  BY <1>1, <1>2 DEF MarcoVigente, Acceso, Posicion
<1>4. ASSUME NEW x \in EntradasTLB, EntradaRelevada(x) PROVE EntradaRelevada(x)'
  <2>1. PICK m \in ConMarco(lista_tlb[x].marco) :
          Turno(primera_referencia, x) < Turno(primera_referencia, m)
    BY <1>4 DEF EntradaRelevada
  <2>2. m \in EntradasTLB /\ x # l /\ m # x
    <3>1. m \in EntradasTLB
      BY <2>1 DEF ConMarco
    <3>2. Turno(primera_referencia, x) \in EntradasTLB
      BY TurnoDe DEF TypeOK, TLBTypeOK
    <3> QED
      BY <1>1, <1>4, <2>1, <3>1, <3>2 DEF EntradasTLB
  <2>3. m = l
    BY <1>1, <2>2, TLBAssumption DEF EntradasTLB, TLBAssumption
  <2>4. Turno(AlFinal(ultima_referencia, l), x) < Turno(AlFinal(ultima_referencia, l), m)
    BY <1>1, <2>2, <2>3, TurnoAlFinal DEF TypeOK, TLBTypeOK
  <2>5. m \in ConMarco(lista_tlb[x].marco)'
    BY <1>2, <2>1 DEF ConMarco
  <2>6. /\ Turno(primera_referencia, x)' < Turno(primera_referencia, m)'
        /\ Turno(ultima_referencia, x)' < Turno(ultima_referencia, m)'
    BY <1>2, <2>1, <2>4 DEF Turno
  <2> QED
    BY <2>5, <2>6 DEF EntradaRelevada
<1>5. \A x \in EntradasTLB : EntradaAlDia(x) => EntradaAlDia(x)'
  BY <1>2 DEF EntradaAlDia, Posicion
<1>6. TLBFiel'
  BY <1>2, <1>4, <1>5 DEF TLBFiel, Paginas
<1> QED
  BY <1>3, <1>6

\* The entry of the page that memory answers with goes where the oldest one was:
\* the other entry, when it has the same frame, is now the older one.
LEMMA TLBFielLlena ==
  ASSUME TypeOK, Inductiva, TLBFiel, ENTRADAS_TLB <= 2, RecibirFrame
  PROVE  TLBFiel' /\ MarcoVigente'
<1>0. PICK l : l = elegir_pagina_a_reemplazar_TLB
  OBVIOUS
<1>1. /\ lista_tlb' = [lista_tlb EXCEPT ![l] = [pagina |-> acceso.pagina, marco |-> hc.marco]]
      /\ primera_referencia' = AlFinal(primera_referencia, l)
      /\ ultima_referencia' = AlFinal(ultima_referencia, l)
      /\ acceso' = [acceso EXCEPT !.en = "con_marco", !.marco = hc.marco]
      /\ hc.en = "responder" /\ acceso.en = "pedido"
      /\ UNCHANGED <<tabla, en_cpu>>
  BY <1>0 DEF RecibirFrame, guardar_en_TLB
<1>2. l \in EntradasTLB
  BY <1>0, ReemplazarTLB DEF TypeOK
<1>3. /\ en_cpu # NULO /\ acceso.pagina \in Paginas(en_cpu)
      /\ Posicion(acceso.pagina) \in Presentes(en_cpu)
      /\ Marco(en_cpu, Posicion(acceso.pagina)) = hc.marco
  BY <1>1 DEF Inductiva, Turnos, Vigente
<1>4. /\ tabla[en_cpu][Posicion(acceso.pagina)].bit_presencia = 1
      /\ tabla[en_cpu][Posicion(acceso.pagina)].numero_frame = hc.marco
  BY <1>3 DEF Presentes, Marco
<1>5. /\ acceso'.pagina = acceso.pagina /\ acceso'.marco = hc.marco
      /\ lista_tlb'[l].pagina = acceso.pagina /\ lista_tlb'[l].marco = hc.marco
      /\ \A x \in EntradasTLB : x # l => lista_tlb'[x] = lista_tlb[x]
  BY <1>1, <1>2 DEF TypeOK, TLBTypeOK
<1>6. MarcoVigente'
  BY <1>1, <1>4, <1>5 DEF MarcoVigente, Posicion
<1>7. (/\ en_cpu # NULO /\ lista_tlb[l].pagina \in Paginas(en_cpu) /\ EntradaAlDia(l))'
  BY <1>1, <1>3, <1>4, <1>5 DEF EntradaAlDia, Posicion, Paginas
<1>8. ASSUME NEW x \in EntradasTLB, x # l, lista_tlb[x] # Vacia
      PROVE  (/\ en_cpu # NULO /\ lista_tlb[x].pagina \in Paginas(en_cpu)
              /\ EntradaAlDia(x) \/ EntradaRelevada(x))'
  <2>1. /\ en_cpu # NULO /\ lista_tlb[x].pagina \in Paginas(en_cpu)
        /\ EntradaAlDia(x) \/ EntradaRelevada(x) \/ hc.marco = lista_tlb[x].marco
    BY <1>8 DEF TLBFiel
  <2>2. (en_cpu # NULO /\ lista_tlb[x].pagina \in Paginas(en_cpu))'
    BY <1>1, <1>5, <1>8, <2>1 DEF Paginas
  <2>3. EntradaAlDia(x) => EntradaAlDia(x)'
    BY <1>1, <1>5, <1>8 DEF EntradaAlDia, Posicion
  <2>4. ~EntradaRelevada(x)
    <3>1. SUFFICES ASSUME EntradaRelevada(x) PROVE FALSE
      OBVIOUS
    <3>2. PICK m \in ConMarco(lista_tlb[x].marco) :
            /\ Turno(primera_referencia, x) < Turno(primera_referencia, m)
            /\ Turno(ultima_referencia, x) < Turno(ultima_referencia, m)
      BY <3>1 DEF EntradaRelevada
    <3>3. m \in EntradasTLB
      BY <3>2 DEF ConMarco
    <3>4. /\ Turno(primera_referencia, x) \in EntradasTLB /\ Turno(ultima_referencia, x) \in EntradasTLB
          /\ Turno(primera_referencia, m) \in EntradasTLB /\ Turno(ultima_referencia, m) \in EntradasTLB
          /\ primera_referencia[Turno(primera_referencia, m)] = m
          /\ ultima_referencia[Turno(ultima_referencia, m)] = m
      BY <3>3, TurnoDe DEF TypeOK, TLBTypeOK
    <3>5. m # x
      BY <3>2, <3>4 DEF EntradasTLB
    <3>6. m = l
      BY <1>2, <1>8, <3>3, <3>5, TLBAssumption DEF EntradasTLB, TLBAssumption
    <3>7. l \in {primera_referencia[1], ultima_referencia[1]}
      BY <1>0 DEF elegir_pagina_a_reemplazar_TLB
    <3>8. 1 \in EntradasTLB
      BY TLBAssumption DEF EntradasTLB, TLBAssumption
    <3>9. \/ Turno(primera_referencia, m) = 1
          \/ Turno(ultima_referencia, m) = 1
      BY <3>4, <3>6, <3>7, <3>8 DEF TypeOK, TLBTypeOK, Ordenes
    <3> QED
      BY <3>2, <3>4, <3>9 DEF EntradasTLB
  <2>5. hc.marco = lista_tlb[x].marco => EntradaRelevada(x)'
    <3>1. SUFFICES ASSUME hc.marco = lista_tlb[x].marco PROVE EntradaRelevada(x)'
      OBVIOUS
    <3>2. (l \in ConMarco(lista_tlb[x].marco))'
      BY <1>2, <1>5, <1>8, <3>1 DEF ConMarco
    <3>3. /\ Turno(AlFinal(primera_referencia, l), x) < Turno(AlFinal(primera_referencia, l), l)
          /\ Turno(AlFinal(ultima_referencia, l), x) < Turno(AlFinal(ultima_referencia, l), l)
      BY <1>2, <1>8, TurnoAlFinal DEF TypeOK, TLBTypeOK
    <3>4. /\ Turno(primera_referencia, x)' < Turno(primera_referencia, l)'
          /\ Turno(ultima_referencia, x)' < Turno(ultima_referencia, l)'
      BY <1>1, <3>3 DEF Turno
    <3> QED
      BY <3>2, <3>4 DEF EntradaRelevada
  <2> QED
    BY <2>1, <2>2, <2>3, <2>4, <2>5
<1>9. TLBFiel'
  BY <1>5, <1>7, <1>8 DEF TLBFiel
<1> QED
  BY <1>6, <1>9

\* hilo_cpu works while the CPU waits.  What it evicts leaves entries with the
\* frame it is about to answer with.
LEMMA TLBFielHiloCpu ==
  ASSUME TypeOK, Inductiva, TLBFiel, PasoHiloCpu
  PROVE  TLBFiel' /\ MarcoVigente'
<1>0. /\ UNCHANGED <<tlb_vars, cpu_vars>> /\ hc.en \notin {"libre", "responder"}
      /\ hc.id = en_cpu /\ hc.id \in Procesos /\ hc.pos \in Posiciones /\ acceso.en = "pedido"
  BY DEF PasoHiloCpu, HiloCpu, BuscarMarcoLibre, CargarMarco, ElegirPaginaASacar, GuardarVictima,
         ReemplazarPagina, TypeOK, MemoriaTypeOK, Inductiva, Turnos
<1>1. MarcoVigente'
  BY <1>0 DEF MarcoVigente, cpu_vars
<1>2. ASSUME SigueEnMarco PROVE TLBFiel'
  BY <1>0, <1>2, TLBFielIgual DEF cpu_vars
<1>3. CASE BuscarMarcoLibre
  BY <1>1, <1>2, <1>3, SinTocarTablas, SigueSiMismos DEF BuscarMarcoLibre
<1>4. CASE ElegirPaginaASacar \/ GuardarVictima
  BY <1>1, <1>2, <1>4, MarcosQueSiguen, SigueSiMismos
<1>5. CASE CargarMarco
  <2>1. hc.pos \notin Presentes(hc.id)
    BY <1>5 DEF CargarMarco, Inductiva, Vigente
  <2>2. tabla[hc.id][hc.pos].bit_presencia # 1
    BY <1>0, <2>1 DEF Presentes
  <2>3. SigueEnMarco
    BY <1>0, <1>5, <2>2, CargarMarcoEs DEF SigueEnMarco
  <2> QED
    BY <1>1, <1>2, <2>3
<1>6. CASE ReemplazarPagina
  <2>1. Victima \in Presentes(hc.id) /\ Victima \in Posiciones /\ Marco(hc.id, Victima) = hc.marco
    <3>1. PICK pos \in Presentes(hc.id) : Marco(hc.id, pos) = hc.marco
      BY <1>6 DEF ReemplazarPagina, Inductiva, Vigente
    <3>2. Distintos(hc.id)
      BY <1>0, ExclusivosDistintos DEF Inductiva
    <3> QED
      BY <1>0, <3>1, <3>2, VictimaEs DEF TypeOK, Presentes
  <2>2. hc.pos \notin Presentes(hc.id)
    BY <1>6 DEF ReemplazarPagina, Inductiva, Vigente
  <2>3. hc'.en = "responder" /\ hc'.marco = hc.marco
    BY <1>6 DEF ReemplazarPagina, TypeOK, MemoriaTypeOK
  <2>4. ASSUME NEW l \in EntradasTLB, lista_tlb'[l] # Vacia
        PROVE  (/\ en_cpu # NULO /\ lista_tlb[l].pagina \in Paginas(en_cpu)
                /\ \/ EntradaAlDia(l) \/ EntradaRelevada(l)
                   \/ hc.en = "responder" /\ hc.marco = lista_tlb[l].marco)'
    <3>1. /\ en_cpu # NULO /\ lista_tlb[l].pagina \in Paginas(en_cpu)
          /\ EntradaAlDia(l) \/ EntradaRelevada(l)
      BY <1>0, <2>4 DEF TLBFiel, tlb_vars
    <3>2. (en_cpu # NULO /\ lista_tlb[l].pagina \in Paginas(en_cpu))'
      BY <1>0, <3>1 DEF tlb_vars, cpu_vars, Paginas
    <3>3. EntradaRelevada(l) => EntradaRelevada(l)'
      BY <1>0 DEF EntradaRelevada, ConMarco, Turno, tlb_vars
    <3>4. PICK pos : pos = Posicion(lista_tlb[l].pagina)
      OBVIOUS
    <3>5. pos \in Posiciones
      BY <1>0, <3>1, <3>4, PaginasEnTabla
    <3>6. ASSUME EntradaAlDia(l), pos = Victima
          PROVE  (hc.marco = lista_tlb[l].marco)'
      BY <1>0, <2>1, <2>3, <3>4, <3>6 DEF EntradaAlDia, Marco, tlb_vars
    <3>7. ASSUME EntradaAlDia(l), pos # Victima
          PROVE  EntradaAlDia(l)'
      <4>1. tabla[hc.id][pos].bit_presencia = 1 /\ tabla[hc.id][pos].numero_frame = lista_tlb[l].marco
        BY <1>0, <3>4, <3>7 DEF EntradaAlDia
      <4>2. pos # hc.pos
        BY <2>2, <3>5, <4>1 DEF Presentes
      <4>3. tabla'[hc.id][pos].bit_presencia = 1 /\ tabla'[hc.id][pos].numero_frame = lista_tlb[l].marco
        BY <1>6, <2>1, <3>5, <3>7, <4>1, <4>2, ReemplazarPaginaEs
      <4>4. Posicion(lista_tlb[l].pagina)' = pos
        BY <1>0, <3>4 DEF tlb_vars, Posicion
      <4> QED
        BY <1>0, <4>3, <4>4 DEF EntradaAlDia, tlb_vars, cpu_vars
    <3> QED
      BY <2>3, <3>1, <3>2, <3>3, <3>6, <3>7
  <2> QED
    BY <1>1, <2>4 DEF TLBFiel
<1> QED
  BY <1>3, <1>4, <1>5, <1>6 DEF PasoHiloCpu, HiloCpu

\* Every step keeps the TLB faithful.
LEMMA TLBPaso ==
  ASSUME TypeOK, Inductiva, TLBFiel, MarcoVigente, ENTRADAS_TLB <= 2, [Next]_vars
  PROVE  TLBFiel' /\ MarcoVigente'
<1>0. Turnos /\ acceso.en \in {"libre", "pedido", "con_marco"}
  BY DEF TypeOK, Inductiva
<1>1. CASE UNCHANGED vars
  <2>1. SigueEnMarco
    BY <1>1, SinTocarTablas, SigueSiMismos DEF vars, memoria_vars
  <2> QED
    BY <1>0, <1>1, <2>1, TLBFielIgual, MarcoVigenteIgual DEF vars, memoria_vars, cpu_vars
<1>2. CASE PasoHiloKernel \/ \E p \in Procesos : PedidoDelKernel(p)
  BY <1>0, <1>2, SigueConKernel, TLBFielIgual, MarcoVigenteIgual DEF cpu_vars
<1>3. CASE PasoHiloCpu
  BY <1>3, TLBFielHiloCpu
<1>4. ASSUME NEW p \in Procesos, Despachar(p)
      PROVE  TLBFiel' /\ MarcoVigente'
  <2>1. \A l \in EntradasTLB : lista_tlb'[l] = Vacia
    BY <1>4 DEF Despachar, TLBFiel, tlb_vars
  <2>2. acceso'.en = "libre"
    BY <1>0, <1>4 DEF Despachar, Turnos
  <2> QED
    BY <2>1, <2>2 DEF TLBFiel, MarcoVigente
<1>5. CASE Devolver
  <2>1. \A l \in EntradasTLB : lista_tlb'[l] = Vacia
    BY <1>5 DEF Devolver, limpiar_TLB
  <2>2. acceso'.en = "libre"
    BY <1>5 DEF Devolver
  <2> QED
    BY <2>1, <2>2 DEF TLBFiel, MarcoVigente
<1>6. ASSUME en_cpu # NULO, NEW n \in Paginas(en_cpu), BuscarEnTLB(n)
      PROVE  TLBFiel' /\ MarcoVigente'
  BY <1>6, TLBFielAcierto
<1>7. ASSUME en_cpu # NULO, NEW n \in Paginas(en_cpu), PedirTodoMemoria(n)
      PROVE  TLBFiel' /\ MarcoVigente'
  <2>1. /\ acceso'.en = "pedido" /\ hc.en = "libre" /\ UNCHANGED <<tabla, tlb_vars, en_cpu>>
    BY <1>7 DEF PedirTodoMemoria, SolicitudFrame, Acceso
  <2>2. SigueEnMarco
    BY <2>1, SinTocarTablas, SigueSiMismos
  <2> QED
    BY <1>0, <2>1, <2>2, TLBFielIgual, MarcoVigenteIgual
<1>8. CASE RecibirFrame
  BY <1>8, TLBFielLlena
<1>9. CASE Leer \/ \E v \in Valores : Escribir(v)
  <2>1. /\ acceso'.en = "libre" /\ hc.en = "libre" /\ UNCHANGED <<tlb_vars, en_cpu>>
    <3>1. CASE Leer
      BY <3>1 DEF Leer, Lectura, SinAcceso
    <3>2. ASSUME NEW v \in Valores, Escribir(v)
          PROVE  /\ acceso'.en = "libre" /\ hc.en = "libre" /\ UNCHANGED <<tlb_vars, en_cpu>>
      BY <3>2 DEF Escribir, Escritura, SinAcceso
    <3> QED
      BY <1>9, <3>1, <3>2
  <2>2. SigueEnMarco
    BY <1>9, MarcosQueSiguen, SigueSiMismos
  <2> QED
    BY <1>0, <2>1, <2>2, TLBFielIgual, MarcoVigenteIgual
<1> QED
  BY <1>1, <1>2, <1>3, <1>4, <1>5, <1>6, <1>7, <1>8, <1>9 DEF Next, AccesoCpu

\* Why tlb_mas_viejo is enough for a TLB of two entries: every entry is good, or
\* the other one has its frame and is younger.
THEOREM TLBChicaFiel == ENTRADAS_TLB <= 2 => (Spec => [](TLBFiel /\ MarcoVigente))
<1> SUFFICES ASSUME ENTRADAS_TLB <= 2 PROVE Spec => [](TLBFiel /\ MarcoVigente)
  OBVIOUS
<1>1. Init => TLBFiel /\ MarcoVigente
  BY TLBInicial
<1>2. TypeOK /\ Inductiva /\ TLBFiel /\ MarcoVigente /\ [Next]_vars => (TLBFiel /\ MarcoVigente)'
  BY TLBPaso
<1> QED
  BY <1>1, <1>2, Invariantes, PTL DEF Spec

\* With one entry or two the frame the CPU uses is always that of its page.
THEOREM MarcoSiempreVigente == ENTRADAS_TLB <= 2 => (Spec => []MarcoVigente)
  BY TLBChicaFiel, PTL

-----------------------------------------------------------------------------
\* What swap has

MismoBit(p, pos) == tabla'[p][pos].bit_modificacion = tabla[p][pos].bit_modificacion

\* Which pages get another bit_modificacion.
LEMMA BitsQueSiguen ==
  ASSUME TypeOK, Inductiva
  PROVE  /\ Leer => \A p \in Procesos : \A pos \in Presentes(p) : MismoBit(p, pos)
         /\ \A v : Escribir(v) => \A p \in Procesos : \A pos \in Presentes(p) :
              IF p = en_cpu /\ pos \in EnMarco(en_cpu, EntradaDe(acceso.pagina), acceso.marco)
                THEN tabla'[p][pos].bit_modificacion = 1 ELSE MismoBit(p, pos)
         /\ \A q \in Procesos : CrearTablas(q) =>
              \A p \in Procesos : \A pos \in Presentes(p) : MismoBit(p, pos)
         /\ GuardarPaginaSuspendida => \A p \in Procesos : \A pos \in Presentes(p) :
              (p = hk.id /\ pos = EnCurso) \/ MismoBit(p, pos)
         /\ LiberarPagina => \A p \in Procesos : \A pos \in Presentes(p) : MismoBit(p, pos)
         /\ ResponderKernel => \A p \in Procesos : \A pos \in Presentes(p) : MismoBit(p, pos)
         /\ CargarMarco => \A p \in Procesos : \A pos \in Presentes(p) : MismoBit(p, pos)
         /\ ElegirPaginaASacar => \A p \in Procesos : \A pos \in Presentes(p) : MismoBit(p, pos)
         /\ GuardarVictima => \A p \in Procesos : \A pos \in Presentes(p) :
              (p = hc.id /\ pos = Victima) \/ MismoBit(p, pos)
         /\ ReemplazarPagina /\ Victima \in Posiciones =>
              \A p \in Procesos : \A pos \in Presentes(p) : MismoBit(p, pos)
<1>0. /\ MemoriaTypeOK /\ Turnos
      /\ \A p \in Procesos, pos \in Posiciones : tabla[p][pos] \in Pagina
      /\ hk.op # "nada" => hk.id \in Procesos
      /\ hc.en # "libre" => hc.id \in Procesos
      /\ \A p : Presentes(p) \subseteq Posiciones
  BY DEF TypeOK, Inductiva, MemoriaTypeOK, Presentes
<1>1. \A e \in Pagina :
        /\ [e EXCEPT !.bit_uso = 0].bit_modificacion = e.bit_modificacion
        /\ [e EXCEPT !.bit_uso = 1].bit_modificacion = e.bit_modificacion
        /\ [e EXCEPT !.bit_uso = 1, !.bit_modificacion = 1].bit_modificacion = 1
  BY DEF Pagina
\* The pages of other processes.
<1>2. ASSUME NEW p \in Procesos, NEW t, tabla' = [tabla EXCEPT ![p] = t]
      PROVE  \A q \in Procesos : q # p => \A pos \in Presentes(q) : MismoBit(q, pos)
  BY <1>0, <1>2 DEF MismoBit, MemoriaTypeOK
<1>3. ASSUME UNCHANGED tabla PROVE \A p \in Procesos : \A pos \in Presentes(p) : MismoBit(p, pos)
  BY <1>3 DEF MismoBit
<1>4. ASSUME Leer PROVE \A p \in Procesos : \A pos \in Presentes(p) : MismoBit(p, pos)
  <2>1. en_cpu \in Procesos
    BY <1>0, <1>4 DEF Leer, Turnos, TypeOK
  <2> DEFINE t == [pos \in Posiciones |->
               IF pos \in EnMarco(en_cpu, EntradaDe(acceso.pagina), acceso.marco)
                 THEN [tabla[en_cpu][pos] EXCEPT !.bit_uso = 1] ELSE tabla[en_cpu][pos]]
  <2>2. tabla' = [tabla EXCEPT ![en_cpu] = t]
    BY <1>4 DEF Leer, Lectura
  <2>3. \A pos \in Posiciones : t[pos].bit_modificacion = tabla[en_cpu][pos].bit_modificacion
    BY <1>0, <1>1, <2>1
  <2> HIDE DEF t
  <2>4. tabla'[en_cpu] = t /\ \A q \in Procesos : q # en_cpu => tabla'[q] = tabla[q]
    BY <1>0, <2>1, <2>2 DEF MemoriaTypeOK
  <2> QED
    BY <1>0, <2>3, <2>4 DEF MismoBit
<1>5. ASSUME NEW v, Escribir(v)
      PROVE  \A p \in Procesos : \A pos \in Presentes(p) :
               IF p = en_cpu /\ pos \in EnMarco(en_cpu, EntradaDe(acceso.pagina), acceso.marco)
                 THEN tabla'[p][pos].bit_modificacion = 1 ELSE MismoBit(p, pos)
  <2>1. en_cpu \in Procesos
    BY <1>0, <1>5 DEF Escribir, Turnos, TypeOK
  <2> DEFINE S == EnMarco(en_cpu, EntradaDe(acceso.pagina), acceso.marco)
             t == [pos \in Posiciones |->
               IF pos \in S THEN [tabla[en_cpu][pos] EXCEPT !.bit_uso = 1, !.bit_modificacion = 1]
                            ELSE tabla[en_cpu][pos]]
  <2>2. tabla' = [tabla EXCEPT ![en_cpu] = t]
    BY <1>5 DEF Escribir, Escritura
  <2>3. \A pos \in Posiciones : t[pos] =
          IF pos \in S THEN [tabla[en_cpu][pos] EXCEPT !.bit_uso = 1, !.bit_modificacion = 1]
                       ELSE tabla[en_cpu][pos]
    OBVIOUS
  <2> HIDE DEF t, S
  <2>4. ASSUME NEW pos \in Posiciones
        PROVE  t[pos].bit_modificacion = IF pos \in S THEN 1 ELSE tabla[en_cpu][pos].bit_modificacion
    <3>1. tabla[en_cpu][pos] \in Pagina
      BY <1>0, <2>1
    <3> QED
      BY <1>1, <2>3, <3>1
  <2>5. tabla'[en_cpu] = t /\ \A q \in Procesos : q # en_cpu => tabla'[q] = tabla[q]
    BY <1>0, <2>1, <2>2 DEF MemoriaTypeOK
  <2> QED
    BY <1>0, <2>4, <2>5 DEF MismoBit, S
<1>6. ASSUME NEW q \in Procesos, CrearTablas(q)
      PROVE  \A p \in Procesos : \A pos \in Presentes(p) : MismoBit(p, pos)
  <2>1. Presentes(q) = {}
    BY <1>0, <1>6 DEF CrearTablas, Turnos
  <2> QED
    BY <1>2, <1>3, <1>6, <2>1 DEF CrearTablas
<1>7. ASSUME GuardarPaginaSuspendida
      PROVE  \A p \in Procesos : \A pos \in Presentes(p) :
               (p = hk.id /\ pos = EnCurso) \/ MismoBit(p, pos)
  <2>1. EnCurso \in Posiciones /\ hk.id \in Procesos
    BY <1>0, <1>7, EnCursoPresente DEF GuardarPaginaSuspendida
  <2>2. PICK x : x = EnCurso
    OBVIOUS
  <2>3. tabla' = [tabla EXCEPT ![hk.id][x].bit_modificacion = 0]
    BY <1>7, <2>2 DEF GuardarPaginaSuspendida
  <2> QED
    BY <1>0, <2>1, <2>2, <2>3 DEF MismoBit, MemoriaTypeOK
<1>8. ASSUME LiberarPagina PROVE \A p \in Procesos : \A pos \in Presentes(p) : MismoBit(p, pos)
  BY <1>0, <1>2, <1>8, LiberarPaginaEs DEF LiberarPagina, MismoBit
<1>9. ASSUME ResponderKernel PROVE \A p \in Procesos : \A pos \in Presentes(p) : MismoBit(p, pos)
  BY <1>0, <1>2, <1>3, <1>9 DEF ResponderKernel
<1>10. ASSUME CargarMarco PROVE \A p \in Procesos : \A pos \in Presentes(p) : MismoBit(p, pos)
  BY <1>0, <1>2, <1>10, CargarMarcoEs DEF CargarMarco, MismoBit
<1>11. ASSUME ElegirPaginaASacar
       PROVE  \A p \in Procesos : \A pos \in Presentes(p) : MismoBit(p, pos)
  <2>1. CASE \E bajados : tabla' = [tabla EXCEPT ![hc.id] = [pos \in Posiciones |->
          IF pos \in bajados THEN [tabla[hc.id][pos] EXCEPT !.bit_uso = 0]
                             ELSE tabla[hc.id][pos]]]
    <3>1. PICK bajados : tabla' = [tabla EXCEPT ![hc.id] = [pos \in Posiciones |->
            IF pos \in bajados THEN [tabla[hc.id][pos] EXCEPT !.bit_uso = 0]
                               ELSE tabla[hc.id][pos]]]
      BY <2>1
    <3>2. hc.id \in Procesos
      BY <1>0, <1>11 DEF ElegirPaginaASacar
    <3> DEFINE t == [pos \in Posiciones |->
                 IF pos \in bajados THEN [tabla[hc.id][pos] EXCEPT !.bit_uso = 0]
                                    ELSE tabla[hc.id][pos]]
    <3>3. \A pos \in Posiciones : t[pos].bit_modificacion = tabla[hc.id][pos].bit_modificacion
      BY <1>0, <1>1, <3>2
    <3> HIDE DEF t
    <3>4. tabla' = [tabla EXCEPT ![hc.id] = t]
      BY <3>1 DEF t
    <3>5. tabla'[hc.id] = t /\ \A q \in Procesos : q # hc.id => tabla'[q] = tabla[q]
      BY <1>0, <3>2, <3>4 DEF MemoriaTypeOK
    <3> QED
      BY <1>0, <3>3, <3>5 DEF MismoBit
  <2> QED
    BY <1>3, <1>11, <2>1, Zenon DEF ElegirPaginaASacar
<1>12. ASSUME GuardarVictima
       PROVE  \A p \in Procesos : \A pos \in Presentes(p) :
                (p = hc.id /\ pos = Victima) \/ MismoBit(p, pos)
  <2>1. CASE tabla' = [tabla EXCEPT ![hc.id][Victima].bit_modificacion = 0]
    <3>1. PICK x : x = Victima
      OBVIOUS
    <3>2. tabla' = [tabla EXCEPT ![hc.id][x].bit_modificacion = 0]
      BY <2>1, <3>1
    <3>3. hc.id \in Procesos
      BY <1>0, <1>12 DEF GuardarVictima
    <3> QED
      BY <1>0, <3>1, <3>2, <3>3 DEF MismoBit, MemoriaTypeOK
  <2> QED
    BY <1>3, <1>12, <2>1 DEF GuardarVictima
<1>13. ASSUME ReemplazarPagina, Victima \in Posiciones
       PROVE  \A p \in Procesos : \A pos \in Presentes(p) : MismoBit(p, pos)
  BY <1>0, <1>2, <1>13, ReemplazarPaginaEs DEF ReemplazarPagina, MismoBit
<1> QED
  BY <1>4, <1>5, <1>6, <1>7, <1>8, <1>9, <1>10, <1>11, <1>12, <1>13

\* p is being freed: its swap file is gone already.
Finalizando(p) == hk.op = "finalizar" /\ hk.id = p

\* SwapFiel, page by page.
LimpiaEn(p, pos) ==
  tabla[p][pos].bit_modificacion # 1 /\ ~Finalizando(p) =>
    swap[p][calcular_num_pagina(pos)] = memoria_real[Marco(p, pos)]
Limpia == \A p \in Procesos : \A pos \in Presentes(p) : LimpiaEn(p, pos)

\* They say the same.
LEMMA LimpiaEs == SwapFiel <=> Limpia
<1>1. \A x : x \in PaginasPresentes <=>
        \E p \in Procesos : \E pos \in Presentes(p) : x = <<p, pos>>
  BY DEF PaginasPresentes
<1>2. ASSUME SwapFiel, NEW p \in Procesos, NEW pos \in Presentes(p)
      PROVE  LimpiaEn(p, pos)
  <2>1. <<p, pos>> \in PaginasPresentes
    BY <1>1
  <2>2. PICK x \in PaginasPresentes : x[1] = p /\ x[2] = pos
    BY <2>1
  <2> QED
    BY <1>2, <2>2 DEF SwapFiel, LimpiaEn, Finalizando
<1>3. ASSUME Limpia, NEW x \in PaginasPresentes
      PROVE  LimpiaEn(x[1], x[2])
  <2>1. x[1] \in Procesos /\ x[2] \in Presentes(x[1])
    BY <1>1
  <2> QED
    BY <1>3, <2>1 DEF Limpia
<1> QED
  BY <1>2, <1>3 DEF SwapFiel, Limpia, LimpiaEn, Finalizando

\* They say the same of the next state.
LEMMA LimpiaEsLuego == (SwapFiel <=> Limpia)'
  BY LimpiaEs, PTL

\* The victim that hilo_cpu is about to replace has been saved.
VictimaGuardada ==
  hc.en = "reemplazar" => \A pos \in Presentes(hc.id) :
    Marco(hc.id, pos) = hc.marco => tabla[hc.id][pos].bit_modificacion # 1

\* A page that stays in its frame, when neither the frame nor its copy change.
LEMMA LimpiaSigue ==
  ASSUME NEW p, NEW pos, LimpiaEn(p, pos), MismoBit(p, pos), Marco(p, pos)' = Marco(p, pos),
         \/ Finalizando(p)'
         \/ /\ ~Finalizando(p)
            /\ swap'[p][calcular_num_pagina(pos)] = swap[p][calcular_num_pagina(pos)]
            /\ memoria_real'[Marco(p, pos)] = memoria_real[Marco(p, pos)]
  PROVE  LimpiaEn(p, pos)'
<1>1. CASE Finalizando(p)'
  BY <1>1 DEF LimpiaEn
<1>2. calcular_num_pagina(pos)' = calcular_num_pagina(pos)
  BY DEF calcular_num_pagina
<1>3. CASE ~Finalizando(p)'
  BY <1>2, <1>3 DEF LimpiaEn, MismoBit
<1> QED
  BY <1>1, <1>3

\* The same, when no page leaves its frame.
LEMMA LimpiaIgual ==
  ASSUME Limpia, \A p \in Procesos : MismosMarcos(p),
         \A p \in Procesos : \A pos \in Presentes(p) :
           /\ MismoBit(p, pos)
           /\ \/ Finalizando(p)'
              \/ /\ ~Finalizando(p)
                 /\ swap'[p][calcular_num_pagina(pos)] = swap[p][calcular_num_pagina(pos)]
                 /\ memoria_real'[Marco(p, pos)] = memoria_real[Marco(p, pos)]
  PROVE  Limpia'
<1> SUFFICES ASSUME NEW p \in Procesos, NEW pos \in Presentes(p)'
             PROVE  LimpiaEn(p, pos)'
  BY DEF Limpia
<1>1. pos \in Presentes(p) /\ Marco(p, pos)' = Marco(p, pos)
  BY MismosMarcosDe
<1> QED
  BY <1>1, LimpiaSigue DEF Limpia

\* The CPU, given that it uses the right frame.
LEMMA LimpiaCpu ==
  ASSUME TypeOK, Inductiva, Limpia, MarcoVigente, AccesoCpu
  PROVE  Limpia'
<1>1. ASSUME UNCHANGED <<tabla, swap, memoria_real, hk>> PROVE Limpia'
  BY <1>1, SinTocarTablas, LimpiaIgual DEF MismoBit, Finalizando
<1>2. CASE \/ \E p \in Procesos : Despachar(p)
           \/ Devolver
           \/ \E n \in Paginas(en_cpu) : BuscarEnTLB(n) \/ PedirTodoMemoria(n)
           \/ RecibirFrame
  BY <1>1, <1>2 DEF Despachar, Devolver, BuscarEnTLB, PedirTodoMemoria, SolicitudFrame,
                    RecibirFrame, memoria_vars
<1>3. CASE Leer
  <2>1. UNCHANGED <<swap, memoria_real, hk>>
    BY <1>3 DEF Leer, Lectura
  <2> QED
    BY <1>3, <2>1, MarcosQueSiguen, BitsQueSiguen, LimpiaIgual DEF Finalizando
<1>4. ASSUME NEW v \in Valores, Escribir(v)
      PROVE  Limpia'
  <2> DEFINE f == acceso.marco
             S == EnMarco(en_cpu, EntradaDe(acceso.pagina), f)
  <2>1. /\ memoria_real' = [memoria_real EXCEPT ![f] = v]
        /\ UNCHANGED <<swap, hk>> /\ acceso.en = "con_marco"
    BY <1>4 DEF Escribir, Escritura
  <2>2. PICK x : x = Posicion(acceso.pagina)
    OBVIOUS
  <2>3. en_cpu \in Procesos /\ x \in Posiciones
    BY <2>1, <2>2, PaginasEnTabla DEF TypeOK, Inductiva, Turnos
  <2>4. x \in Presentes(en_cpu) /\ Marco(en_cpu, x) = f /\ x \in S
    BY <2>1, <2>2, <2>3 DEF MarcoVigente, Presentes, Marco, EnMarco, EntradaDe
  <2>5. Reparto
    BY RepartoEs DEF Inductiva
  <2>6. \A p \in Procesos : MismosMarcos(p)
    BY <1>4, MarcosQueSiguen
  <2>7. ASSUME NEW p \in Procesos, NEW pos \in Presentes(p)' PROVE LimpiaEn(p, pos)'
    <3>1. pos \in Presentes(p) /\ Marco(p, pos)' = Marco(p, pos)
      BY <2>6, MismosMarcosDe
    <3>2. CASE p = en_cpu /\ pos \in S
      <4>1. tabla'[p][pos].bit_modificacion = 1
        BY <1>4, <3>1, <3>2, BitsQueSiguen
      <4> QED
        BY <4>1 DEF LimpiaEn
    <3>3. CASE ~(p = en_cpu /\ pos \in S)
      <4>1. Marco(p, pos) # f
        BY <2>3, <2>4, <2>5, <3>1, <3>3 DEF Reparto
      <4>2. MismoBit(p, pos)
        BY <1>4, <3>1, <3>3, BitsQueSiguen
      <4>3. Marco(p, pos) \in Marcos
        BY <3>1, EntradaTipo DEF TypeOK, Presentes, Marco, Pagina
      <4>4. memoria_real'[Marco(p, pos)] = memoria_real[Marco(p, pos)]
        BY <2>1, <4>1, <4>3 DEF TypeOK, MemoriaTypeOK
      <4>5. LimpiaEn(p, pos)
        BY <3>1 DEF Limpia
      <4>6. Finalizando(p)' <=> Finalizando(p)
        BY <2>1 DEF Finalizando
      <4> QED
        BY <2>1, <3>1, <4>2, <4>4, <4>5, <4>6, LimpiaSigue
    <3> QED
      BY <3>2, <3>3
  <2> QED
    BY <2>7 DEF Limpia
<1> QED
  BY <1>2, <1>3, <1>4 DEF AccesoCpu

\* The kernel and hilo_kernel.
LEMMA LimpiaKernel ==
  ASSUME TypeOK, Inductiva, Limpia, PasoHiloKernel \/ \E p \in Procesos : PedidoDelKernel(p)
  PROVE  Limpia'
<1>0. /\ MemoriaTypeOK /\ Turnos /\ Reparto
      /\ \A p : Presentes(p) \subseteq Posiciones
  BY RepartoEs DEF TypeOK, Inductiva, Presentes
<1>1. ASSUME NEW q \in Procesos, CrearTablas(q)
      PROVE  Limpia'
  <2>1. Presentes(q) = {} /\ hk.op = "nada"
    BY <1>0, <1>1 DEF CrearTablas, Turnos
  <2>2. \A p \in Procesos : \A pos \in Presentes(p) : swap'[p] = swap[p]
    BY <1>0, <1>1, <2>1 DEF CrearTablas, MemoriaTypeOK
  <2>3. UNCHANGED <<memoria_real, hk>>
    BY <1>1 DEF CrearTablas
  <2> QED
    BY <1>1, <2>1, <2>2, <2>3, MarcosQueSiguen, BitsQueSiguen, LimpiaIgual DEF Finalizando
<1>2. ASSUME NEW q \in Procesos, Suspender(q)
      PROVE  Limpia'
  <2>1. hk.op = "nada" /\ UNCHANGED <<tabla, swap, memoria_real>>
    BY <1>2 DEF Suspender
  <2> QED
    BY <2>1, SinTocarTablas, LimpiaIgual DEF MismoBit, Finalizando
<1>3. ASSUME NEW q \in Procesos, Finalizar(q)
      PROVE  Limpia'
  <2>1. hk.op = "nada" /\ UNCHANGED <<tabla, memoria_real>> /\ Finalizando(q)'
    BY <1>3 DEF Finalizar, Finalizando
  <2>2. \A p \in Procesos : p # q => swap'[p] = swap[p]
    BY <1>0, <1>3 DEF Finalizar, MemoriaTypeOK
  <2>3. \A p \in Procesos : \A pos \in Presentes(p) :
          /\ MismoBit(p, pos)
          /\ \/ Finalizando(p)'
             \/ /\ ~Finalizando(p)
                /\ swap'[p][calcular_num_pagina(pos)] = swap[p][calcular_num_pagina(pos)]
                /\ memoria_real'[Marco(p, pos)] = memoria_real[Marco(p, pos)]
    BY <2>1, <2>2 DEF MismoBit, Finalizando
  <2>4. \A p \in Procesos : MismosMarcos(p)
    BY <2>1, SinTocarTablas
  <2> QED
    BY <2>3, <2>4, LimpiaIgual
<1>4. CASE GuardarPaginaSuspendida
  <2>1. PICK x : x = EnCurso
    OBVIOUS
  <2>2. x \in Presentes(hk.id) /\ x \in Posiciones /\ hk.id \in Procesos
    BY <1>0, <1>4, <2>1, EnCursoPresente DEF GuardarPaginaSuspendida, MemoriaTypeOK
  <2>3. /\ swap' = [swap EXCEPT ![hk.id][calcular_num_pagina(x)] = memoria_real[Marco(hk.id, x)]]
        /\ UNCHANGED <<memoria_real, hk>>
    BY <1>4, <2>1 DEF GuardarPaginaSuspendida
  <2>4. PICK i : i = hk.id
    OBVIOUS
  <2>5. ASSUME NEW p \in Procesos, NEW pos \in Presentes(p)' PROVE LimpiaEn(p, pos)'
    <3>1. pos \in Presentes(p) /\ pos \in Posiciones /\ Marco(p, pos)' = Marco(p, pos)
      BY <1>0, <1>4, MarcosQueSiguen, MismosMarcosDe
    <3>2. /\ calcular_num_pagina(pos) \in TodasLasPaginas
          /\ calcular_num_pagina(x) \in TodasLasPaginas
          /\ pos # x => calcular_num_pagina(pos) # calcular_num_pagina(x)
      BY <2>2, <3>1, NumeroDe, NumerosDistintos
    <3>3. CASE p = i /\ pos = x
      <4>1. swap'[p][calcular_num_pagina(pos)] = memoria_real[Marco(p, pos)]
        BY <1>0, <2>2, <2>3, <2>4, <3>2, <3>3 DEF MemoriaTypeOK
      <4>2. calcular_num_pagina(pos)' = calcular_num_pagina(pos)
        BY DEF calcular_num_pagina
      <4> QED
        BY <2>3, <3>1, <4>1, <4>2 DEF LimpiaEn
    <3>4. CASE ~(p = i /\ pos = x)
      <4>1. swap'[p][calcular_num_pagina(pos)] = swap[p][calcular_num_pagina(pos)]
        BY <1>0, <2>2, <2>3, <2>4, <3>2, <3>4 DEF MemoriaTypeOK
      <4>2. MismoBit(p, pos)
        BY <1>4, <2>1, <2>4, <3>1, <3>4, BitsQueSiguen
      <4>3. LimpiaEn(p, pos) /\ (Finalizando(p)' <=> Finalizando(p))
        BY <2>3, <3>1 DEF Limpia, Finalizando
      <4> QED
        BY <2>3, <3>1, <4>1, <4>2, <4>3, LimpiaSigue
    <3> QED
      BY <3>3, <3>4
  <2> QED
    BY <2>5 DEF Limpia
<1>5. CASE LiberarPagina
  <2>1. UNCHANGED <<swap, memoria_real, hk>>
    BY <1>5 DEF LiberarPagina
  <2>2. ASSUME NEW p \in Procesos, NEW pos \in Presentes(p)' PROVE LimpiaEn(p, pos)'
    <3>1. pos \in Presentes(p) /\ Marco(p, pos)' = Marco(p, pos)
      <4>1. CASE p # hk.id
        BY <1>5, <4>1, MarcosQueSiguen, MismosMarcosDe
      <4>2. CASE p = hk.id
        BY <1>5, <4>2, LiberarPaginaEs DEF Presentes, Marco
      <4> QED
        BY <4>1, <4>2
    <3>2. MismoBit(p, pos) /\ LimpiaEn(p, pos) /\ (Finalizando(p)' <=> Finalizando(p))
      BY <1>5, <2>1, <3>1, BitsQueSiguen DEF Limpia, Finalizando
    <3> QED
      BY <2>1, <3>1, <3>2, LimpiaSigue
  <2> QED
    BY <2>2 DEF Limpia
<1>6. CASE ResponderKernel
  <2>1. UNCHANGED <<swap, memoria_real>> /\ Presentes(hk.id) = {}
    BY <1>6 DEF ResponderKernel
  <2>2. \A p \in Procesos : \A pos \in Presentes(p) : ~Finalizando(p)
    BY <2>1 DEF Finalizando
  <2> QED
    BY <1>6, <2>1, <2>2, MarcosQueSiguen, BitsQueSiguen, LimpiaIgual
<1> QED
  BY <1>1, <1>2, <1>3, <1>4, <1>5, <1>6 DEF PasoHiloKernel, HiloKernel, PedidoDelKernel

\* A page that hilo_cpu brings from swap is the same there, and no other page is
\* in its frame.
LEMMA LimpiaTraida ==
  ASSUME TypeOK, Inductiva, Limpia,
         hc.id \in Procesos, hc.pos \in Posiciones, hc.marco \in Marcos,
         memoria_real' = [memoria_real EXCEPT ![hc.marco] = swap[hc.id][calcular_num_pagina(hc.pos)]],
         UNCHANGED <<swap, hk>>,
         NEW p \in Procesos, NEW pos,
         \/ p = hc.id /\ pos = hc.pos /\ tabla'[p][pos].numero_frame = hc.marco
         \/ /\ pos \in Presentes(p) /\ Marco(p, pos) # hc.marco
            /\ MismoBit(p, pos) /\ Marco(p, pos)' = Marco(p, pos)
  PROVE  LimpiaEn(p, pos)'
<1>0. MemoriaTypeOK
  BY DEF TypeOK
<1>1. CASE p = hc.id /\ pos = hc.pos /\ tabla'[p][pos].numero_frame = hc.marco
  <2>1. memoria_real'[hc.marco] = swap[hc.id][calcular_num_pagina(hc.pos)]
    BY <1>0 DEF MemoriaTypeOK
  <2>2. swap'[p][calcular_num_pagina(pos)] = memoria_real'[tabla'[p][pos].numero_frame]
    BY <1>1, <2>1
  <2>3. calcular_num_pagina(pos)' = calcular_num_pagina(pos)
    BY DEF calcular_num_pagina
  <2> QED
    BY <2>2, <2>3 DEF LimpiaEn, Marco
<1>2. CASE /\ pos \in Presentes(p) /\ Marco(p, pos) # hc.marco
           /\ MismoBit(p, pos) /\ Marco(p, pos)' = Marco(p, pos)
  <2>1. Marco(p, pos) \in Marcos
    BY <1>0, <1>2, EntradaTipo DEF Presentes, Marco, Pagina
  <2>2. memoria_real'[Marco(p, pos)] = memoria_real[Marco(p, pos)]
    BY <1>0, <1>2, <2>1 DEF MemoriaTypeOK
  <2>3. LimpiaEn(p, pos) /\ (Finalizando(p)' <=> Finalizando(p))
    BY <1>2 DEF Limpia, Finalizando
  <2> QED
    BY <1>2, <2>2, <2>3, LimpiaSigue
<1> QED
  BY <1>1, <1>2

\* The victim is a page of the process.
LEMMA VictimaDe ==
  ASSUME TypeOK, Inductiva, hc.en \in {"sacar", "reemplazar"}
  PROVE  /\ Victima \in Presentes(hc.id) /\ Victima \in Posiciones
         /\ Marco(hc.id, Victima) = hc.marco
<1>1. PICK pos \in Presentes(hc.id) : Marco(hc.id, pos) = hc.marco
  BY DEF Inductiva, Vigente
<1>2. hc.id \in Procesos
  BY DEF TypeOK, MemoriaTypeOK
<1>3. Distintos(hc.id)
  BY <1>2, ExclusivosDistintos DEF Inductiva
<1> QED
  BY <1>1, <1>2, <1>3, VictimaEs DEF TypeOK, Presentes

\* hilo_cpu.
LEMMA LimpiaHiloCpu ==
  ASSUME TypeOK, Inductiva, Limpia, PasoHiloCpu
  PROVE  Limpia'
<1>0. /\ MemoriaTypeOK /\ Turnos /\ Vigente /\ Reparto
      /\ hc.en # "libre" /\ hc.id \in Procesos /\ hc.pos \in Posiciones /\ hc.marco \in Marcos
      /\ UNCHANGED hk
      /\ \A p : Presentes(p) \subseteq Posiciones
  BY RepartoEs
     DEF TypeOK, Inductiva, MemoriaTypeOK, PasoHiloCpu, HiloCpu, cpu_vars, Presentes,
         BuscarMarcoLibre, CargarMarco, ElegirPaginaASacar, GuardarVictima, ReemplazarPagina
<1>1. CASE BuscarMarcoLibre
  BY <1>0, <1>1, SinTocarTablas, LimpiaIgual DEF BuscarMarcoLibre, MismoBit, Finalizando
<1>2. CASE ElegirPaginaASacar
  <2>1. UNCHANGED <<swap, memoria_real>>
    BY <1>2 DEF ElegirPaginaASacar
  <2> QED
    BY <1>0, <1>2, <2>1, MarcosQueSiguen, BitsQueSiguen, LimpiaIgual DEF Finalizando
<1>3. CASE CargarMarco
  <2>1. /\ memoria_real' = [memoria_real EXCEPT ![hc.marco] = swap[hc.id][calcular_num_pagina(hc.pos)]]
        /\ UNCHANGED swap /\ hc.marco \notin bitmap
    BY <1>0, <1>3 DEF CargarMarco, Vigente
  <2>2. ASSUME NEW p \in Procesos, NEW pos \in Presentes(p)' PROVE LimpiaEn(p, pos)'
    <3>1. CASE p = hc.id /\ pos = hc.pos
      BY <1>0, <1>3, <2>1, <3>1, CargarMarcoEs, LimpiaTraida
    <3>2. CASE ~(p = hc.id /\ pos = hc.pos)
      <4>1. pos \in Presentes(p) /\ Marco(p, pos)' = Marco(p, pos)
        <5>1. CASE p # hc.id
          BY <1>3, <5>1, MarcosQueSiguen, MismosMarcosDe
        <5>2. CASE p = hc.id /\ pos # hc.pos
          BY <1>3, <5>2, CargarMarcoEs DEF Presentes, Marco
        <5> QED
          BY <3>2, <5>1, <5>2
      <4>2. Marco(p, pos) # hc.marco
        BY <1>0, <2>1, <4>1 DEF Reparto
      <4>3. MismoBit(p, pos)
        BY <1>3, <4>1, BitsQueSiguen
      <4> QED
        BY <1>0, <2>1, <4>1, <4>2, <4>3, LimpiaTraida
    <3> QED
      BY <3>1, <3>2
  <2> QED
    BY <2>2 DEF Limpia
<1>4. CASE GuardarVictima
  <2>1. PICK x : x = Victima
    OBVIOUS
  <2>2. x \in Presentes(hc.id) /\ x \in Posiciones /\ Marco(hc.id, x) = hc.marco
    BY <1>4, <2>1, VictimaDe DEF GuardarVictima
  <2>3. UNCHANGED memoria_real
    BY <1>4 DEF GuardarVictima
  <2>4. CASE swap' = [swap EXCEPT ![hc.id][calcular_num_pagina(x)] = memoria_real[hc.marco]]
    <3>1. ASSUME NEW p \in Procesos, NEW pos \in Presentes(p)' PROVE LimpiaEn(p, pos)'
      <4>1. pos \in Presentes(p) /\ pos \in Posiciones /\ Marco(p, pos)' = Marco(p, pos)
        BY <1>0, <1>4, MarcosQueSiguen, MismosMarcosDe
      <4>2. /\ calcular_num_pagina(pos) \in TodasLasPaginas
            /\ calcular_num_pagina(x) \in TodasLasPaginas
            /\ pos # x => calcular_num_pagina(pos) # calcular_num_pagina(x)
        BY <2>2, <4>1, NumeroDe, NumerosDistintos
      <4>3. CASE p = hc.id /\ pos = x
        <5>1. swap'[p][calcular_num_pagina(pos)] = memoria_real[Marco(p, pos)]
          BY <1>0, <2>2, <2>4, <4>2, <4>3 DEF MemoriaTypeOK
        <5>2. calcular_num_pagina(pos)' = calcular_num_pagina(pos)
          BY DEF calcular_num_pagina
        <5> QED
          BY <2>3, <4>1, <5>1, <5>2 DEF LimpiaEn
      <4>4. CASE ~(p = hc.id /\ pos = x)
        <5>1. swap'[p][calcular_num_pagina(pos)] = swap[p][calcular_num_pagina(pos)]
          BY <1>0, <2>2, <2>4, <4>2, <4>4 DEF MemoriaTypeOK
        <5>2. MismoBit(p, pos)
          BY <1>4, <2>1, <4>1, <4>4, BitsQueSiguen
        <5>3. LimpiaEn(p, pos) /\ (Finalizando(p)' <=> Finalizando(p))
          BY <1>0, <4>1 DEF Limpia, Finalizando
        <5> QED
          BY <2>3, <4>1, <5>1, <5>2, <5>3, LimpiaSigue
      <4> QED
        BY <4>3, <4>4
    <3> QED
      BY <3>1 DEF Limpia
  <2>5. CASE UNCHANGED <<swap, tabla>>
    BY <1>0, <2>3, <2>5, SinTocarTablas, LimpiaIgual DEF MismoBit, Finalizando
  <2> QED
    BY <1>4, <2>1, <2>4, <2>5 DEF GuardarVictima
<1>5. CASE ReemplazarPagina
  <2>1. /\ memoria_real' = [memoria_real EXCEPT ![hc.marco] = swap[hc.id][calcular_num_pagina(hc.pos)]]
        /\ UNCHANGED swap
    BY <1>5 DEF ReemplazarPagina
  <2>2. PICK x : x = Victima
    OBVIOUS
  <2>3. x \in Presentes(hc.id) /\ x \in Posiciones /\ Marco(hc.id, x) = hc.marco
    BY <1>5, <2>2, VictimaDe DEF ReemplazarPagina
  <2>4. ASSUME NEW p \in Procesos, NEW pos \in Presentes(p)' PROVE LimpiaEn(p, pos)'
    <3>1. CASE p = hc.id /\ pos = hc.pos
      BY <1>0, <1>5, <2>1, <2>2, <2>3, <3>1, ReemplazarPaginaEs, LimpiaTraida
    <3>2. CASE ~(p = hc.id /\ pos = hc.pos)
      <4>1. pos \in Presentes(p) /\ Marco(p, pos)' = Marco(p, pos) /\ ~(p = hc.id /\ pos = x)
        <5>1. CASE p # hc.id
          BY <1>5, <5>1, MarcosQueSiguen, MismosMarcosDe
        <5>2. CASE p = hc.id /\ pos # hc.pos
          BY <1>5, <2>2, <2>3, <5>2, ReemplazarPaginaEs DEF Presentes, Marco
        <5> QED
          BY <3>2, <5>1, <5>2
      <4>2. Marco(p, pos) # hc.marco
        BY <1>0, <2>3, <4>1 DEF Reparto
      <4>3. MismoBit(p, pos)
        BY <1>5, <2>2, <2>3, <4>1, BitsQueSiguen
      <4> QED
        BY <1>0, <2>1, <4>1, <4>2, <4>3, LimpiaTraida
    <3> QED
      BY <3>1, <3>2
  <2> QED
    BY <2>4 DEF Limpia
<1> QED
  BY <1>1, <1>2, <1>3, <1>4, <1>5 DEF PasoHiloCpu, HiloCpu

\* Every step.
LEMMA LimpiaPaso ==
  ASSUME TypeOK, Inductiva, SwapFiel, MarcoVigente, [Next]_vars
  PROVE  SwapFiel'
<1>1. Limpia
  BY LimpiaEs
<1>2. ASSUME UNCHANGED vars PROVE Limpia'
  <2>1. UNCHANGED <<tabla, swap, memoria_real, hk>>
    BY <1>2 DEF vars, memoria_vars
  <2> QED
    BY <1>1, <2>1, SinTocarTablas, LimpiaIgual DEF MismoBit, Finalizando
<1>3. ASSUME Next PROVE Limpia'
  BY <1>1, <1>3, LimpiaCpu, LimpiaKernel, LimpiaHiloCpu DEF Next
<1>4. Limpia'
  BY <1>2, <1>3
<1> QED
  BY <1>4, LimpiaEsLuego

\* No page is present to start with.
LEMMA SwapInicial == Init => SwapFiel /\ VictimaGuardada
<1> SUFFICES ASSUME Init PROVE SwapFiel /\ VictimaGuardada
  OBVIOUS
<1>1. \A p \in Procesos : Presentes(p) = {}
  BY DEF Init, MemoriaInit, SinTabla, TablaNueva, Presentes
<1>2. Limpia
  BY <1>1 DEF Limpia
<1>3. hc.en = "libre"
  BY DEF Init, MemoriaInit, CpuLibre, Atender
<1> QED
  BY <1>2, <1>3, LimpiaEs DEF VictimaGuardada

\* GuardarVictima has seen to the victim, and until ReemplazarPagina nobody
\* writes to its process.
LEMMA VictimaPaso ==
  ASSUME TypeOK, Inductiva, VictimaGuardada, [Next]_vars
  PROVE  VictimaGuardada'
<1>0. /\ MemoriaTypeOK /\ Turnos /\ acceso.en \in {"libre", "pedido", "con_marco"}
      /\ \A p : Presentes(p) \subseteq Posiciones
      /\ hc.en # "libre" => hc.id \in Procesos
  BY DEF TypeOK, Inductiva, MemoriaTypeOK, Presentes
<1> SUFFICES ASSUME hc'.en = "reemplazar", NEW pos \in Presentes(hc.id)', Marco(hc.id, pos)' = hc'.marco
             PROVE  tabla'[hc'.id][pos].bit_modificacion # 1
  BY DEF VictimaGuardada
<1>1. CASE GuardarVictima
  <2>1. PICK x : x = Victima
    OBVIOUS
  <2>2. /\ x \in Presentes(hc.id) /\ x \in Posiciones /\ Marco(hc.id, x) = hc.marco
        /\ Distintos(hc.id) /\ hc.id \in Procesos
    BY <1>0, <1>1, <2>1, VictimaDe, ExclusivosDistintos DEF GuardarVictima, Inductiva
  <2>3. hc'.id = hc.id /\ hc'.marco = hc.marco
    BY <1>0, <1>1 DEF GuardarVictima, MemoriaTypeOK
  <2>4. PICK i : i = hc.id
    OBVIOUS
  <2>5. pos \in Presentes(i)' /\ Marco(i, pos)' = hc.marco
    BY <2>3, <2>4 DEF Presentes, Marco
  <2>6. pos \in Presentes(i) /\ Marco(i, pos) = hc.marco
    BY <1>1, <2>2, <2>4, <2>5, MarcosQueSiguen, MismosMarcosDe
  <2>7. pos = x
    BY <2>2, <2>4, <2>6 DEF Distintos
  <2>8. CASE tabla[hc.id][x].bit_modificacion # 1 /\ UNCHANGED tabla
    BY <2>3, <2>7, <2>8
  <2>9. CASE tabla' = [tabla EXCEPT ![hc.id][x].bit_modificacion = 0]
    BY <1>0, <2>2, <2>3, <2>7, <2>9 DEF MemoriaTypeOK, Pagina
  <2> QED
    BY <1>1, <2>1, <2>8, <2>9 DEF GuardarVictima
<1>2. CASE ~GuardarVictima
  <2>1. hc' = hc /\ (UNCHANGED vars \/ PasoHiloKernel \/ \E p \in Procesos : PedidoDelKernel(p))
    <3>1. CASE UNCHANGED vars
      BY <3>1 DEF vars, memoria_vars
    <3>2. CASE PasoHiloKernel \/ \E p \in Procesos : PedidoDelKernel(p)
      BY <3>2 DEF PasoHiloKernel, HiloKernel, GuardarPaginaSuspendida, LiberarPagina,
                  ResponderKernel, PedidoDelKernel, CrearTablas, Suspender, Finalizar
    <3>3. ~PasoHiloCpu
      BY <1>0, <1>2 DEF PasoHiloCpu, HiloCpu, BuscarMarcoLibre, CargarMarco, ReemplazarPagina,
                        ElegirPaginaASacar, MemoriaTypeOK
    <3>4. ~AccesoCpu
      <4>1. SUFFICES ASSUME AccesoCpu PROVE FALSE
        OBVIOUS
      <4>2. CASE \E p \in Procesos : Despachar(p)
        BY <1>0, <4>2 DEF Despachar, Turnos, memoria_vars
      <4>3. CASE Devolver
        BY <1>0, <4>3 DEF Devolver, Turnos, memoria_vars
      <4>4. ASSUME NEW n \in Paginas(en_cpu), BuscarEnTLB(n) PROVE FALSE
        BY <1>0, <4>4 DEF BuscarEnTLB, Turnos, memoria_vars
      <4>5. ASSUME NEW n \in Paginas(en_cpu), PedirTodoMemoria(n) PROVE FALSE
        BY <4>5 DEF PedirTodoMemoria, SolicitudFrame, Atender
      <4>6. CASE RecibirFrame
        BY <4>6 DEF RecibirFrame, CpuLibre, Atender
      <4>7. CASE Leer
        BY <4>7 DEF Leer, Lectura
      <4>8. ASSUME NEW v \in Valores, Escribir(v) PROVE FALSE
        BY <4>8, Zenon DEF Escribir, Escritura
      <4> QED
        BY <4>1, <4>2, <4>3, <4>4, <4>5, <4>6, <4>7, <4>8 DEF AccesoCpu
    <3> QED
      BY <3>1, <3>2, <3>3, <3>4 DEF Next
  <2>2. PICK i : i = hc.id
    OBVIOUS
  <2>3. pos \in Presentes(i)' /\ Marco(i, pos)' = hc.marco /\ i \in Procesos
    BY <1>0, <2>1, <2>2 DEF Presentes, Marco
  <2>4. MismosMarcos(i) /\ \A q \in Presentes(i) : MismoBit(i, q) \/ tabla'[i][q].bit_modificacion # 1
    <3>1. CASE UNCHANGED tabla
      BY <3>1 DEF MismosMarcos, MismoBit
    <3>2. i = en_cpu /\ (hk.op # "nada" => hk.id # i)
      BY <1>0, <2>1, <2>2 DEF Turnos
    <3>3. CASE PasoHiloKernel
      BY <2>3, <3>2, <3>3, MarcosQueSiguen, BitsQueSiguen
         DEF PasoHiloKernel, HiloKernel, GuardarPaginaSuspendida, LiberarPagina
    <3>4. ASSUME NEW p \in Procesos, PedidoDelKernel(p)
          PROVE  UNCHANGED tabla \/ CrearTablas(p)
      BY <3>4 DEF PedidoDelKernel, Suspender, Finalizar
    <3>5. ASSUME NEW p \in Procesos, CrearTablas(p)
          PROVE  MismosMarcos(i) /\ \A q \in Presentes(i) : MismoBit(i, q)
      BY <2>3, <3>5, MarcosQueSiguen, BitsQueSiguen
    <3>6. UNCHANGED vars => UNCHANGED tabla
      BY DEF vars, memoria_vars
    <3> QED
      BY <2>1, <3>1, <3>3, <3>4, <3>5, <3>6
  <2>5. pos \in Presentes(i) /\ Marco(i, pos) = hc.marco
    BY <2>3, <2>4, MismosMarcosDe
  <2>6. tabla[i][pos].bit_modificacion # 1
    BY <2>1, <2>2, <2>5 DEF VictimaGuardada
  <2> QED
    BY <2>1, <2>2, <2>4, <2>5, <2>6 DEF MismoBit
<1> QED
  BY <1>1, <1>2

\* While the CPU uses the right frames, a page whose bit_modificacion is not 1
\* is the same in swap, and may be dropped; so is the victim of a replacement.
THEOREM SwapFielSiVigente == Spec /\ []MarcoVigente => [](SwapFiel /\ VictimaGuardada)
<1>1. Init => SwapFiel /\ VictimaGuardada
  BY SwapInicial
<1>2. TypeOK /\ Inductiva /\ MarcoVigente /\ SwapFiel /\ VictimaGuardada /\ [Next]_vars
        => (SwapFiel /\ VictimaGuardada)'
  BY LimpiaPaso, VictimaPaso
<1> QED
  BY <1>1, <1>2, Invariantes, PTL DEF Spec

\* And with a TLB of one entry or two it always uses the right ones.
THEOREM SwapSiempreFiel == ENTRADAS_TLB <= 2 => (Spec => []SwapFiel)
  BY SwapFielSiVigente, MarcoSiempreVigente, PTL

-----------------------------------------------------------------------------
\* The memory that programs see

\* No value changes, wherever it is.
MismosDatos == \A p \in Procesos : \A n \in Paginas(p) : Dato(p, n)' = Dato(p, n)

\* A page that neither comes nor goes.
LEMMA DatoSigue ==
  ASSUME NEW p \in Procesos, NEW n, NEW x, x = Posicion(n),
         tabla'[p][x].bit_presencia = 1 <=> tabla[p][x].bit_presencia = 1,
         tabla[p][x].bit_presencia = 1 =>
           /\ tabla'[p][x].numero_frame = tabla[p][x].numero_frame
           /\ memoria_real'[tabla[p][x].numero_frame] = memoria_real[tabla[p][x].numero_frame],
         tabla[p][x].bit_presencia # 1 => swap'[p][n] = swap[p][n],
         tablas'[p] = tablas[p], Finalizando(p)' <=> Finalizando(p)
  PROVE  Dato(p, n)' = Dato(p, n)
<1>1. Posicion(n)' = x
  BY DEF Posicion
<1> QED
  BY <1>1 DEF Dato, Marco, Finalizando

\* A step that leaves every page where it is, and touches no frame in use, nor
\* the copy of a page that is only in swap.
LEMMA DatosSiguen ==
  ASSUME \A p \in Procesos : MismosMarcos(p),
         UNCHANGED tablas, \A p \in Procesos : Finalizando(p)' <=> Finalizando(p),
         \A p \in Procesos : \A pos \in Presentes(p) :
           memoria_real'[Marco(p, pos)] = memoria_real[Marco(p, pos)],
         \A p \in Procesos : \A n \in Paginas(p) :
           Posicion(n) \notin Presentes(p) => swap'[p][n] = swap[p][n]
  PROVE  MismosDatos
<1> SUFFICES ASSUME NEW p \in Procesos, NEW n \in Paginas(p)
             PROVE  Dato(p, n)' = Dato(p, n)
  BY DEF MismosDatos
<1>1. PICK x : x = Posicion(n)
  OBVIOUS
<1>2. x \in Posiciones
  BY <1>1, PaginasEnTabla
<1>3. x \in Presentes(p) <=> tabla[p][x].bit_presencia = 1
  BY <1>2 DEF Presentes
<1> QED
  BY <1>1, <1>2, <1>3, DatoSigue DEF MismosMarcos, Marco

\* The CPU, but for what it reads and writes.
LEMMA DatosCpu ==
  ASSUME TypeOK, Inductiva,
         \/ \E p \in Procesos : Despachar(p)
         \/ Devolver
         \/ \E n \in Paginas(en_cpu) : BuscarEnTLB(n) \/ PedirTodoMemoria(n)
         \/ RecibirFrame
         \/ Leer
  PROVE  MismosDatos
<1>1. CASE Leer
  <2>1. UNCHANGED <<tablas, swap, memoria_real, hk>>
    BY <1>1 DEF Leer, Lectura
  <2> QED
    BY <1>1, <2>1, MarcosQueSiguen, DatosSiguen DEF Finalizando
<1>2. ASSUME UNCHANGED <<tablas, tabla, swap, memoria_real, hk>> PROVE MismosDatos
  BY <1>2, SinTocarTablas, DatosSiguen DEF Finalizando
<1> QED
  BY <1>1, <1>2 DEF Despachar, Devolver, BuscarEnTLB, PedirTodoMemoria, SolicitudFrame,
                    RecibirFrame, memoria_vars

\* READ gives the value of its page.
LEMMA LeerDato ==
  ASSUME TypeOK, Inductiva, MarcoVigente, Leer
  PROVE  /\ en_cpu \in Procesos /\ acceso.pagina \in Paginas(en_cpu)
         /\ resultado' = [id |-> en_cpu, pagina |-> acceso.pagina,
                          valor |-> Dato(en_cpu, acceso.pagina)]
<1>1. Turnos /\ acceso.en = "con_marco"
  BY DEF Inductiva, Leer
<1>2. /\ en_cpu \in Procesos /\ acceso.pagina \in Paginas(en_cpu)
      /\ tablas[en_cpu] = "creadas" /\ ~Finalizando(en_cpu)
  BY <1>1 DEF TypeOK, Turnos, Finalizando
<1>3. Dato(en_cpu, acceso.pagina) = memoria_real[acceso.marco]
  BY <1>1, <1>2 DEF MarcoVigente, Dato, Marco, Finalizando
<1> QED
  BY <1>2, <1>3 DEF Leer

\* WRITE changes the value of its page and no other.
LEMMA EscribirDato ==
  ASSUME TypeOK, Inductiva, MarcoVigente, NEW v \in Valores, Escribir(v)
  PROVE  /\ en_cpu \in Procesos /\ acceso.pagina \in Paginas(en_cpu)
         /\ \A p \in Procesos : \A n \in Paginas(p) :
              Dato(p, n)' = IF p = en_cpu /\ n = acceso.pagina THEN v ELSE Dato(p, n)
<1>1. Turnos /\ acceso.en = "con_marco" /\ MemoriaTypeOK /\ Reparto
  BY RepartoEs DEF Inductiva, Escribir, TypeOK
<1>2. /\ en_cpu \in Procesos /\ acceso.pagina \in Paginas(en_cpu)
      /\ tablas[en_cpu] = "creadas" /\ ~Finalizando(en_cpu)
  BY <1>1 DEF TypeOK, Turnos, Finalizando
<1>3. PICK i, m, f : i = en_cpu /\ m = acceso.pagina /\ f = acceso.marco
  OBVIOUS
<1>4. PICK y : y = Posicion(m)
  OBVIOUS
<1>5. /\ y \in Posiciones /\ y \in Presentes(i) /\ Marco(i, y) = f /\ f \in Marcos
      /\ tabla[i][y].bit_presencia = 1 /\ tabla[i][y].numero_frame = f
  BY <1>1, <1>2, <1>3, <1>4, PaginasEnTabla DEF MarcoVigente, Presentes, Marco, TypeOK
<1>6. /\ memoria_real' = [memoria_real EXCEPT ![f] = v]
      /\ UNCHANGED <<swap, hk, tablas>>
  BY <1>3 DEF Escribir, Escritura
<1>7. \A p \in Procesos : MismosMarcos(p)
  BY MarcosQueSiguen
<1>8. Dato(i, m)' = v
  <2>1. Posicion(m)' = y
    BY <1>4 DEF Posicion
  <2>2. tabla'[i][y].bit_presencia = 1 /\ tabla'[i][y].numero_frame = f
    BY <1>2, <1>3, <1>5, <1>7 DEF MismosMarcos
  <2>3. memoria_real'[f] = v
    BY <1>1, <1>5, <1>6 DEF MemoriaTypeOK
  <2> QED
    BY <1>2, <1>3, <1>6, <2>1, <2>2, <2>3 DEF Dato, Marco, Finalizando
<1>9. ASSUME NEW p \in Procesos, NEW n \in Paginas(p), ~(p = i /\ n = m)
      PROVE  Dato(p, n)' = Dato(p, n)
  <2>1. PICK x : x = Posicion(n)
    OBVIOUS
  <2>2. x \in Posiciones /\ (p = i => x # y)
    BY <1>2, <1>3, <1>4, <1>9, <2>1, PaginasEnTabla, PosicionDe
  <2>3. ASSUME x \in Presentes(p)
        PROVE  memoria_real'[tabla[p][x].numero_frame] = memoria_real[tabla[p][x].numero_frame]
    <3>1. Marco(p, x) # f
      BY <1>1, <1>2, <1>3, <1>5, <2>2, <2>3 DEF Reparto
    <3>2. tabla[p][x].numero_frame \in Marcos
      BY <1>1, <2>2, EntradaTipo DEF Pagina
    <3> QED
      BY <1>1, <1>6, <3>1, <3>2 DEF Marco, MemoriaTypeOK
  <2>4. tabla[p][x].bit_presencia = 1 <=> x \in Presentes(p)
    BY <2>2 DEF Presentes
  <2>5. Finalizando(p)' <=> Finalizando(p)
    BY <1>6 DEF Finalizando
  <2> QED
    BY <1>6, <1>7, <2>1, <2>2, <2>3, <2>4, <2>5, DatoSigue DEF MismosMarcos
<1> QED
  BY <1>2, <1>3, <1>8, <1>9

\* The kernel and hilo_kernel: a page that is suspended goes to swap as it is,
\* and only an exit, Finalizar, forgets what a process wrote.
LEMMA DatosKernel ==
  ASSUME TypeOK, Inductiva, SwapFiel,
         PasoHiloKernel \/ \E p \in Procesos : CrearTablas(p) \/ Suspender(p)
  PROVE  MismosDatos
<1>0. /\ MemoriaTypeOK /\ Turnos /\ Limpia
      /\ hk.op # "nada" => hk.id \in Procesos
  BY LimpiaEs DEF TypeOK, Inductiva, MemoriaTypeOK
<1>1. ASSUME NEW q \in Procesos, CrearTablas(q)
      PROVE  MismosDatos
  <2>1. /\ Presentes(q) = {} /\ hk.op = "nada" /\ UNCHANGED <<hk, memoria_real>>
        /\ tablas[q] = "sin_crear" /\ \A p \in Procesos : p # q => tablas'[p] = tablas[p]
        /\ \A n \in TodasLasPaginas : swap'[q][n] = BASURA
        /\ \A p \in Procesos : p # q => swap'[p] = swap[p]
        /\ \A p \in Procesos : MismosMarcos(p)
    BY <1>0, <1>1, MarcosQueSiguen DEF CrearTablas, Turnos, MemoriaTypeOK
  <2> SUFFICES ASSUME NEW p \in Procesos, NEW n \in Paginas(p)
               PROVE  Dato(p, n)' = Dato(p, n)
    BY DEF MismosDatos
  <2>2. PICK x : x = Posicion(n)
    OBVIOUS
  <2>3. x \in Posiciones /\ n \in TodasLasPaginas
    BY <2>2, PaginasEnTabla
  <2>4. CASE p = q
    <3>1. tabla'[p][x].bit_presencia # 1
      BY <2>1, <2>3, <2>4 DEF MismosMarcos, Presentes
    <3>2. Posicion(n)' = x
      BY <2>2 DEF Posicion
    <3> QED
      BY <2>1, <2>3, <2>4, <3>1, <3>2 DEF Dato
  <2>5. CASE p # q
    <3>1. Finalizando(p)' <=> Finalizando(p)
      BY <2>1 DEF Finalizando
    <3> QED
      BY <2>1, <2>2, <2>3, <2>5, <3>1, DatoSigue DEF MismosMarcos
  <2> QED
    BY <2>4, <2>5
<1>2. ASSUME NEW q \in Procesos, Suspender(q)
      PROVE  MismosDatos
  <2>1. /\ UNCHANGED <<tablas, tabla, swap, memoria_real>>
        /\ \A p \in Procesos : ~Finalizando(p) /\ ~Finalizando(p)'
    BY <1>2 DEF Suspender, Finalizando
  <2> QED
    BY <2>1, SinTocarTablas, DatosSiguen
<1>3. CASE GuardarPaginaSuspendida
  <2>1. PICK y : y = EnCurso
    OBVIOUS
  <2>2. y \in Presentes(hk.id) /\ y \in Posiciones /\ hk.id \in Procesos
    BY <1>0, <1>3, <2>1, EnCursoPresente DEF GuardarPaginaSuspendida
  <2>3. /\ swap' = [swap EXCEPT ![hk.id][calcular_num_pagina(y)] = memoria_real[Marco(hk.id, y)]]
        /\ UNCHANGED <<tablas, memoria_real, hk>>
    BY <1>3, <2>1 DEF GuardarPaginaSuspendida
  <2>4. PICK i : i = hk.id
    OBVIOUS
  <2>5. ASSUME NEW p \in Procesos, NEW n \in Paginas(p), Posicion(n) \notin Presentes(p)
        PROVE  swap'[p][n] = swap[p][n]
    <3>1. n \in TodasLasPaginas /\ calcular_num_pagina(y) \in TodasLasPaginas
      BY <2>2, NumeroDe, PaginasEnTabla
    <3>2. p = i => n # calcular_num_pagina(y)
      BY <2>2, <2>4, <2>5, NumeroDe
    <3> QED
      BY <1>0, <2>2, <2>3, <2>4, <3>1, <3>2 DEF MemoriaTypeOK
  <2> QED
    BY <1>3, <2>3, <2>5, MarcosQueSiguen, DatosSiguen DEF Finalizando
<1>4. CASE LiberarPagina
  <2>1. PICK i, y : i = hk.id /\ y = EnCurso
    OBVIOUS
  <2>2. y \in Presentes(i) /\ y \in Posiciones /\ i \in Procesos
    BY <1>0, <1>4, <2>1, EnCursoPresente DEF LiberarPagina
  <2>3. UNCHANGED <<tablas, swap, memoria_real, hk>>
    BY <1>4 DEF LiberarPagina
  <2>4. \A q \in Posiciones :
          /\ tabla'[i][q].bit_presencia = IF q = y THEN 0 ELSE tabla[i][q].bit_presencia
          /\ tabla'[i][q].numero_frame = tabla[i][q].numero_frame
    BY <1>4, <2>1, LiberarPaginaEs
  <2> SUFFICES ASSUME NEW p \in Procesos, NEW n \in Paginas(p)
               PROVE  Dato(p, n)' = Dato(p, n)
    BY DEF MismosDatos
  <2>5. PICK x : x = Posicion(n)
    OBVIOUS
  <2>6. x \in Posiciones /\ calcular_num_pagina(x) = n
    BY <2>5, PaginasEnTabla, PosicionDe
  <2>7. Finalizando(p)' <=> Finalizando(p)
    BY <2>3 DEF Finalizando
  <2>8. CASE p = i /\ x = y
    <3>1. CASE Finalizando(p)
      BY <2>7, <3>1 DEF Dato, Finalizando
    <3>2. CASE ~Finalizando(p)
      <4>1. tabla[p][x].bit_modificacion # 1
        BY <1>0, <1>4, <2>1, <2>8, <3>2 DEF LiberarPagina, Finalizando, MemoriaTypeOK
      <4>2. swap[p][n] = memoria_real[Marco(p, x)]
        BY <1>0, <2>2, <2>6, <2>8, <3>2, <4>1 DEF Limpia, LimpiaEn
      <4>3. tabla[p][x].bit_presencia = 1 /\ tabla'[p][x].bit_presencia = 0
        BY <2>2, <2>4, <2>6, <2>8 DEF Presentes
      <4>4. Posicion(n)' = x
        BY <2>5 DEF Posicion
      <4> QED
        BY <2>3, <2>5, <2>7, <3>2, <4>2, <4>3, <4>4 DEF Dato, Finalizando
    <3> QED
      BY <3>1, <3>2
  <2>9. CASE ~(p = i /\ x = y)
    <3>1. /\ tabla'[p][x].bit_presencia = 1 <=> tabla[p][x].bit_presencia = 1
          /\ tabla[p][x].bit_presencia = 1 => tabla'[p][x].numero_frame = tabla[p][x].numero_frame
      <4>1. CASE p # i
        BY <1>4, <2>1, <2>6, <4>1, MarcosQueSiguen DEF MismosMarcos
      <4> QED
        BY <2>4, <2>6, <2>9, <4>1
    <3> QED
      BY <2>3, <2>5, <2>7, <3>1, DatoSigue
  <2> QED
    BY <2>8, <2>9
<1>5. CASE ResponderKernel
  <2>1. UNCHANGED <<swap, memoria_real>> /\ hk.id \in Procesos /\ hk'.op = "nada"
    BY <1>0, <1>5 DEF ResponderKernel, HiloLibre
  <2>2. CASE hk.op # "finalizar"
    <3>1. UNCHANGED <<tablas, tabla>> /\ \A p : Finalizando(p)' <=> Finalizando(p)
      BY <1>5, <2>1, <2>2 DEF ResponderKernel, Finalizando
    <3> QED
      BY <2>1, <3>1, SinTocarTablas, DatosSiguen
  <2>3. CASE hk.op = "finalizar"
    <3> SUFFICES ASSUME NEW p \in Procesos, NEW n \in Paginas(p)
                 PROVE  Dato(p, n)' = Dato(p, n)
      BY DEF MismosDatos
    <3>1. tablas' = [tablas EXCEPT ![hk.id] = "liberadas"]
      BY <1>5, <2>3 DEF ResponderKernel
    <3>2. CASE p = hk.id
      BY <1>0, <2>3, <3>1, <3>2 DEF Dato, MemoriaTypeOK
    <3>3. CASE p # hk.id
      <4>1. Posicion(n) \in Posiciones
        BY PaginasEnTabla
      <4>2. MismosMarcos(p) /\ tablas'[p] = tablas[p]
        BY <1>0, <1>5, <3>1, <3>3, MarcosQueSiguen DEF MemoriaTypeOK
      <4>3. Finalizando(p)' <=> Finalizando(p)
        BY <2>1, <3>3 DEF Finalizando
      <4> QED
        BY <2>1, <4>1, <4>2, <4>3, DatoSigue DEF MismosMarcos
    <3> QED
      BY <3>2, <3>3
  <2> QED
    BY <2>2, <2>3
<1> QED
  BY <1>1, <1>2, <1>3, <1>4, <1>5 DEF PasoHiloKernel, HiloKernel

\* An exit forgets the values of its process, and of no other.
LEMMA FinalizarOlvida ==
  ASSUME TypeOK, NEW q \in Procesos, Finalizar(q)
  PROVE  \A p \in Procesos : \A n \in Paginas(p) :
           Dato(p, n)' = IF p = q THEN BASURA ELSE Dato(p, n)
<1>1. /\ hk.op = "nada" /\ UNCHANGED <<tablas, tabla, memoria_real>>
      /\ hk'.op = "finalizar" /\ hk'.id = q
      /\ \A p \in Procesos : p # q => swap'[p] = swap[p]
  BY DEF Finalizar, TypeOK, MemoriaTypeOK
<1> SUFFICES ASSUME NEW p \in Procesos, NEW n \in Paginas(p)
             PROVE  Dato(p, n)' = IF p = q THEN BASURA ELSE Dato(p, n)
  OBVIOUS
<1>2. CASE p = q
  BY <1>1, <1>2 DEF Dato
<1>3. CASE p # q
  <2>1. ~Finalizando(p)' /\ ~Finalizando(p)
    BY <1>1, <1>3 DEF Finalizando
  <2> QED
    BY <1>1, <1>3, <2>1, DatoSigue
<1> QED
  BY <1>2, <1>3

\* A page that hilo_cpu brings from swap, and the pages that are not in its frame.
LEMMA DatoTraido ==
  ASSUME TypeOK, Inductiva, hc.id \in Procesos, hc.pos \in Posiciones, hc.marco \in Marcos,
         memoria_real' = [memoria_real EXCEPT ![hc.marco] = swap[hc.id][calcular_num_pagina(hc.pos)]],
         UNCHANGED <<swap, hk, tablas>>,
         NEW p \in Procesos, NEW n \in Paginas(p), NEW x, x = Posicion(n),
         \/ /\ p = hc.id /\ x = hc.pos /\ x \notin Presentes(p)
            /\ tabla'[p][x].bit_presencia = 1 /\ tabla'[p][x].numero_frame = hc.marco
         \/ /\ tabla'[p][x].bit_presencia = tabla[p][x].bit_presencia
            /\ x \in Presentes(p) =>
                 Marco(p, x) # hc.marco /\ tabla'[p][x].numero_frame = Marco(p, x)
  PROVE  Dato(p, n)' = Dato(p, n)
<1>0. MemoriaTypeOK /\ x \in Posiciones /\ calcular_num_pagina(x) = n
  BY PaginasEnTabla, PosicionDe DEF TypeOK
<1>1. CASE /\ p = hc.id /\ x = hc.pos /\ x \notin Presentes(p)
           /\ tabla'[p][x].bit_presencia = 1 /\ tabla'[p][x].numero_frame = hc.marco
  <2>1. memoria_real'[hc.marco] = swap[p][n]
    BY <1>0, <1>1 DEF MemoriaTypeOK
  <2>2. Posicion(n)' = x
    BY DEF Posicion
  <2>3. tabla[p][x].bit_presencia # 1
    BY <1>0, <1>1 DEF Presentes
  <2> QED
    BY <1>1, <2>1, <2>2, <2>3 DEF Dato, Marco
<1>2. CASE /\ tabla'[p][x].bit_presencia = tabla[p][x].bit_presencia
           /\ x \in Presentes(p) =>
                Marco(p, x) # hc.marco /\ tabla'[p][x].numero_frame = Marco(p, x)
  <2>1. tabla[p][x].bit_presencia = 1 <=> x \in Presentes(p)
    BY <1>0 DEF Presentes
  <2>2. x \in Presentes(p) =>
          memoria_real'[tabla[p][x].numero_frame] = memoria_real[tabla[p][x].numero_frame]
    BY <1>0, <1>2, EntradaTipo DEF Marco, MemoriaTypeOK, Pagina
  <2>3. Finalizando(p)' <=> Finalizando(p)
    BY DEF Finalizando
  <2> QED
    BY <1>2, <2>1, <2>2, <2>3, DatoSigue DEF Marco
<1> QED
  BY <1>1, <1>2

\* hilo_cpu: the page it brings has in its frame what it had in swap, and the
\* victim has in swap what it had in its frame.
LEMMA DatosHiloCpu ==
  ASSUME TypeOK, Inductiva, SwapFiel, VictimaGuardada, PasoHiloCpu
  PROVE  MismosDatos
<1>0. /\ MemoriaTypeOK /\ Turnos /\ Vigente /\ Reparto /\ Limpia
      /\ hc.en # "libre" /\ hc.id \in Procesos /\ hc.pos \in Posiciones /\ hc.marco \in Marcos
      /\ UNCHANGED <<hk, tablas>> /\ ~Finalizando(hc.id)
  BY RepartoEs, LimpiaEs
     DEF TypeOK, Inductiva, MemoriaTypeOK, PasoHiloCpu, HiloCpu, Turnos, Finalizando,
         BuscarMarcoLibre, CargarMarco, ElegirPaginaASacar, GuardarVictima, ReemplazarPagina
<1>1. CASE BuscarMarcoLibre \/ ElegirPaginaASacar
  <2>1. UNCHANGED <<swap, memoria_real>>
    BY <1>1 DEF BuscarMarcoLibre, ElegirPaginaASacar
  <2>2. BuscarMarcoLibre => UNCHANGED tabla
    BY DEF BuscarMarcoLibre
  <2> QED
    BY <1>0, <1>1, <2>1, <2>2, SinTocarTablas, MarcosQueSiguen, DatosSiguen DEF Finalizando
<1>2. CASE CargarMarco
  <2>1. /\ memoria_real' = [memoria_real EXCEPT ![hc.marco] = swap[hc.id][calcular_num_pagina(hc.pos)]]
        /\ UNCHANGED swap /\ hc.marco \notin bitmap /\ hc.pos \notin Presentes(hc.id)
    BY <1>0, <1>2 DEF CargarMarco, Vigente
  <2> SUFFICES ASSUME NEW p \in Procesos, NEW n \in Paginas(p)
               PROVE  Dato(p, n)' = Dato(p, n)
    BY DEF MismosDatos
  <2>2. PICK x : x = Posicion(n)
    OBVIOUS
  <2>3. x \in Posiciones
    BY <2>2, PaginasEnTabla
  <2>4. CASE p = hc.id /\ x = hc.pos
    <3>1. tabla'[p][x].bit_presencia = 1 /\ tabla'[p][x].numero_frame = hc.marco
      BY <1>2, <2>3, <2>4, CargarMarcoEs
    <3> QED
      BY <1>0, <2>1, <2>2, <2>4, <3>1, DatoTraido
  <2>5. CASE ~(p = hc.id /\ x = hc.pos)
    <3>1. /\ tabla'[p][x].bit_presencia = tabla[p][x].bit_presencia
          /\ tabla'[p][x].numero_frame = Marco(p, x)
      <4>1. CASE p = hc.id
        BY <1>2, <2>3, <2>5, <4>1, CargarMarcoEs DEF Marco
      <4>2. CASE p # hc.id
        BY <1>0, <1>2, <4>2 DEF CargarMarco, Marco, MemoriaTypeOK
      <4> QED
        BY <4>1, <4>2
    <3>2. x \in Presentes(p) => Marco(p, x) # hc.marco
      BY <1>0, <2>1 DEF Reparto
    <3> QED
      BY <1>0, <2>1, <2>2, <3>1, <3>2, DatoTraido
  <2> QED
    BY <2>4, <2>5
<1>3. CASE GuardarVictima
  <2>1. PICK y : y = Victima
    OBVIOUS
  <2>2. y \in Presentes(hc.id) /\ y \in Posiciones
    BY <1>3, <2>1, VictimaDe DEF GuardarVictima
  <2>3. /\ UNCHANGED memoria_real
        /\ \/ swap' = [swap EXCEPT ![hc.id][calcular_num_pagina(y)] = memoria_real[hc.marco]]
           \/ UNCHANGED swap
    BY <1>3, <2>1 DEF GuardarVictima
  <2>4. ASSUME NEW p \in Procesos, NEW n \in Paginas(p), Posicion(n) \notin Presentes(p)
        PROVE  swap'[p][n] = swap[p][n]
    <3>1. n \in TodasLasPaginas /\ calcular_num_pagina(y) \in TodasLasPaginas
      BY <2>2, NumeroDe, PaginasEnTabla
    <3>2. p = hc.id => n # calcular_num_pagina(y)
      BY <2>2, <2>4, NumeroDe
    <3> QED
      BY <1>0, <2>3, <3>1, <3>2 DEF MemoriaTypeOK
  <2> QED
    BY <1>0, <1>3, <2>3, <2>4, MarcosQueSiguen, DatosSiguen DEF Finalizando
<1>4. CASE ReemplazarPagina
  <2>1. /\ memoria_real' = [memoria_real EXCEPT ![hc.marco] = swap[hc.id][calcular_num_pagina(hc.pos)]]
        /\ UNCHANGED swap /\ hc.en = "reemplazar" /\ hc.pos \notin Presentes(hc.id)
    BY <1>0, <1>4 DEF ReemplazarPagina, Vigente
  <2>2. PICK i, y : i = hc.id /\ y = Victima
    OBVIOUS
  <2>3. y \in Presentes(i) /\ y \in Posiciones /\ Marco(i, y) = hc.marco
    BY <2>1, <2>2, VictimaDe
  <2> SUFFICES ASSUME NEW p \in Procesos, NEW n \in Paginas(p)
               PROVE  Dato(p, n)' = Dato(p, n)
    BY DEF MismosDatos
  <2>4. PICK x : x = Posicion(n)
    OBVIOUS
  <2>5. x \in Posiciones /\ calcular_num_pagina(x) = n
    BY <2>4, PaginasEnTabla, PosicionDe
  <2>6. CASE p = hc.id /\ x = hc.pos
    <3>1. tabla'[p][x].bit_presencia = 1 /\ tabla'[p][x].numero_frame = hc.marco
      BY <1>4, <2>2, <2>3, <2>5, <2>6, ReemplazarPaginaEs
    <3> QED
      BY <1>0, <2>1, <2>4, <2>6, <3>1, DatoTraido
  <2>7. CASE p = i /\ x = y
    <3>1. x # hc.pos
      BY <2>1, <2>2, <2>3, <2>7
    <3>2. tabla[p][x].bit_presencia = 1 /\ tabla'[p][x].bit_presencia = 0
      BY <1>4, <2>2, <2>3, <2>7, <3>1, ReemplazarPaginaEs DEF Presentes
    <3>3. tabla[p][x].bit_modificacion # 1
      BY <2>1, <2>2, <2>3, <2>7 DEF VictimaGuardada
    <3>4. swap[p][n] = memoria_real[Marco(p, x)]
      BY <1>0, <2>2, <2>3, <2>5, <2>7, <3>3 DEF Limpia, LimpiaEn
    <3>5. Posicion(n)' = x
      BY <2>4 DEF Posicion
    <3>6. ~Finalizando(p) /\ ~Finalizando(p)'
      BY <1>0, <2>2, <2>7 DEF Finalizando
    <3> QED
      BY <1>0, <2>1, <2>4, <3>2, <3>4, <3>5, <3>6 DEF Dato, Finalizando
  <2>8. CASE ~(p = hc.id /\ x = hc.pos) /\ ~(p = i /\ x = y)
    <3>1. /\ tabla'[p][x].bit_presencia = tabla[p][x].bit_presencia
          /\ tabla'[p][x].numero_frame = Marco(p, x)
      <4>1. CASE p = hc.id
        BY <1>4, <2>2, <2>3, <2>5, <2>8, <4>1, ReemplazarPaginaEs DEF Marco
      <4>2. CASE p # hc.id
        BY <1>0, <1>4, <4>2 DEF ReemplazarPagina, Marco, MemoriaTypeOK
      <4> QED
        BY <4>1, <4>2
    <3>2. x \in Presentes(p) => Marco(p, x) # hc.marco
      BY <1>0, <2>2, <2>3, <2>8 DEF Reparto
    <3> QED
      BY <1>0, <2>1, <2>4, <3>1, <3>2, DatoTraido
  <2> QED
    BY <2>6, <2>7, <2>8
<1> QED
  BY <1>1, <1>2, <1>3, <1>4 DEF PasoHiloCpu, HiloCpu

-----------------------------------------------------------------------------
\* The refinement of MemoriaPlana

\* No page has been written to.
LEMMA PlanaInicial == Init => Plana!Init
<1> SUFFICES ASSUME Init PROVE Plana!Init
  OBVIOUS
<1>1. \A p \in Procesos : \A n \in Paginas(p) : Dato(p, n) = BASURA
  BY DEF Init, MemoriaInit, Dato
<1> QED
  BY <1>1 DEF Init, Plana!Init

\* Every step of memory and the CPU is a step of the flat memory, or none.
LEMMA PlanaPaso ==
  ASSUME TypeOK, Inductiva, SwapFiel, VictimaGuardada, MarcoVigente, [Next]_vars
  PROVE  [Plana!Next]_<<[p \in Procesos |-> [n \in Paginas(p) |-> Dato(p, n)]], resultado>>
<1> DEFINE dato == [p \in Procesos |-> [n \in Paginas(p) |-> Dato(p, n)]]
<1>1. MismosDatos => dato' = dato
  BY DEF MismosDatos
<1>2. CASE UNCHANGED vars
  <2>1. MismosDatos /\ UNCHANGED resultado
    BY <1>2 DEF vars, memoria_vars, cpu_vars, MismosDatos, Dato, Marco, Posicion
  <2> QED
    BY <1>1, <2>1
<1>3. CASE PasoHiloKernel \/ PasoHiloCpu \/ \E p \in Procesos : Despachar(p)
  <2>1. MismosDatos
    BY <1>3, DatosCpu, DatosKernel, DatosHiloCpu
  <2>2. UNCHANGED resultado
    BY <1>3 DEF PasoHiloKernel, PasoHiloCpu, Despachar, cpu_vars
  <2> QED
    BY <1>1, <2>1, <2>2
<1>4. ASSUME NEW p \in Procesos, PedidoDelKernel(p)
      PROVE  [Plana!Next]_<<dato, resultado>>
  <2>1. UNCHANGED resultado
    BY <1>4 DEF PedidoDelKernel, cpu_vars
  <2>2. CASE CrearTablas(p) \/ Suspender(p)
    BY <1>1, <2>1, <2>2, DatosKernel
  <2>3. CASE Finalizar(p)
    <3>1. dato' = [dato EXCEPT ![p] = [n \in Paginas(p) |-> BASURA]]
      BY <2>3, FinalizarOlvida
    <3> QED
      BY <2>1, <3>1 DEF Plana!Next, Plana!Olvidar
  <2> QED
    BY <1>4, <2>2, <2>3 DEF PedidoDelKernel
<1>5. CASE \/ Devolver \/ RecibirFrame
           \/ \E n \in Paginas(en_cpu) : BuscarEnTLB(n) \/ PedirTodoMemoria(n)
  <2>1. dato' = dato
    BY <1>1, <1>5, DatosCpu
  <2>2. resultado' = NULO \/ UNCHANGED resultado
    BY <1>5 DEF Devolver, RecibirFrame, BuscarEnTLB, PedirTodoMemoria
  <2> QED
    BY <2>1, <2>2 DEF Plana!Next, Plana!Seguir
<1>6. CASE Leer
  <2>1. dato' = dato
    BY <1>1, <1>6, DatosCpu
  <2>2. /\ en_cpu \in Procesos /\ acceso.pagina \in Paginas(en_cpu)
        /\ resultado' = [id |-> en_cpu, pagina |-> acceso.pagina,
                         valor |-> dato[en_cpu][acceso.pagina]]
    BY <1>6, LeerDato
  <2> QED
    BY <2>1, <2>2 DEF Plana!Next, Plana!Leer
<1>7. ASSUME NEW v \in Valores, Escribir(v)
      PROVE  [Plana!Next]_<<dato, resultado>>
  <2>1. PICK i, m : i = en_cpu /\ m = acceso.pagina
    OBVIOUS
  <2>2. /\ i \in Procesos /\ m \in Paginas(i)
        /\ \A p \in Procesos : \A n \in Paginas(p) :
             Dato(p, n)' = IF p = i /\ n = m THEN v ELSE Dato(p, n)
    BY <1>7, <2>1, EscribirDato
  <2>3. dato' = [dato EXCEPT ![i][m] = v]
    BY <2>2
  <2>4. UNCHANGED resultado
    BY <1>7 DEF Escribir
  <2>5. Plana!Escribir(i, m, v)
    BY <2>3, <2>4 DEF Plana!Escribir
  <2>6. Plana!Next
    BY <2>2, <2>5, Zenon DEF Plana!Next
  <2> QED
    BY <2>6
<1> QED
  BY <1>2, <1>3, <1>4, <1>5, <1>6, <1>7 DEF Next, AccesoCpu

\* While the CPU uses the right frames every program reads, of each of its pages,
\* the last value it wrote, whatever the kernel, the clock and the swap do.
THEOREM PlanaSiVigente == Spec /\ []MarcoVigente => ImplementaMemoriaPlana
<1>1. Spec /\ []MarcoVigente => [](SwapFiel /\ VictimaGuardada)
  BY SwapFielSiVigente
<1>2. TypeOK /\ Inductiva /\ SwapFiel /\ VictimaGuardada /\ MarcoVigente /\ [Next]_vars
        => [Plana!Next]_<<[p \in Procesos |-> [n \in Paginas(p) |-> Dato(p, n)]], resultado>>
  BY PlanaPaso
<1> QED
  BY <1>1, <1>2, PlanaInicial, Invariantes, PTL DEF Spec, ImplementaMemoriaPlana, Plana!Spec

\* So a TLB of one entry or two implements the flat memory.
THEOREM ImplementaPlana == ENTRADAS_TLB <= 2 => (Spec => ImplementaMemoriaPlana)
  BY PlanaSiVigente, MarcoSiempreVigente, PTL
=============================================================================
