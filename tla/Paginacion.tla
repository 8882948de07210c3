----------------------------- MODULE Paginacion -----------------------------
(***************************************************************************)
(* The CPU reading and writing the pages of the process it executes        *)
(* through its TLB and the memory module, while the kernel has other       *)
(* processes created, suspended and freed.                                 *)
(***************************************************************************)
EXTENDS Memoria, TLB

VARIABLES
  en_cpu,      \* the process being executed, or NULO
  acceso,      \* how far the access of the current instruction is
  resultado    \* what the last instruction read, until the next one starts

cpu_vars == <<en_cpu, acceso, resultado>>
vars == <<memoria_vars, tlb_vars, cpu_vars>>

SinAcceso == [en |-> "libre", pagina |-> 0, marco |-> 0]
Acceso(en, pagina, marco) == [en |-> en, pagina |-> pagina, marco |-> marco]

Init ==
  /\ MemoriaInit /\ TLBInit
  /\ en_cpu = NULO /\ acceso = SinAcceso /\ resultado = NULO

-----------------------------------------------------------------------------
\* The CPU: executer

\* recibir_PCB.  The kernel dispatches a process whose tables memory has
\* created, and not while it waits for memory to suspend or to free it.
Despachar(p) ==
  /\ en_cpu = NULO
  /\ tablas[p] = "creadas"
  /\ hk.id # p
  /\ en_cpu' = p
  /\ UNCHANGED <<memoria_vars, tlb_vars, acceso, resultado>>

\* I/O, EXIT or an interruption: the PCB goes back and the TLB is cleared.
Devolver ==
  /\ en_cpu # NULO
  /\ acceso.en = "libre"
  /\ en_cpu' = NULO
  /\ resultado' = NULO
  /\ limpiar_TLB
  /\ UNCHANGED <<memoria_vars, acceso>>

\* buscar_frame: a hit that is not obsolete ...
BuscarEnTLB(n) ==
  /\ en_cpu # NULO /\ acceso.en = "libre"
  /\ EstaEnTLB(n)
  /\ LET l == encontrar_pagina(n) IN
       /\ ~marco_obsoleto(n, lista_tlb[l].marco)
       /\ Referenciar(l)
       /\ acceso' = Acceso("con_marco", n, lista_tlb[l].marco)
  /\ resultado' = NULO
  /\ UNCHANGED <<memoria_vars, en_cpu>>

\* ... and everything else, which goes to memory (pedir_todo_memoria).
PedirTodoMemoria(n) ==
  /\ en_cpu # NULO /\ acceso.en = "libre"
  /\ EstaEnTLB(n) => marco_obsoleto(n, lista_tlb[encontrar_pagina(n)].marco)
  /\ SolicitudFrame(en_cpu, Posicion(n))
  /\ acceso' = Acceso("pedido", n, 0)
  /\ resultado' = NULO
  /\ UNCHANGED <<tlb_vars, en_cpu>>

RecibirFrame ==
  /\ acceso.en = "pedido"
  /\ hc.en = "responder"
  /\ hc' = CpuLibre
  /\ guardar_en_TLB(acceso.pagina, hc.marco)
  /\ acceso' = [acceso EXCEPT !.en = "con_marco", !.marco = hc.marco]
  /\ UNCHANGED <<tablas, tabla, puntero_clock, bitmap, memoria_real, swap, hk, caido,
                 indefinido, en_cpu, resultado>>

\* The first level entry that goes with a read or a write.
EntradaDe(n) == Posicion(n)[1]

\* READ, and the first operand of COPY
Leer ==
  /\ acceso.en = "con_marco"
  /\ Lectura(en_cpu, EntradaDe(acceso.pagina), acceso.marco)
  /\ resultado' = [id |-> en_cpu, pagina |-> acceso.pagina,
                   valor |-> memoria_real[acceso.marco]]
  /\ acceso' = SinAcceso
  /\ UNCHANGED <<tlb_vars, en_cpu>>

\* WRITE and COPY
Escribir(v) ==
  /\ acceso.en = "con_marco"
  /\ Escritura(en_cpu, EntradaDe(acceso.pagina), acceso.marco, v)
  /\ acceso' = SinAcceso
  /\ UNCHANGED <<tlb_vars, en_cpu, resultado>>

\* What the kernel asks for.  It never asks to suspend or to free the process
\* that is in the CPU, as Kernel shows.
PedidoDelKernel(p) ==
  /\ CrearTablas(p) \/ (p # en_cpu /\ (Suspender(p) \/ Finalizar(p)))
  /\ UNCHANGED <<tlb_vars, cpu_vars>>

-----------------------------------------------------------------------------

AccesoCpu ==
  \/ \E p \in Procesos : Despachar(p)
  \/ Devolver
  \/ en_cpu # NULO /\ \E n \in Paginas(en_cpu) : BuscarEnTLB(n) \/ PedirTodoMemoria(n)
  \/ RecibirFrame
  \/ Leer
  \/ \E v \in Valores : Escribir(v)

PasoHiloKernel == HiloKernel /\ UNCHANGED <<tlb_vars, cpu_vars>>
PasoHiloCpu == HiloCpu /\ UNCHANGED <<tlb_vars, cpu_vars>>

Next ==
  /\ ~caido /\ ~indefinido
  /\ \/ AccesoCpu
     \/ \E p \in Procesos : PedidoDelKernel(p)
     \/ PasoHiloKernel
     \/ PasoHiloCpu

Spec == Init /\ [][Next]_vars

\* hilo_cpu and the CPU go on whenever they can: nothing they wait for depends
\* on the program, on the kernel or on hilo_kernel.
SpecJusta ==
  /\ Spec
  /\ WF_vars(~caido /\ ~indefinido /\ PasoHiloCpu)
  /\ WF_vars(~caido /\ ~indefinido /\ RecibirFrame)

-----------------------------------------------------------------------------
\* Properties

\* The type of every variable of memory, the TLB and the CPU.
TypeOK ==
  /\ MemoriaTypeOK /\ TLBTypeOK
  /\ \A l \in EntradasTLB : lista_tlb[l] # Vacia => lista_tlb[l].marco \in Marcos
  /\ en_cpu \in Procesos \cup {NULO}
  /\ acceso \in [en: {"libre", "pedido", "con_marco"}, pagina: Nat, marco: Marcos]
  /\ resultado = NULO \/ resultado \in [id: Procesos, pagina: Nat, valor: Datos]

PaginasPresentes == UNION {{<<p, pos>> : pos \in Presentes(p)} : p \in Procesos}

\* Two pages, of one process or of two, are never in the same frame, although
\* one thread gives frames out while the other one takes them back.
MarcosExclusivos ==
  \A a, b \in PaginasPresentes : Marco(a[1], a[2]) = Marco(b[1], b[2]) => a = b

\* The bitmap marks the frames in use and no other: none leaks, none is given
\* out twice, through loads, evictions, suspensions and exits.
BitmapFiel == bitmap = {Marco(a[1], a[2]) : a \in PaginasPresentes}

\* No process has more than MARCOS_POR_PROCESO frames.
MarcosRespetados == \A p \in Procesos : Tam(p) <= MARCOS_POR_PROCESO

\* Why the three hold.  The two threads of memory never work on one process: ...
Turnos ==
  /\ en_cpu # NULO => tablas[en_cpu] = "creadas"
  /\ hk.op # "nada" => tablas[hk.id] = "creadas" /\ hk.id # en_cpu
  /\ acceso.en # "libre" => en_cpu # NULO /\ acceso.pagina \in Paginas(en_cpu)
  /\ acceso.en = "pedido" <=> hc.en # "libre"
  /\ hc.en # "libre" => hc.id = en_cpu /\ hc.pos = Posicion(acceso.pagina)
  /\ \A p \in Procesos : tablas[p] # "creadas" => Presentes(p) = {}

\* ... and what hilo_cpu has found out about its process is still so when it is
\* used: the page is absent, the frame chosen is free, or that of a page of it.
Vigente ==
  /\ hc.en \in {"falta", "cargar", "sacar", "reemplazar"} => hc.pos \notin Presentes(hc.id)
  /\ hc.en = "cargar" => hc.marco \notin bitmap /\ Tam(hc.id) < MARCOS_POR_PROCESO
  /\ hc.en \in {"sacar", "reemplazar"} =>
       \E pos \in Presentes(hc.id) : Marco(hc.id, pos) = hc.marco
  /\ hc.en = "responder" => hc.pos \in Presentes(hc.id) /\ Marco(hc.id, hc.pos) = hc.marco

\* The invariant that the proofs show inductive.
Inductiva == Turnos /\ Vigente /\ MarcosExclusivos /\ BitmapFiel /\ MarcosRespetados

\* A page whose bit_modificacion is not 1 may be dropped: swap has the same.
SwapFiel ==
  \A a \in PaginasPresentes :
    LET p == a[1] pos == a[2] IN
      tabla[p][pos].bit_modificacion # 1 /\ ~(hk.op = "finalizar" /\ hk.id = p)
        => swap[p][calcular_num_pagina(pos)] = memoria_real[Marco(p, pos)]

\* The hand of the clock is within the list when a victim is chosen, and there
\* is one to choose, as long as memory has frames for everybody.
SinCaida == ~caido

\* The frame the CPU is about to use, from the TLB or from memory, is still the
\* one that its page is in.
MarcoVigente ==
  acceso.en = "con_marco" =>
    LET pagina == tabla[en_cpu][Posicion(acceso.pagina)]
    IN pagina.bit_presencia = 1 /\ pagina.numero_frame = acceso.marco

\* Why it holds while the TLB has one entry or two: every entry is of a page of
\* the process, and has the frame of that page, or the frame of an entry that is
\* younger in both orders, or the frame hilo_cpu is answering with.
EntradaAlDia(l) ==
  LET pagina == tabla[en_cpu][Posicion(lista_tlb[l].pagina)]
  IN pagina.bit_presencia = 1 /\ pagina.numero_frame = lista_tlb[l].marco
EntradaRelevada(l) ==
  \E m \in ConMarco(lista_tlb[l].marco) :
    /\ Turno(primera_referencia, l) < Turno(primera_referencia, m)
    /\ Turno(ultima_referencia, l) < Turno(ultima_referencia, m)
TLBFiel ==
  \A l \in EntradasTLB : lista_tlb[l] # Vacia =>
    /\ en_cpu # NULO /\ lista_tlb[l].pagina \in Paginas(en_cpu)
    /\ \/ EntradaAlDia(l) \/ EntradaRelevada(l)
       \/ hc.en = "responder" /\ hc.marco = lista_tlb[l].marco

\* An access that misses the TLB gets its frame: a page is always found to evict
\* when there is no frame left.
AccesosTerminan ==
  acceso.en = "pedido" ~> (acceso.en = "con_marco" \/ indefinido)

\* The value of page n of p, wherever it is.
Dato(p, n) ==
  IF tablas[p] # "creadas" \/ (hk.op = "finalizar" /\ hk.id = p) THEN BASURA
  ELSE IF tabla[p][Posicion(n)].bit_presencia = 1 THEN memoria_real[Marco(p, Posicion(n))]
  ELSE swap[p][n]

Plana == INSTANCE MemoriaPlana
  WITH dato <- [p \in Procesos |-> [n \in Paginas(p) |-> Dato(p, n)]]

\* Every program reads, of each of its pages, the last value it wrote, through
\* evictions, suspensions and the reuse of frames by other processes.
ImplementaMemoriaPlana == Plana!Spec
=============================================================================
