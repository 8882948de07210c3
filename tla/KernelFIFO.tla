----------------------------- MODULE KernelFIFO -----------------------------
(***************************************************************************)
(* The kernel under ALGORITMO_PLANIFICACION = FIFO: the threads of Kernel, *)
(* the short term scheduler, and a CPU that runs a process until it asks   *)
(* for I/O or ends (what cpu.c does when nobody interrupts it).            *)
(***************************************************************************)
EXTENDS Kernel, FiniteSets

VARIABLES
  cp,     \* where ready_a_executing is
  cpu     \* the PCB the CPU is executing, or NULO

vars == <<kernel_vars, cp, cpu>>

Init ==
  /\ KernelInit
  /\ cp = "ready"
  /\ cpu = NULO

-----------------------------------------------------------------------------
\* ready_a_executing, FIFO

EsperarReady ==
  /\ cp = "ready"
  /\ sem_wait("procesos_en_ready")
  /\ cp' = "fin"
  /\ UNCHANGED <<sockets, cpu_vars, colas, rp, lp, sc, io, suspension, carrera, cpu>>

\* Mutant: the next process is dispatched without waiting for the CPU.
EsperarFin_sin_esperar ==
  /\ cp = "fin"
  /\ cp' = "despachar"
  /\ UNCHANGED <<sockets, cpu_vars, colas, sem, rp, lp, sc, io, suspension, carrera, cpu>>

EsperarFin ==
  /\ cp = "fin"
  /\ sem_wait("fin_de_ejecucion")
  /\ cp' = "despachar"
  /\ UNCHANGED <<sockets, cpu_vars, colas, rp, lp, sc, io, suspension, carrera, cpu>>

\* queue_pop of an empty queue gives NULL, which enviar_a_CPU dereferences.
Despachar ==
  /\ cp = "despachar"
  /\ \/ /\ cola_ready # <<>>
        /\ dispatch' = Append(dispatch, Head(cola_ready))
        /\ cola_ready' = Tail(cola_ready)
        /\ cp' = "ready"
        /\ UNCHANGED caido
     \/ /\ cola_ready = <<>>
        /\ caido' = TRUE
        /\ UNCHANGED <<dispatch, cola_ready, cp>>
  /\ UNCHANGED <<sockets, syscalls, cola_new, cola_blocked, cola_suspended_ready, sem,
                 rp, lp, sc, io, suspension, solapado, cola_rota, cpu>>

\* The end of executing_a_blocked and executing_a_exit when es_FIFO().
AvisarFin ==
  /\ sc.en = "avisar_fin"
  /\ sem_post("fin_de_ejecucion")
  /\ sc' = En("esperar", NULO)
  /\ UNCHANGED <<sockets, cpu_vars, colas, rp, lp, io, suspension, carrera, cp, cpu>>

-----------------------------------------------------------------------------
\* The CPU: executer

CpuRecibir ==
  /\ cpu = NULO
  /\ dispatch # <<>>
  /\ cpu' = Head(dispatch)
  /\ dispatch' = Tail(dispatch)
  /\ UNCHANGED <<sockets, syscalls, colas, sem, rp, lp, sc, io, suspension, carrera, cp>>

\* READ, WRITE and COPY bring a page of the process back to memory.
CpuAcceder ==
  /\ cpu # NULO
  /\ memoria[cpu.id] = "suspendida"
  /\ memoria' = [memoria EXCEPT ![cpu.id] = "residente"]
  /\ UNCHANGED <<consola, pedidos, respuestas, cpu_vars, colas, sem, rp, lp, sc, io,
                 suspension, carrera, cp, cpu>>

CpuIO ==
  /\ cpu # NULO
  /\ cpu.pc < MaxIO
  /\ syscalls' = Append(syscalls, [instruccion |-> "IO",
                                   pcb |-> [cpu EXCEPT !.pc = @ + 1]])
  /\ cpu' = NULO
  /\ UNCHANGED <<sockets, dispatch, colas, sem, rp, lp, sc, io, suspension, carrera, cp>>

CpuExit ==
  /\ cpu # NULO
  /\ syscalls' = Append(syscalls, [instruccion |-> "EXIT", pcb |-> cpu])
  /\ cpu' = NULO
  /\ UNCHANGED <<sockets, dispatch, colas, sem, rp, lp, sc, io, suspension, carrera, cp>>

-----------------------------------------------------------------------------

HiloReadyAExecuting == EsperarReady \/ EsperarFin \/ Despachar
HiloCpu == CpuRecibir \/ CpuAcceder \/ CpuIO \/ CpuExit

\* Nothing is said of a kernel that has already crashed.
Next ==
  /\ ~caido
  /\ \/ DelKernel /\ UNCHANGED <<cp, cpu>>
     \/ HiloReadyAExecuting
     \/ AvisarFin
     \/ HiloCpu

\* Every thread that can go on does: the threads run under a preemptive
\* scheduler, no syscall of the model blocks once enabled, and both usleep end.
\* Consoles may never connect.  A thread that waits on a semaphore may lose it
\* to another one only finitely often here, so weak fairness is enough.
Equidad ==
  /\ WF_vars(~caido /\ AvisarNew /\ UNCHANGED <<cp, cpu>>)
  /\ WF_vars(~caido /\ HiloPasarAReady /\ UNCHANGED <<cp, cpu>>)
  /\ WF_vars(~caido /\ ((HiloSyscall /\ UNCHANGED <<cp, cpu>>) \/ AvisarFin))
  /\ WF_vars(~caido /\ HiloIO /\ UNCHANGED <<cp, cpu>>)
  /\ \A b \in Bloqueos : WF_vars(~caido /\ Suspensor(b) /\ UNCHANGED <<cp, cpu>>)
  /\ WF_vars(~caido /\ AtenderPedido /\ UNCHANGED <<cp, cpu>>)
  /\ WF_vars(~caido /\ HiloReadyAExecuting)
  /\ WF_vars(~caido /\ HiloCpu)

Spec == Init /\ [][Next]_vars
SpecJusta == Spec /\ Equidad

-----------------------------------------------------------------------------
\* Properties

\* The type of every variable of the kernel, the scheduler and the CPU.
TypeOK ==
  /\ KernelTypeOK
  /\ cp \in {"ready", "fin", "despachar"}
  /\ cpu \in PCB \cup {NULO}

\* No queue_pop ever finds its queue empty, although the semaphores that count
\* the elements are posted by other threads, after the pushes and out of any
\* mutex: the one way to crash is the unguarded cola_blocked.
CaidaSoloPorCarrera == caido => cola_rota

\* One process at most is on its way to the CPU, in it, or on its way back
\* until its system call has been dealt with: fin_de_ejecucion accounts for it.
CpDespacha == Uno(cp = "despachar")
CpuOcupada == Uno(cpu # NULO)

UnSoloProcesoEnCPU ==
  sem["fin_de_ejecucion"] + CpDespacha + Len(dispatch) + CpuOcupada
    + Len(syscalls) + ScAtiende = 1

\* The places taken out of GRADO_MULTIPROGRAMACION.
LugaresOcupados ==
  LugarLp + Len(cola_ready) + Len(dispatch) + CpuOcupada + Len(syscalls)
    + LugarSc + Len(cola_blocked) + LugarIo

\* No more processes are admitted than the degree allows, and no place is ever
\* given back twice or kept by nobody; a block lost by the race keeps one.
GradoRespetado ==
  LugaresOcupados + sem["grado_multiprogramacion"] + Perdido = GRADO_MULTIPROGRAMACION

\* Why the three hold: procesos_en_ready, too, counts the elements of its queue.
ReadyDeCp == Uno(cp \in {"fin", "despachar"})

CuentaReady ==
  sem["procesos_en_ready"] + ReadyDeCp + ReadyDeLp + ReadyDeIo = Len(cola_ready)

\* The semaphores account for the queues, the CPU and the places.
Cuentas ==
  /\ CuentaNew /\ HayParaSacar /\ CuentaReady /\ CuentaBlocked /\ UnaSolaRotura
  /\ CaidaSoloPorCarrera /\ UnSoloProcesoEnCPU /\ GradoRespetado

\* Three kinds of thread share one socket to the memory module: whoever reads
\* from it finds the answer to its own request and no other.
RespuestaPropia ==
  respuestas # <<>> =>
    /\ Len(respuestas) = 1 /\ pedidos = <<>>
    /\ lp.en = "recibir" => Head(respuestas) = [op |-> "crear", id |-> lp.pcb.id]
    /\ sc.en = "recibir" => Head(respuestas) = [op |-> "finalizar", id |-> sc.pcb.id]
    /\ \A b \in Bloqueos : susp[b] = "pidiendo" =>
         Head(respuestas) = [op |-> "suspender", id |-> b[1]]

\* A suspensor whose process came back from its I/O in time never suspends it,
\* however late it wakes up: while memory is asked to suspend a process, that
\* process is blocked, not ready, running, asking for something or admitted.
SuspensionSoloBloqueado ==
  \A b \in Bloqueos : susp[b] = "pidiendo" =>
    b[1] \notin Ids(cola_new) \cup Ids(cola_ready) \cup Ids(cola_suspended_ready)
                \cup Ids(dispatch) \cup IdDe(cpu) \cup {syscalls[i].pcb.id : i \in DOMAIN syscalls}
                \cup IdDe(lp.pcb)

\* A process that waits in suspended-ready holds no frame: hilo_io may only
\* queue it there once memory has confirmed its suspension.
SuspendidoSinFrames ==
  \A p \in Ids(cola_suspended_ready) : memoria[p] = "suspendida"

\* The process the CPU executes has its own page table, and memory still has it.
TablaPropia ==
  cpu # NULO => cpu.tabla = cpu.id /\ memoria[cpu.id] # "sin_tabla"

\* Where each PCB is.
Lugares ==
  [new |-> Range(cola_new), ready |-> Range(cola_ready), blocked |-> Range(cola_blocked),
   suspended_ready |-> Range(cola_suspended_ready), dispatch |-> Range(dispatch),
   syscalls |-> {m.pcb : m \in Range(syscalls)},
   cpu |-> {cpu} \ {NULO}, lp |-> {lp.pcb} \ {NULO}, io |-> {io.pcb} \ {NULO},
   sc |-> IF sc.en \in ScDuenio THEN {sc.pcb} ELSE {}]

\* No process is lost or in two places at once, except for the one block that
\* the race on cola_blocked can drop.
NiPerdidoNiDuplicado ==
  /\ \A p \in Procesos :
       LET donde == {l \in DOMAIN Lugares : \E x \in Lugares[l] : x.id = p} IN
         /\ Cardinality(donde) <= 1
         /\ consola[p] = "esperando" /\ ~cola_rota => Cardinality(donde) = 1
  /\ \A cola \in {cola_new, cola_ready, cola_blocked, cola_suspended_ready, dispatch} :
       Cardinality(Ids(cola)) = Len(cola)

\* executing_a_exit posts grado_multiprogramacion before it frees the memory of
\* the process, so frames may be held by one process more than the degree, never
\* by two.
ResidentesAcotados ==
  Cardinality({p \in Procesos : memoria[p] = "residente"}) <= GRADO_MULTIPROGRAMACION + 1

-----------------------------------------------------------------------------
\* Why these hold

\* Where a process is decides everything else.  The one the race has lost is
\* nowhere; a process being blocked is the last one of cola_blocked until its
\* suspensor is created, as its post is still to come.
EnAlgunLugar(p) == \E l \in DOMAIN Lugares : \E x \in Lugares[l] : x.id = p
Extraviado(p) == consola[p] = "esperando" /\ ~EnAlgunLugar(p)

EnUnSoloLugar ==
  \A l, m \in DOMAIN Lugares : \A x \in Lugares[l], y \in Lugares[m] :
    x.id = y.id => l = m /\ x = y

ALoSumoUnExtraviado ==
  /\ \A p \in Procesos : EnAlgunLugar(p) => consola[p] = "esperando"
  /\ \A p, q \in Procesos : Extraviado(p) /\ Extraviado(q) => p = q
  /\ \A p \in Procesos : Extraviado(p) => cola_rota

PorCrearSuspensor ==
  sc.en = "crear_suspensor" =>
    IF cola_rota THEN Extraviado(sc.pcb.id)
    ELSE cola_blocked # <<>> /\ cola_blocked[Len(cola_blocked)] = sc.pcb

SinDesalojo ==
  /\ sc.en \notin {"desalojar", "avisar_ready"}
  /\ \A i \in DOMAIN syscalls : syscalls[i].instruccion # "DESALOJO"

Ubicados ==
  EnUnSoloLugar /\ SinRepetidos /\ ALoSumoUnExtraviado /\ PorCrearSuspensor /\ SinDesalojo

\* One request to memory at a time, of the thread that has taken
\* esperando_respuesta_memoria: not yet answered, or answered and not yet read.
EnCurso(pedido) ==
  \/ pedidos = <<pedido>> /\ respuestas = <<>>
  \/ pedidos = <<>> /\ respuestas = <<pedido>>

UnPedidoPorVez ==
  /\ sem["esperando_respuesta_memoria"] <= 1
  /\ \/ lp.en = "recibir" \/ sc.en = "recibir" \/ Pidiendo # {}
     \/ sem["esperando_respuesta_memoria"] = 1 /\ pedidos = <<>> /\ respuestas = <<>>
  /\ lp.en = "recibir" =>
       /\ sem["esperando_respuesta_memoria"] = 0 /\ sc.en # "recibir" /\ Pidiendo = {}
       /\ EnCurso([op |-> "crear", id |-> lp.pcb.id])
  /\ sc.en = "recibir" =>
       /\ sem["esperando_respuesta_memoria"] = 0 /\ Pidiendo = {}
       /\ EnCurso([op |-> "finalizar", id |-> sc.pcb.id])
  /\ \A b \in Pidiendo :
       /\ sem["esperando_respuesta_memoria"] = 0 /\ \A c \in Pidiendo : c = b
       /\ EnCurso([op |-> "suspender", id |-> b[1]])

\* There is no suspensor for a block that is still to come.
SinSuspensorAun ==
  /\ \A b \in Bloqueos : consola[b[1]] = "sin_conectar" => susp[b] = "no_creado"
  /\ \A l \in DOMAIN Lugares : \A x \in Lugares[l] : \A b \in Bloqueos :
       b[1] = x.id /\ b[2] > x.pc => susp[b] = "no_creado"
  /\ \A i \in DOMAIN syscalls : syscalls[i].instruccion = "IO" =>
       susp[Bloqueo(syscalls[i].pcb)] = "no_creado"
  /\ sc.en \in {"bloquear", "enlazar", "crear_suspensor"} =>
       susp[Bloqueo(sc.pcb)] = "no_creado"

\* A suspensor that nobody has cancelled is that of a block that goes on.
Vivo(b) == susp[b] \notin {"no_creado", "terminado"} /\ b \notin cancelado

SuspensorAlDia ==
  /\ EstaSuspendidoAlDia
  /\ \A b \in Bloqueos : Vivo(b) =>
       /\ consola[b[1]] = "esperando"
       /\ \A l \in DOMAIN Lugares : \A x \in Lugares[l] :
            x.id = b[1] => l \in {"blocked", "io"} /\ x.pc = b[2]

Suspensores == Edades /\ SinSuspensorAun /\ Exclusion /\ SuspensorAlDia

\* What memory has of each process, by where the process is.
SinTabla ==
  /\ \A p \in Procesos : consola[p] # "esperando" => memoria[p] = "sin_tabla"
  /\ \A x \in Lugares.new : memoria[x.id] = "sin_tabla"
  /\ lp.en = "crear" => memoria[lp.pcb.id] = "sin_tabla"
  /\ lp.en = "recibir" =>
       memoria[lp.pcb.id] = IF respuestas = <<>> THEN "sin_tabla" ELSE "residente"
  /\ sc.en = "recibir" => (memoria[sc.pcb.id] = "sin_tabla" <=> respuestas # <<>>)
  /\ sc.en = "responder" => memoria[sc.pcb.id] = "sin_tabla"

ConTabla ==
  /\ \A l \in {"ready", "blocked", "suspended_ready", "dispatch", "syscalls", "cpu", "io"} :
       \A x \in Lugares[l] : x.tabla = x.id /\ memoria[x.id] # "sin_tabla"
  /\ lp.en = "encolar" => lp.pcb.tabla = lp.pcb.id /\ memoria[lp.pcb.id] # "sin_tabla"
  /\ sc.en \in {"bloquear", "enlazar", "liberar_grado", "finalizar"} =>
       sc.pcb.tabla = sc.pcb.id /\ memoria[sc.pcb.id] # "sin_tabla"

Suspendidos ==
  /\ \A x \in Lugares.suspended_ready : memoria[x.id] = "suspendida"
  /\ \A x \in Lugares.blocked \cup Lugares.io :
       Bloqueo(x) \in esta_suspendido /\ (Bloqueo(x) \in Pidiendo => respuestas # <<>>)
         => memoria[x.id] = "suspendida"

Memorias == SinTabla /\ ConTabla /\ Suspendidos

\* The invariant that the proofs show inductive.
Inductiva == Cuentas /\ Ubicados /\ UnPedidoPorVez /\ Suspensores /\ Memorias

\* A suspensor was cancelled between its two sem_wait, and suspendiendo, which
\* it had taken, will never be posted.
FugaDeSuspendiendo ==
  /\ sem["suspendiendo"] = 0
  /\ io.en \in {"esperar", "durmiendo"}
  /\ \A b \in Bloqueos : susp[b] \notin {"con_suspendiendo", "pidiendo"}

\* Every console that is waiting gets its answer, whatever the other processes
\* and the suspensors do, unless one of the two races above has struck.
TodosFinalizan ==
  \A p \in Procesos :
    consola[p] = "esperando" ~>
      (consola[p] = "finalizada" \/ cola_rota \/ FugaDeSuspendiendo)

\* The life cycle of each process, as CicloDeVida numbers its states.  A block
\* the race has lost stays "blocked".
Estado(p) ==
  CASE consola[p] = "sin_conectar" -> "ausente"
    [] p \in Ids(cola_new) \/ (p \in IdDe(lp.pcb) /\ lp.pcb.pc = 0) -> "new"
    [] p \in Ids(cola_suspended_ready) \/ (p \in IdDe(lp.pcb) /\ lp.pcb.pc > 0)
         -> "suspended_ready"
    [] p \in Ids(cola_ready) -> "ready"
    [] \/ p \in Ids(dispatch) \cup IdDe(cpu) \cup {syscalls[i].pcb.id : i \in DOMAIN syscalls}
       \/ p \in IdDe(sc.pcb) /\ sc.en \in {"bloquear", "enlazar", "liberar_grado"} -> "exec"
    [] \/ consola[p] = "finalizada"
       \/ p \in IdDe(sc.pcb) /\ sc.en \in {"finalizar", "recibir", "responder"} -> "exit"
    [] \/ \E i \in DOMAIN cola_blocked : /\ cola_blocked[i].id = p
                                         /\ Bloqueo(cola_blocked[i]) \in esta_suspendido
       \/ p \in IdDe(io.pcb) /\ Bloqueo(io.pcb) \in esta_suspendido -> "suspended_blocked"
    [] OTHER -> "blocked"

Ciclo == INSTANCE CicloDeVida WITH estado <- [p \in Procesos |-> Estado(p)]

\* The kernel, with its semaphores, sockets and suspensors, implements the
\* seven-state life cycle.
ImplementaCicloDeVida == Ciclo!Spec

\* consola/consola.c: once it has sent its process, a console waits for the
\* answer of the kernel, and gets it.
ConsolaRecibeRespuesta ==
  \A p \in Procesos :
    consola[p] = "esperando" ~> (consola[p] = "finalizada" \/ cola_rota)

=============================================================================
