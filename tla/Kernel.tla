------------------------------- MODULE Kernel -------------------------------
(***************************************************************************)
(* The threads of the kernel process (src/kernel) that do not depend on    *)
(* the scheduling algorithm, with the ends of its sockets: the consoles,   *)
(* the memory module and the queues to and from the CPU.                   *)
(*                                                                         *)
(*   rp    recibir_procesos   accepts consoles, fills the new queue        *)
(*   lp    pasar_a_ready      long term: new / suspended-ready -> ready    *)
(*   sc    esperar_syscall    receives what the CPU sends back             *)
(*   io    hilo_io            the only I/O device                          *)
(*   susp  hilo_suspensor     one thread per blocked process               *)
(*                                                                         *)
(* One action is one semaphore operation or one access to a structure that *)
(* two threads share, with the local work that follows it.  A section      *)
(* guarded by a mutex of its own (mx_cola_new, mx_lista_ready,             *)
(* mx_cola_suspended_ready) that waits for nothing inside is one action.   *)
(***************************************************************************)
EXTENDS Naturals, Sequences, Functions

CONSTANTS
  Procesos,                 \* the processes the consoles send (id_proceso, a socket)
  Suspendibles,             \* those whose I/O may outlast TIEMPO_MAXIMO_BLOQUEADO
  GRADO_MULTIPROGRAMACION,
  MaxIO,                    \* bound: I/O instructions one process executes
  NULO

ASSUME KernelAssumption ==
  /\ Suspendibles \subseteq Procesos
  /\ GRADO_MULTIPROGRAMACION \in Nat \ {0}
  /\ MaxIO \in Nat

VARIABLES
  consola,                  \* what the console of each process has seen
  memoria,                  \* what the memory module keeps of each process
  pedidos, respuestas,      \* the two directions of socket_memoria
  dispatch, syscalls,       \* the two directions of socket_cpu_dispatch
  cola_new, cola_ready, cola_blocked, cola_suspended_ready,
  sem,                      \* the semaphores
  rp, lp, sc, io, susp,     \* where each thread is, and the PCB it holds
  cancelado,                \* suspensors with a pending pthread_cancel
  esta_suspendido,          \* blocks whose esta_suspendido field is 1
  solapado,                 \* cola_blocked was popped during the current push
  cola_rota,                \* cola_blocked lost an element: its header is wrong
  caido                     \* the kernel has dereferenced an invalid pointer

sockets == <<consola, memoria, pedidos, respuestas>>
cpu_vars == <<dispatch, syscalls>>
colas == <<cola_new, cola_ready, cola_blocked, cola_suspended_ready>>
suspension == <<susp, cancelado, esta_suspendido>>
carrera == <<solapado, cola_rota, caido>>
kernel_vars == <<sockets, cpu_vars, colas, sem, rp, lp, sc, io, suspension, carrera>>

-----------------------------------------------------------------------------
\* Data

\* pc counts the I/O instructions already executed.  tabla is the first level
\* page table the memory module answered with: a table is named by its owner.
PCB == [id: Procesos, pc: 0..MaxIO, tabla: Procesos \cup {NULO}]

ASSUME NuloAssumption == NULO \notin Procesos /\ NULO \notin PCB

\* A t_bloqueado: a process and the number of the I/O that blocks it.
Bloqueos == Procesos \X (0..MaxIO)
Bloqueo(pcb) == <<pcb.id, pcb.pc>>

Pedidos == [op: {"crear", "suspender", "finalizar"}, id: Procesos]
Syscalls == [instruccion: {"IO", "EXIT", "DESALOJO"}, pcb: PCB]

Semaforos == {"procesos_para_ready", "grado_multiprogramacion", "procesos_en_ready",
              "proceso_en_io", "suspendiendo", "esperando_respuesta_memoria",
              "fin_de_ejecucion"}

\* Mutant: the result of a sem_trywait is not looked at.
sem_wait_sin_bloquear(s) == sem' = [sem EXCEPT ![s] = @ - 1]

sem_wait(s) == sem[s] > 0 /\ sem' = [sem EXCEPT ![s] = @ - 1]
sem_post(s) == sem' = [sem EXCEPT ![s] = @ + 1]

\* A thread with nothing in its hands, and one at a step with a PCB.
En(donde, pcb) == [en |-> donde, pcb |-> pcb]

\* The processes whose PCBs a queue or a thread has.
Ids(cola) == {cola[i].id : i \in DOMAIN cola}
IdDe(pcb) == IF pcb = NULO THEN {} ELSE {pcb.id}

Uno(condicion) == IF condicion THEN 1 ELSE 0

KernelInit ==
  /\ consola = [p \in Procesos |-> "sin_conectar"]
  /\ memoria = [p \in Procesos |-> "sin_tabla"]
  /\ pedidos = <<>> /\ respuestas = <<>>
  /\ dispatch = <<>> /\ syscalls = <<>>
  /\ cola_new = <<>> /\ cola_ready = <<>>
  /\ cola_blocked = <<>> /\ cola_suspended_ready = <<>>
  /\ sem = [s \in Semaforos |->
              CASE s = "grado_multiprogramacion" -> GRADO_MULTIPROGRAMACION
                [] s \in {"suspendiendo", "esperando_respuesta_memoria",
                          "fin_de_ejecucion"} -> 1
                [] OTHER -> 0]
  /\ rp = "aceptar"
  /\ lp = En("esperar", NULO)
  /\ sc = En("esperar", NULO)
  /\ io = En("esperar", NULO)
  /\ susp = [b \in Bloqueos |-> "no_creado"]
  /\ cancelado = {} /\ esta_suspendido = {}
  /\ solapado = FALSE /\ cola_rota = FALSE /\ caido = FALSE

-----------------------------------------------------------------------------
\* recibir_procesos

RecibirProceso(p) ==
  /\ rp = "aceptar"
  /\ consola[p] = "sin_conectar"
  /\ consola' = [consola EXCEPT ![p] = "esperando"]
  /\ cola_new' = Append(cola_new, [id |-> p, pc |-> 0, tabla |-> NULO])
  /\ rp' = "avisar"
  /\ UNCHANGED <<memoria, pedidos, respuestas, cpu_vars, cola_ready, cola_blocked,
                 cola_suspended_ready, sem, lp, sc, io, suspension, carrera>>

AvisarNew ==
  /\ rp = "avisar"
  /\ sem_post("procesos_para_ready")
  /\ rp' = "aceptar"
  /\ UNCHANGED <<sockets, cpu_vars, colas, lp, sc, io, suspension, carrera>>

-----------------------------------------------------------------------------
\* pasar_a_ready

EsperarProceso ==
  /\ lp.en = "esperar"
  /\ sem_wait("procesos_para_ready")
  /\ lp' = En("grado", NULO)
  /\ UNCHANGED <<sockets, cpu_vars, colas, rp, sc, io, suspension, carrera>>

\* Mutant: processes are admitted without waiting for a place.
TomarGrado_sin_esperar ==
  /\ lp.en = "grado"
  /\ lp' = En(IF cola_suspended_ready = <<>> THEN "new" ELSE "suspended_ready", NULO)
  /\ UNCHANGED <<sockets, cpu_vars, colas, sem, rp, sc, io, suspension, carrera>>

\* The size of cola_suspended_ready is read here, without its mutex, and used
\* by the next step.
TomarGrado ==
  /\ lp.en = "grado"
  /\ sem_wait("grado_multiprogramacion")
  /\ lp' = En(IF cola_suspended_ready = <<>> THEN "new" ELSE "suspended_ready", NULO)
  /\ UNCHANGED <<sockets, cpu_vars, colas, rp, sc, io, suspension, carrera>>

\* queue_pop of an empty queue gives NULL, which crear_tabla_proceso dereferences.
SacarDeNew ==
  /\ lp.en = "new"
  /\ \/ /\ cola_new # <<>>
        /\ lp' = En("crear", Head(cola_new))
        /\ cola_new' = Tail(cola_new)
        /\ UNCHANGED caido
     \/ /\ cola_new = <<>>
        /\ caido' = TRUE
        /\ UNCHANGED <<lp, cola_new>>
  /\ UNCHANGED <<sockets, cpu_vars, cola_ready, cola_blocked, cola_suspended_ready,
                 sem, rp, sc, io, suspension, solapado, cola_rota>>

\* Mutant: queue_peek in the place of queue_pop.
SacarDeSuspendedReady_sin_quitar ==
  /\ lp.en = "suspended_ready"
  /\ cola_suspended_ready # <<>>
  /\ lp' = En("encolar", Head(cola_suspended_ready))
  /\ UNCHANGED <<sockets, cpu_vars, colas, sem, rp, sc, io, suspension, carrera>>

SacarDeSuspendedReady ==
  /\ lp.en = "suspended_ready"
  /\ \/ /\ cola_suspended_ready # <<>>
        /\ lp' = En("encolar", Head(cola_suspended_ready))
        /\ cola_suspended_ready' = Tail(cola_suspended_ready)
        /\ UNCHANGED caido
     \/ /\ cola_suspended_ready = <<>>
        /\ caido' = TRUE
        /\ UNCHANGED <<lp, cola_suspended_ready>>
  /\ UNCHANGED <<sockets, cpu_vars, cola_new, cola_ready, cola_blocked,
                 sem, rp, sc, io, suspension, solapado, cola_rota>>

\* Mutant: the request is sent without waiting for esperando_respuesta_memoria.
PedirTablas_sin_esperar ==
  /\ lp.en = "crear"
  /\ pedidos' = Append(pedidos, [op |-> "crear", id |-> lp.pcb.id])
  /\ lp' = [lp EXCEPT !.en = "recibir"]
  /\ UNCHANGED <<consola, memoria, respuestas, cpu_vars, colas, sem, rp, sc, io,
                 suspension, carrera>>

PedirTablas ==
  /\ lp.en = "crear"
  /\ sem_wait("esperando_respuesta_memoria")
  /\ pedidos' = Append(pedidos, [op |-> "crear", id |-> lp.pcb.id])
  /\ lp' = [lp EXCEPT !.en = "recibir"]
  /\ UNCHANGED <<consola, memoria, respuestas, cpu_vars, colas, rp, sc, io,
                 suspension, carrera>>

\* Whatever number arrives first becomes the page table of the process.
RecibirTablas ==
  /\ lp.en = "recibir"
  /\ respuestas # <<>>
  /\ respuestas' = Tail(respuestas)
  /\ lp' = En("encolar",
              [lp.pcb EXCEPT !.tabla = IF Head(respuestas).op = "crear"
                                         THEN Head(respuestas).id ELSE NULO])
  /\ sem_post("esperando_respuesta_memoria")
  /\ UNCHANGED <<consola, memoria, pedidos, cpu_vars, colas, rp, sc, io,
                 suspension, carrera>>

EncolarReady ==
  /\ lp.en = "encolar"
  /\ cola_ready' = Append(cola_ready, lp.pcb)
  /\ lp' = En("avisar", NULO)
  /\ UNCHANGED <<sockets, cpu_vars, cola_new, cola_blocked, cola_suspended_ready,
                 sem, rp, sc, io, suspension, carrera>>

AvisarReady ==
  /\ lp.en = "avisar"
  /\ sem_post("procesos_en_ready")
  /\ lp' = En("esperar", NULO)
  /\ UNCHANGED <<sockets, cpu_vars, colas, rp, sc, io, suspension, carrera>>

-----------------------------------------------------------------------------
\* esperar_syscall: IO

\* recibirSyscall and the switch on the instruction.
RecibirSyscall ==
  /\ sc.en = "esperar"
  /\ syscalls # <<>>
  /\ syscalls' = Tail(syscalls)
  /\ sc' = En(CASE Head(syscalls).instruccion = "IO"   -> "bloquear"
                [] Head(syscalls).instruccion = "EXIT" -> "liberar_grado"
                [] OTHER                               -> "desalojar",
              Head(syscalls).pcb)
  /\ UNCHANGED <<sockets, dispatch, colas, sem, rp, lp, io, suspension, carrera>>

\* queue_push(cola_blocked), which no mutex guards, first finds the last
\* element of the list ...
BuscarUltimo ==
  /\ sc.en = "bloquear"
  /\ sc' = [sc EXCEPT !.en = "enlazar"]
  /\ solapado' = FALSE
  /\ caido' = cola_rota
  /\ UNCHANGED <<sockets, cpu_vars, colas, sem, rp, lp, io, suspension, cola_rota>>

\* ... and then links the new element to it and counts it.  When hilo_io popped
\* meanwhile, the link may go to a node already freed, or one of the two
\* updates of the count may be lost: the new element is lost with them.  It is
\* certainly lost when the element found was the only one.
EnlazarBloqueado ==
  /\ sc.en = "enlazar"
  /\ sc' = [sc EXCEPT !.en = "crear_suspensor"]
  /\ solapado' = FALSE
  /\ \/ /\ ~(solapado /\ cola_blocked = <<>>)
        /\ cola_blocked' = Append(cola_blocked, sc.pcb)
        /\ UNCHANGED cola_rota
     \/ /\ solapado
        /\ cola_rota' = TRUE
        /\ UNCHANGED cola_blocked
  /\ UNCHANGED <<sockets, cpu_vars, cola_new, cola_ready, cola_suspended_ready, sem,
                 rp, lp, io, suspension, caido>>

\* pthread_create, and the wait for the new thread to start.
CrearSuspensor ==
  /\ sc.en = "crear_suspensor"
  /\ susp' = [susp EXCEPT ![Bloqueo(sc.pcb)] = "durmiendo"]
  /\ sc' = [sc EXCEPT !.en = "avisar_io"]
  /\ UNCHANGED <<sockets, cpu_vars, colas, sem, rp, lp, io, cancelado,
                 esta_suspendido, carrera>>

AvisarIO ==
  /\ sc.en = "avisar_io"
  /\ sem_post("proceso_en_io")
  /\ sc' = [sc EXCEPT !.en = "avisar_fin"]
  /\ UNCHANGED <<sockets, cpu_vars, colas, rp, lp, io, suspension, carrera>>

-----------------------------------------------------------------------------
\* esperar_syscall: EXIT

\* Mutant: the memory of the process is not released.
LiberarGrado_sin_finalizar ==
  /\ sc.en = "liberar_grado"
  /\ sem_post("grado_multiprogramacion")
  /\ sc' = [sc EXCEPT !.en = "responder"]
  /\ UNCHANGED <<sockets, cpu_vars, colas, rp, lp, io, suspension, carrera>>

\* The place of the process is given away before its memory is released.
LiberarGrado ==
  /\ sc.en = "liberar_grado"
  /\ sem_post("grado_multiprogramacion")
  /\ sc' = [sc EXCEPT !.en = "finalizar"]
  /\ UNCHANGED <<sockets, cpu_vars, colas, rp, lp, io, suspension, carrera>>

\* Mutant: the request is sent without waiting for esperando_respuesta_memoria.
PedirFin_sin_esperar ==
  /\ sc.en = "finalizar"
  /\ pedidos' = Append(pedidos, [op |-> "finalizar", id |-> sc.pcb.id])
  /\ sc' = [sc EXCEPT !.en = "recibir"]
  /\ UNCHANGED <<consola, memoria, respuestas, cpu_vars, colas, sem, rp, lp, io,
                 suspension, carrera>>

PedirFin ==
  /\ sc.en = "finalizar"
  /\ sem_wait("esperando_respuesta_memoria")
  /\ pedidos' = Append(pedidos, [op |-> "finalizar", id |-> sc.pcb.id])
  /\ sc' = [sc EXCEPT !.en = "recibir"]
  /\ UNCHANGED <<consola, memoria, respuestas, cpu_vars, colas, rp, lp, io,
                 suspension, carrera>>

RecibirFin ==
  /\ sc.en = "recibir"
  /\ respuestas # <<>>
  /\ respuestas' = Tail(respuestas)
  /\ sem_post("esperando_respuesta_memoria")
  /\ sc' = [sc EXCEPT !.en = "responder"]
  /\ UNCHANGED <<consola, memoria, pedidos, cpu_vars, colas, rp, lp, io,
                 suspension, carrera>>

ResponderConsola ==
  /\ sc.en = "responder"
  /\ consola' = [consola EXCEPT ![sc.pcb.id] = "finalizada"]
  /\ sc' = [sc EXCEPT !.en = "avisar_fin"]
  /\ UNCHANGED <<memoria, pedidos, respuestas, cpu_vars, colas, sem, rp, lp, io,
                 suspension, carrera>>

-----------------------------------------------------------------------------
\* hilo_io

\* queue_pop(cola_blocked), which no mutex guards either.  A pop of a list whose
\* header is wrong, or of an empty one, is the end of the kernel.
TomarBloqueado ==
  /\ io.en = "esperar"
  /\ sem_wait("proceso_en_io")
  /\ \/ /\ ~cola_rota /\ cola_blocked # <<>>
        /\ io' = En("durmiendo", Head(cola_blocked))
        /\ cola_blocked' = Tail(cola_blocked)
        /\ solapado' = (solapado \/ sc.en = "enlazar")
        /\ UNCHANGED caido
     \/ /\ cola_rota \/ cola_blocked = <<>>
        /\ caido' = TRUE
        /\ UNCHANGED <<io, cola_blocked, solapado>>
  /\ UNCHANGED <<sockets, cpu_vars, cola_new, cola_ready, cola_suspended_ready, rp,
                 lp, sc, suspension, cola_rota>>

\* Mutant: esta_suspendido is read without waiting for suspendiendo.
TerminarIO_sin_esperar ==
  /\ io.en = "durmiendo"
  /\ io' = [io EXCEPT !.en = IF Bloqueo(io.pcb) \in esta_suspendido
                               THEN "suspended_ready" ELSE "ready"]
  /\ UNCHANGED <<sockets, cpu_vars, colas, sem, rp, lp, sc, suspension, carrera>>

\* The device has finished: esta_suspendido is read under suspendiendo.
TerminarIO ==
  /\ io.en = "durmiendo"
  /\ sem_wait("suspendiendo")
  /\ io' = [io EXCEPT !.en = IF Bloqueo(io.pcb) \in esta_suspendido
                               THEN "suspended_ready" ELSE "ready"]
  /\ UNCHANGED <<sockets, cpu_vars, colas, rp, lp, sc, suspension, carrera>>

PasarASuspendedReady ==
  /\ io.en = "suspended_ready"
  /\ cola_suspended_ready' = Append(cola_suspended_ready, io.pcb)
  /\ io' = En("liberar_grado", NULO)
  /\ UNCHANGED <<sockets, cpu_vars, cola_new, cola_ready, cola_blocked, sem, rp, lp,
                 sc, suspension, carrera>>

\* Mutant: the place of a suspended process is never given back.
LiberarGradoSuspendido_olvidado ==
  /\ io.en = "liberar_grado"
  /\ io' = En("avisar_para_ready", NULO)
  /\ UNCHANGED <<sockets, cpu_vars, colas, sem, rp, lp, sc, suspension, carrera>>

LiberarGradoSuspendido ==
  /\ io.en = "liberar_grado"
  /\ sem_post("grado_multiprogramacion")
  /\ io' = En("avisar_para_ready", NULO)
  /\ UNCHANGED <<sockets, cpu_vars, colas, rp, lp, sc, suspension, carrera>>

\* Mutant: the wrong semaphore is posted.
AvisarSuspendedReady_en_ready ==
  /\ io.en = "avisar_para_ready"
  /\ sem_post("procesos_en_ready")
  /\ io' = En("soltar", NULO)
  /\ UNCHANGED <<sockets, cpu_vars, colas, rp, lp, sc, suspension, carrera>>

\* Mutant: the long term scheduler is not told.
AvisarSuspendedReady_olvidado ==
  /\ io.en = "avisar_para_ready"
  /\ io' = En("soltar", NULO)
  /\ UNCHANGED <<sockets, cpu_vars, colas, sem, rp, lp, sc, suspension, carrera>>

AvisarSuspendedReady ==
  /\ io.en = "avisar_para_ready"
  /\ sem_post("procesos_para_ready")
  /\ io' = En("soltar", NULO)
  /\ UNCHANGED <<sockets, cpu_vars, colas, rp, lp, sc, suspension, carrera>>

\* Mutant: the suspensor is left alive.
PasarAReady_sin_cancelar ==
  /\ io.en = "ready"
  /\ cola_ready' = Append(cola_ready, io.pcb)
  /\ io' = En("avisar_ready", NULO)
  /\ UNCHANGED <<sockets, cpu_vars, cola_new, cola_blocked, cola_suspended_ready, sem,
                 rp, lp, sc, suspension, carrera>>

\* pthread_cancel of the suspensor and queue_push(cola_ready), both while
\* suspendiendo is held.
PasarAReady ==
  /\ io.en = "ready"
  /\ cancelado' = cancelado \cup {Bloqueo(io.pcb)}
  /\ cola_ready' = Append(cola_ready, io.pcb)
  /\ io' = En("avisar_ready", NULO)
  /\ UNCHANGED <<sockets, cpu_vars, cola_new, cola_blocked, cola_suspended_ready, sem,
                 rp, lp, sc, susp, esta_suspendido, carrera>>

AvisarReadyIO ==
  /\ io.en = "avisar_ready"
  /\ sem_post("procesos_en_ready")
  /\ io' = En("soltar", NULO)
  /\ UNCHANGED <<sockets, cpu_vars, colas, rp, lp, sc, suspension, carrera>>

SoltarSuspendiendo ==
  /\ io.en = "soltar"
  /\ sem_post("suspendiendo")
  /\ io' = En("esperar", NULO)
  /\ UNCHANGED <<sockets, cpu_vars, colas, rp, lp, sc, suspension, carrera>>

-----------------------------------------------------------------------------
\* hilo_suspensor, one thread per block b

\* The usleep ends and sem_wait(suspendiendo) passes its test for a pending
\* cancellation: from "listo" on, the wait itself may still succeed.
Despertar(b) ==
  /\ susp[b] = "durmiendo"
  /\ b[1] \in Suspendibles
  /\ b \notin cancelado
  /\ susp' = [susp EXCEPT ![b] = "listo"]
  /\ UNCHANGED <<sockets, cpu_vars, colas, sem, rp, lp, sc, io, cancelado,
                 esta_suspendido, carrera>>

\* A pending cancellation is acted upon in usleep and in either sem_wait; no
\* cleanup handler releases what the thread holds.
Cancelar(b) ==
  /\ b \in cancelado
  /\ susp[b] \in {"durmiendo", "listo", "con_suspendiendo"}
  /\ susp' = [susp EXCEPT ![b] = "terminado"]
  /\ UNCHANGED <<sockets, cpu_vars, colas, sem, rp, lp, sc, io, cancelado,
                 esta_suspendido, carrera>>

TomarSuspendiendo(b) ==
  /\ susp[b] = "listo"
  /\ sem_wait("suspendiendo")
  /\ susp' = [susp EXCEPT ![b] = "con_suspendiendo"]
  /\ UNCHANGED <<sockets, cpu_vars, colas, rp, lp, sc, io, cancelado,
                 esta_suspendido, carrera>>

PedirSuspension(b) ==
  /\ susp[b] = "con_suspendiendo"
  /\ b \notin cancelado
  /\ sem_wait("esperando_respuesta_memoria")
  /\ esta_suspendido' = esta_suspendido \cup {b}
  /\ pedidos' = Append(pedidos, [op |-> "suspender", id |-> b[1]])
  /\ susp' = [susp EXCEPT ![b] = "pidiendo"]
  /\ UNCHANGED <<consola, memoria, respuestas, cpu_vars, colas, rp, lp, sc, io,
                 cancelado, carrera>>

RecibirSuspension(b) ==
  /\ susp[b] = "pidiendo"
  /\ respuestas # <<>>
  /\ respuestas' = Tail(respuestas)
  /\ sem' = [sem EXCEPT !["esperando_respuesta_memoria"] = @ + 1,
                        !["suspendiendo"] = @ + 1]
  /\ susp' = [susp EXCEPT ![b] = "terminado"]
  /\ UNCHANGED <<consola, memoria, pedidos, cpu_vars, colas, rp, lp, sc, io,
                 cancelado, esta_suspendido, carrera>>

Suspensor(b) ==
  \/ Despertar(b) \/ Cancelar(b) \/ TomarSuspendiendo(b)
  \/ PedirSuspension(b) \/ RecibirSuspension(b)

-----------------------------------------------------------------------------
\* The thread of the memory module that serves the kernel: one request, one
\* answer.  A suspension takes every frame of the process away.
AtenderPedido ==
  /\ pedidos # <<>>
  /\ memoria' = [memoria EXCEPT ![Head(pedidos).id] =
                   CASE Head(pedidos).op = "crear"     -> "residente"
                     [] Head(pedidos).op = "suspender" -> "suspendida"
                     [] OTHER                          -> "sin_tabla"]
  /\ pedidos' = Tail(pedidos)
  /\ respuestas' = Append(respuestas, Head(pedidos))
  /\ UNCHANGED <<consola, cpu_vars, colas, sem, rp, lp, sc, io, suspension, carrera>>

-----------------------------------------------------------------------------
\* The threads, as the modules that compose them name them.

HiloRecibirProcesos == AvisarNew \/ \E p \in Procesos : RecibirProceso(p)

HiloPasarAReady ==
  \/ EsperarProceso \/ TomarGrado \/ SacarDeNew \/ SacarDeSuspendedReady
  \/ PedirTablas \/ RecibirTablas \/ EncolarReady \/ AvisarReady

HiloSyscall ==
  \/ RecibirSyscall
  \/ BuscarUltimo \/ EnlazarBloqueado \/ CrearSuspensor \/ AvisarIO
  \/ LiberarGrado \/ PedirFin \/ RecibirFin \/ ResponderConsola

HiloIO ==
  \/ TomarBloqueado \/ TerminarIO
  \/ PasarASuspendedReady \/ LiberarGradoSuspendido \/ AvisarSuspendedReady
  \/ PasarAReady \/ AvisarReadyIO \/ SoltarSuspendiendo

DelKernel ==
  \/ HiloRecibirProcesos \/ HiloPasarAReady \/ HiloSyscall \/ HiloIO
  \/ \E b \in Bloqueos : Suspensor(b)
  \/ AtenderPedido

\* The steps at which each thread has a PCB in its hands.
LpConPCB == {"crear", "recibir", "encolar"}
ScConPCB == {"bloquear", "enlazar", "crear_suspensor", "avisar_io", "liberar_grado",
             "finalizar", "recibir", "responder", "avisar_fin", "desalojar", "avisar_ready"}
IoConPCB == {"durmiendo", "suspended_ready", "ready"}

TipoSockets ==
  /\ consola \in [Procesos -> {"sin_conectar", "esperando", "finalizada"}]
  /\ memoria \in [Procesos -> {"sin_tabla", "residente", "suspendida"}]
  /\ pedidos \in Seq(Pedidos)
  /\ respuestas \in Seq(Pedidos)

TipoCpu == dispatch \in Seq(PCB) /\ syscalls \in Seq(Syscalls)

TipoColas ==
  /\ cola_new \in Seq(PCB)
  /\ cola_ready \in Seq(PCB)
  /\ cola_blocked \in Seq(PCB)
  /\ cola_suspended_ready \in Seq(PCB)

TipoLp ==
  /\ lp \in [en: {"esperar", "grado", "new", "suspended_ready", "avisar"} \cup LpConPCB,
             pcb: PCB \cup {NULO}]
  /\ lp.en \in LpConPCB => lp.pcb \in PCB
  /\ lp.en \notin LpConPCB => lp.pcb = NULO

TipoSc ==
  /\ sc \in [en: {"esperar"} \cup ScConPCB, pcb: PCB \cup {NULO}]
  /\ sc.en \in ScConPCB => sc.pcb \in PCB
  /\ sc.en \notin ScConPCB => sc.pcb = NULO

TipoIo ==
  /\ io \in [en: {"esperar", "liberar_grado", "avisar_para_ready", "avisar_ready",
                  "soltar"} \cup IoConPCB,
             pcb: PCB \cup {NULO}]
  /\ io.en \in IoConPCB => io.pcb \in PCB
  /\ io.en \notin IoConPCB => io.pcb = NULO

TipoSuspension ==
  /\ susp \in [Bloqueos -> {"no_creado", "durmiendo", "listo", "con_suspendiendo",
                            "pidiendo", "terminado"}]
  /\ cancelado \subseteq Bloqueos
  /\ esta_suspendido \subseteq Bloqueos

TipoCarrera == solapado \in BOOLEAN /\ cola_rota \in BOOLEAN /\ caido \in BOOLEAN

KernelTypeOK ==
  /\ TipoSockets /\ TipoCpu /\ TipoColas
  /\ sem \in [Semaforos -> Nat]
  /\ rp \in {"aceptar", "avisar"}
  /\ TipoLp /\ TipoSc /\ TipoIo
  /\ TipoSuspension /\ TipoCarrera

-----------------------------------------------------------------------------
\* What the semaphores count, whatever the scheduling algorithm

\* A semaphore counts the elements of its queue, less those whose post is still
\* to come and plus those whose wait has passed.
NewDeLp == Uno(lp.en \in {"grado", "new", "suspended_ready"})
NewDeRp == Uno(rp = "avisar")
NewDeIo == Uno(io.en \in {"liberar_grado", "avisar_para_ready"})

CuentaNew ==
  sem["procesos_para_ready"] + NewDeLp + NewDeRp + NewDeIo
    = Len(cola_new) + Len(cola_suspended_ready)

HayParaSacar ==
  /\ lp.en = "new" => Len(cola_new) > 0
  /\ lp.en = "suspended_ready" => Len(cola_suspended_ready) > 0

BlockedDeSc == Uno(sc.en \in {"crear_suspensor", "avisar_io"})

CuentaBlocked == ~cola_rota => sem["proceso_en_io"] + BlockedDeSc = Len(cola_blocked)

\* The posts of procesos_en_ready that lp and io have still to do.
ReadyDeLp == Uno(lp.en = "avisar")
ReadyDeIo == Uno(io.en = "avisar_ready")

\* esperar_syscall is dealing with what a process asked for.
ScAtiende == Uno(sc.en # "esperar")

\* esperar_syscall never goes on with a push on a queue that was already broken.
UnaSolaRotura == sc.en = "enlazar" /\ cola_rota => caido

\* The places of GRADO_MULTIPROGRAMACION: taken by lp for the process it is
\* admitting, and by the processes from ready to the end of their I/O or exit;
\* kept by the block the race has lost; free.
LugarLp == Uno(lp.en \in {"new", "suspended_ready", "crear", "recibir", "encolar"})
LugarSc == Uno(sc.en \in {"bloquear", "enlazar", "desalojar", "liberar_grado"})
LugarIo == Uno(io.en \in {"durmiendo", "suspended_ready", "ready", "liberar_grado"})
Perdido == Uno(cola_rota)

PlazasDelKernel ==
  LugarLp + Len(cola_ready) + Len(dispatch) + Len(syscalls) + LugarSc
    + Len(cola_blocked) + LugarIo + Perdido + sem["grado_multiprogramacion"]

-----------------------------------------------------------------------------
\* Where each PCB is, but for the scheduler and the CPU.  esperar_syscall keeps a
\* copy after it has queued one.

ScDuenio == {"bloquear", "enlazar", "desalojar", "liberar_grado", "finalizar",
             "recibir", "responder"}

LugaresDelKernel ==
  [new |-> Range(cola_new), ready |-> Range(cola_ready), blocked |-> Range(cola_blocked),
   suspended_ready |-> Range(cola_suspended_ready), dispatch |-> Range(dispatch),
   syscalls |-> {m.pcb : m \in Range(syscalls)},
   lp |-> {lp.pcb} \ {NULO}, io |-> {io.pcb} \ {NULO},
   sc |-> IF sc.en \in ScDuenio THEN {sc.pcb} ELSE {}]

Distintos(cola) == \A i, j \in DOMAIN cola : cola[i].id = cola[j].id => i = j
SinRepetidos ==
  /\ Distintos(cola_new) /\ Distintos(cola_ready) /\ Distintos(cola_blocked)
  /\ Distintos(cola_suspended_ready) /\ Distintos(dispatch)

SyscallsDistintas ==
  \A i, j \in DOMAIN syscalls : syscalls[i].pcb.id = syscalls[j].pcb.id => i = j

-----------------------------------------------------------------------------
\* Suspensors, whatever the scheduling algorithm

\* suspendiendo is held by hilo_io, from the end of the I/O, or by one suspensor.
IoConSuspendiendo ==
  {"suspended_ready", "ready", "liberar_grado", "avisar_para_ready", "avisar_ready", "soltar"}
ConSuspendiendo == {b \in Bloqueos : susp[b] \in {"con_suspendiendo", "pidiendo"}}
Pidiendo == {b \in Bloqueos : susp[b] = "pidiendo"}

Exclusion ==
  /\ sem["suspendiendo"] + Uno(io.en \in IoConSuspendiendo) <= 1
  /\ \A b \in ConSuspendiendo :
       /\ sem["suspendiendo"] = 0 /\ io.en \notin IoConSuspendiendo
       /\ \A c \in ConSuspendiendo : c = b

\* hilo_io finds esta_suspendido only when the suspension is complete.
EstaSuspendidoAlDia ==
  /\ \A b \in Pidiendo : b \in esta_suspendido /\ b \notin cancelado
  /\ \A b \in esta_suspendido : susp[b] \in {"pidiendo", "terminado"}
  /\ io.en = "suspended_ready" => Bloqueo(io.pcb) \in esta_suspendido
  /\ io.en = "ready" => Bloqueo(io.pcb) \notin esta_suspendido

\* A process has been blocked as many times as its pc says.
Edades ==
  /\ \A x \in Range(cola_new) : x.pc = 0
  /\ lp.en \in {"crear", "recibir"} => lp.pcb.pc = 0
  /\ \A x \in Range(cola_suspended_ready) \cup Range(cola_blocked) : x.pc > 0
  /\ io.en \in IoConPCB => io.pcb.pc > 0
  /\ \A m \in Range(syscalls) : m.instruccion = "IO" => m.pcb.pc > 0
  /\ sc.en \in {"bloquear", "enlazar", "crear_suspensor"} => sc.pcb.pc > 0
=============================================================================
