------------------------------ MODULE KernelSRT ------------------------------
(***************************************************************************)
(* The kernel under any other ALGORITMO_PLANIFICACION: shortest job first  *)
(* with preemption.  The threads of Kernel, the short term scheduler, the  *)
(* socket it interrupts the CPU by, and the two threads of the CPU.        *)
(*                                                                         *)
(* cola_ready stands for lista_ready.  Estimates and clocks are left out:  *)
(* which PCB is the minimum, and whether what is left of the running burst *)
(* is longer, is any choice.                                               *)
(***************************************************************************)
EXTENDS Kernel, FiniteSets

CONSTANT ConIO              \* the processes whose programs have I/O instructions

ASSUME ConIOAssumption == ConIO \subseteq Procesos

VARIABLES
  cp,                   \* where ready_a_executing is, and the PCB it holds
  ejecucion,            \* PCB_EJECUCION.id_proceso; NULO is the -1
  interrupciones,       \* the 55s in socket_cpu_interrupcion
  cpu,                  \* the executer, and pcb_ejecutando
  interrupcion, syscall_bloqueante,
  limpiando,            \* nada_ejecutando posted, interrupcion not yet reset
  lista_rota,           \* two accesses to lista_ready overlapped and broke it
  doble_envio,          \* the CPU sent back, and freed, one PCB twice
  anomalias             \* what has gone wrong between scheduler and CPU, see Anotar

cpu_srt == <<interrupciones, cpu, interrupcion, syscall_bloqueante, limpiando, doble_envio>>
srt_vars == <<cp, ejecucion, cpu_srt, lista_rota, anomalias>>
vars == <<kernel_vars, srt_vars>>

Init ==
  /\ KernelInit
  /\ cp = En("ready", NULO)
  /\ ejecucion = NULO
  /\ interrupciones = 0
  /\ cpu = En("libre", NULO)
  /\ interrupcion = FALSE /\ syscall_bloqueante = FALSE /\ limpiando = FALSE
  /\ lista_rota = FALSE /\ doble_envio = FALSE
  /\ anomalias = {}

\* The processes sent to the CPU that have not left it, and those on their way
\* back, until the kernel has seen that they are.
EnCpu == Ids(dispatch) \cup (IF syscall_bloqueante THEN {} ELSE IdDe(cpu.pcb))
ScDeVuelta == {"bloquear", "enlazar", "crear_suspensor", "avisar_io", "liberar_grado",
               "finalizar", "recibir", "responder", "avisar_fin"}
DeVuelta == {syscalls[i].pcb.id : i \in DOMAIN syscalls}
              \cup (IF sc.en \in ScDeVuelta THEN IdDe(sc.pcb) ELSE {})

\* interrupcion_tardia: an interrupt is sent for, or is pending when, a process
\* has left the CPU by itself.  asignacion_tardia: PCB_EJECUCION is set to a
\* process that has already come back.  aviso_ajeno: the wait for the preempted
\* PCB takes the post of another.
Anotar(anomalia, ocurre) == anomalias' = anomalias \cup {a \in {anomalia} : ocurre}

-----------------------------------------------------------------------------
\* ready_a_executing, SJF

EsperarReady ==
  /\ cp.en = "ready"
  /\ sem_wait("procesos_en_ready")
  /\ cp' = En("elegir", NULO)
  /\ UNCHANGED <<sockets, cpu_vars, colas, rp, lp, sc, io, suspension, carrera,
                 ejecucion, cpu_srt, lista_rota, anomalias>>

\* The system calls post procesos_en_ready too, with nothing in the list.
NadaEnReady ==
  /\ cp.en = "elegir"
  /\ cola_ready = <<>>
  /\ cp' = En("ready", NULO)
  /\ UNCHANGED <<kernel_vars, ejecucion, cpu_srt, lista_rota, anomalias>>

\* algoritmo_sjf gives PCB_EJECUCION, or a PCB of the list that has its id.
Permanece ==
  /\ cp.en = "elegir"
  /\ cola_ready # <<>>
  /\ ejecucion # NULO
  /\ cp' = En("ready", NULO)
  /\ UNCHANGED <<kernel_vars, ejecucion, cpu_srt, lista_rota, anomalias>>

\* Mutant: the list is not looked at.
ElegirOtro_sin_mirar ==
  /\ cp.en = "elegir"
  /\ cp' = En("sacar", NULO)
  /\ UNCHANGED <<kernel_vars, ejecucion, cpu_srt, lista_rota, anomalias>>

\* algoritmo_sjf gives a PCB of the list that is not the one in execution.
ElegirOtro ==
  /\ cp.en = "elegir"
  /\ \E pcb \in {cola_ready[i] : i \in DOMAIN cola_ready} : pcb.id # ejecucion
  /\ cp' = En("sacar", NULO)
  /\ UNCHANGED <<kernel_vars, ejecucion, cpu_srt, lista_rota, anomalias>>

\* Mutant: list_get in the place of list_remove_by_condition.
Sacar_sin_quitar ==
  /\ cp.en = "sacar"
  /\ \E pcb \in {cola_ready[i] : i \in DOMAIN cola_ready} : cp' = En("interrumpir", pcb)
  /\ UNCHANGED <<kernel_vars, ejecucion, cpu_srt, lista_rota, anomalias>>

\* list_remove_by_condition looks for the minimum again, in a list that may have
\* grown, and without the mutex under which the others add to it.  With an empty
\* list it gives NULL, whose id_proceso would be printed.
Sacar ==
  /\ cp.en = "sacar"
  /\ \/ /\ \E i \in DOMAIN cola_ready :
             /\ cp' = En("interrumpir", cola_ready[i])
             /\ cola_ready' = SubSeq(cola_ready, 1, i - 1)
                                \o SubSeq(cola_ready, i + 1, Len(cola_ready))
        /\ UNCHANGED caido
     \/ /\ cola_ready = <<>>
        /\ caido' = TRUE
        /\ UNCHANGED <<cp, cola_ready>>
  /\ \/ UNCHANGED lista_rota
     \/ /\ lp.en = "encolar" \/ io.en = "ready" \/ sc.en = "desalojar"
        /\ lista_rota' = TRUE
  /\ UNCHANGED <<sockets, cpu_vars, cola_new, cola_blocked, cola_suspended_ready, sem,
                 rp, lp, sc, io, suspension, solapado, cola_rota, ejecucion, cpu_srt, anomalias>>

\* PCB_EJECUCION is read once more.
SinInterrumpir ==
  /\ cp.en = "interrumpir"
  /\ ejecucion = NULO
  /\ cp' = [cp EXCEPT !.en = "enviar"]
  /\ UNCHANGED <<kernel_vars, ejecucion, cpu_srt, lista_rota, anomalias>>

Interrumpir ==
  /\ cp.en = "interrumpir"
  /\ ejecucion # NULO
  /\ interrupciones' = interrupciones + 1
  /\ cp' = [cp EXCEPT !.en = "esperar_desalojo"]
  /\ Anotar("interrupcion_tardia", ejecucion \notin EnCpu)
  /\ UNCHANGED <<kernel_vars, ejecucion, cpu, interrupcion, syscall_bloqueante, limpiando,
                 doble_envio, lista_rota>>

\* Mutant: the next process is sent before the preempted one is back.
EsperarDesalojo_sin_esperar ==
  /\ cp.en = "esperar_desalojo"
  /\ cp' = [cp EXCEPT !.en = "enviar"]
  /\ UNCHANGED <<kernel_vars, ejecucion, cpu_srt, lista_rota, anomalias>>

\* The post may be that of the preempted process or of any other that arrived.
EsperarDesalojo ==
  /\ cp.en = "esperar_desalojo"
  /\ sem_wait("procesos_en_ready")
  /\ cp' = [cp EXCEPT !.en = "enviar"]
  /\ Anotar("aviso_ajeno", \/ EnCpu \cup DeVuelta # {}
                           \/ sc.en \in {"desalojar", "avisar_ready"})
  /\ UNCHANGED <<sockets, cpu_vars, colas, rp, lp, sc, io, suspension, carrera,
                 ejecucion, cpu_srt, lista_rota>>

Enviar ==
  /\ cp.en = "enviar"
  /\ dispatch' = Append(dispatch, cp.pcb)
  /\ cp' = [cp EXCEPT !.en = "asignar"]
  /\ UNCHANGED <<sockets, syscalls, colas, sem, rp, lp, sc, io, suspension, carrera,
                 ejecucion, cpu_srt, lista_rota, anomalias>>

\* asignar_pcb_ejecucion comes after the PCB was sent.
Asignar ==
  /\ cp.en = "asignar"
  /\ ejecucion' = cp.pcb.id
  /\ cp' = En("ready", NULO)
  /\ Anotar("asignacion_tardia", cp.pcb.id \notin EnCpu \cup DeVuelta)
  /\ UNCHANGED <<kernel_vars, cpu_srt, lista_rota>>

-----------------------------------------------------------------------------
\* esperar_syscall, what depends on the algorithm

\* Mutant: PCB_EJECUCION goes on naming the process.
LiberarEjecucion_olvidado ==
  /\ sc.en = "avisar_fin"
  /\ sc' = [sc EXCEPT !.en = "avisar_ready"]
  /\ UNCHANGED <<sockets, cpu_vars, colas, sem, rp, lp, io, suspension, carrera,
                 cp, ejecucion, cpu_srt, lista_rota, anomalias>>

\* The end of executing_a_blocked and executing_a_exit: first PCB_EJECUCION ...
LiberarEjecucion ==
  /\ sc.en = "avisar_fin"
  /\ ejecucion' = NULO
  /\ sc' = [sc EXCEPT !.en = "avisar_ready"]
  /\ UNCHANGED <<sockets, cpu_vars, colas, sem, rp, lp, io, suspension, carrera,
                 cp, cpu_srt, lista_rota, anomalias>>

\* Mutant: its place is given back, as when a process ends.
AgregarDesalojado_con_grado ==
  /\ sc.en = "desalojar"
  /\ cola_ready' = Append(cola_ready, sc.pcb)
  /\ sem_post("grado_multiprogramacion")
  /\ sc' = [sc EXCEPT !.en = "avisar_ready"]
  /\ UNCHANGED <<sockets, cpu_vars, cola_new, cola_blocked, cola_suspended_ready, rp,
                 lp, io, suspension, carrera, cp, ejecucion, cpu_srt, lista_rota, anomalias>>

\* DESALOJO: list_add(lista_ready), without mx_lista_ready.
AgregarDesalojado ==
  /\ sc.en = "desalojar"
  /\ cola_ready' = Append(cola_ready, sc.pcb)
  /\ sc' = [sc EXCEPT !.en = "avisar_ready"]
  /\ \/ UNCHANGED lista_rota
     \/ /\ lp.en = "encolar" \/ io.en = "ready"
        /\ lista_rota' = TRUE
  /\ UNCHANGED <<sockets, cpu_vars, cola_new, cola_blocked, cola_suspended_ready, sem,
                 rp, lp, io, suspension, carrera, cp, ejecucion, cpu_srt, anomalias>>

\* Mutant: nobody is told that the CPU is free, or that the list has one more.
AvisarReadySyscall_olvidado ==
  /\ sc.en = "avisar_ready"
  /\ sc' = En("esperar", NULO)
  /\ UNCHANGED <<sockets, cpu_vars, colas, sem, rp, lp, io, suspension, carrera,
                 cp, ejecucion, cpu_srt, lista_rota, anomalias>>

\* ... and then the post, in either case.
AvisarReadySyscall ==
  /\ sc.en = "avisar_ready"
  /\ sem_post("procesos_en_ready")
  /\ sc' = En("esperar", NULO)
  /\ UNCHANGED <<sockets, cpu_vars, colas, rp, lp, io, suspension, carrera,
                 cp, ejecucion, cpu_srt, lista_rota, anomalias>>

-----------------------------------------------------------------------------
\* The CPU.  "libre" is nada_ejecutando posted, "listo" is ejecutar posted.

\* main: sem_wait(nada_ejecutando), recibir_PCB, sem_post(ejecutar).
CpuRecibir ==
  /\ cpu.en = "libre"
  /\ dispatch # <<>>
  /\ cpu' = En("listo", Head(dispatch))
  /\ dispatch' = Tail(dispatch)
  /\ UNCHANGED <<sockets, syscalls, colas, sem, rp, lp, sc, io, suspension, carrera,
                 cp, ejecucion, interrupciones, interrupcion, syscall_bloqueante, limpiando,
                 doble_envio, lista_rota, anomalias>>

PuedeEjecutar == cpu.en = "listo" /\ ~limpiando

\* Any instruction but I/O and EXIT; READ, WRITE and COPY bring pages back.
CpuInstruccion ==
  /\ PuedeEjecutar
  /\ memoria' = [memoria EXCEPT ![cpu.pcb.id] = IF @ = "suspendida" THEN "residente" ELSE @]
  /\ cpu' = [cpu EXCEPT !.en = "chequear"]
  /\ UNCHANGED <<consola, pedidos, respuestas, cpu_vars, colas, sem, rp, lp, sc, io,
                 suspension, carrera, cp, ejecucion, interrupciones, interrupcion,
                 syscall_bloqueante, limpiando, doble_envio, lista_rota, anomalias>>

\* instr_io and instr_exit: the PCB is sent, then the flag is set.
CpuSyscall(instruccion, pcb) ==
  /\ PuedeEjecutar
  /\ syscalls' = Append(syscalls, [instruccion |-> instruccion, pcb |-> pcb])
  /\ syscall_bloqueante' = TRUE
  /\ cpu' = [cpu EXCEPT !.en = "chequear"]
  /\ Anotar("interrupcion_tardia", interrupcion \/ interrupciones > 0)
  /\ UNCHANGED <<sockets, dispatch, colas, sem, rp, lp, sc, io, suspension, carrera,
                 cp, ejecucion, interrupciones, interrupcion, limpiando, doble_envio,
                 lista_rota>>

CpuIO ==
  /\ cpu.pcb # NULO
  /\ cpu.pcb.id \in ConIO
  /\ cpu.pcb.pc < MaxIO
  /\ CpuSyscall("IO", [cpu.pcb EXCEPT !.pc = @ + 1])

CpuExit == CpuSyscall("EXIT", cpu.pcb)

\* hay_interrupcion is looked at first.  After I/O or EXIT the PCB is sent back
\* once more, and its instructions are freed for the second time.
ChequearInterrupcion ==
  /\ cpu.en = "chequear"
  /\ interrupcion
  /\ syscalls' = Append(syscalls, [instruccion |-> "DESALOJO", pcb |-> cpu.pcb])
  /\ cpu' = En("libre", NULO)
  /\ limpiando' = TRUE
  /\ doble_envio' = syscall_bloqueante
  /\ UNCHANGED <<sockets, dispatch, colas, sem, rp, lp, sc, io, suspension, carrera,
                 cp, ejecucion, interrupciones, interrupcion, syscall_bloqueante,
                 lista_rota, anomalias>>

ChequearSyscall ==
  /\ cpu.en = "chequear"
  /\ ~interrupcion
  /\ syscall_bloqueante
  /\ syscall_bloqueante' = FALSE
  /\ cpu' = En("libre", NULO)
  /\ UNCHANGED <<kernel_vars, cp, ejecucion, interrupciones, interrupcion, limpiando,
                 doble_envio, lista_rota, anomalias>>

ChequearNada ==
  /\ cpu.en = "chequear"
  /\ ~interrupcion
  /\ ~syscall_bloqueante
  /\ cpu' = [cpu EXCEPT !.en = "listo"]
  /\ UNCHANGED <<kernel_vars, cp, ejecucion, interrupciones, interrupcion,
                 syscall_bloqueante, limpiando, doble_envio, lista_rota, anomalias>>

\* Mutant: interrupcion is left at 1.
LimpiarInterrupcion_olvidado ==
  /\ limpiando
  /\ limpiando' = FALSE
  /\ UNCHANGED <<kernel_vars, cp, ejecucion, interrupciones, cpu, interrupcion,
                 syscall_bloqueante, doble_envio, lista_rota, anomalias>>

\* The flag is reset when nada_ejecutando has already been posted: an interrupt
\* for the next process may be lost here.
LimpiarInterrupcion ==
  /\ limpiando
  /\ interrupcion' = FALSE
  /\ limpiando' = FALSE
  /\ UNCHANGED <<kernel_vars, cp, ejecucion, interrupciones, cpu, syscall_bloqueante,
                 doble_envio, lista_rota, anomalias>>

RecibirInterrupcion ==
  /\ interrupciones > 0
  /\ interrupciones' = interrupciones - 1
  /\ interrupcion' = TRUE
  /\ UNCHANGED <<kernel_vars, cp, ejecucion, cpu, syscall_bloqueante, limpiando,
                 doble_envio, lista_rota, anomalias>>

-----------------------------------------------------------------------------

HiloReadyAExecuting ==
  \/ EsperarReady \/ NadaEnReady \/ Permanece \/ ElegirOtro \/ Sacar
  \/ SinInterrumpir \/ Interrumpir \/ EsperarDesalojo \/ Enviar \/ Asignar

HiloSyscallSRT == LiberarEjecucion \/ AgregarDesalojado \/ AvisarReadySyscall

HiloExecuter ==
  \/ CpuInstruccion \/ CpuIO \/ CpuExit
  \/ ChequearInterrupcion \/ ChequearSyscall \/ ChequearNada \/ LimpiarInterrupcion

\* Nothing is said of a program that has gone on after corrupting its memory.
EnPie == ~caido /\ ~lista_rota /\ ~doble_envio

Next ==
  /\ EnPie
  /\ \/ DelKernel /\ UNCHANGED srt_vars
     \/ HiloReadyAExecuting
     \/ HiloSyscallSRT
     \/ CpuRecibir
     \/ HiloExecuter
     \/ RecibirInterrupcion

Spec == Init /\ [][Next]_vars

\* As in KernelFIFO, every thread that can go on does.  A program is finite: a
\* process that executes again and again comes to its next I/O or to its EXIT.
Equidad ==
  /\ WF_vars(EnPie /\ AvisarNew /\ UNCHANGED srt_vars)
  /\ WF_vars(EnPie /\ HiloPasarAReady /\ UNCHANGED srt_vars)
  /\ WF_vars(EnPie /\ ((HiloSyscall /\ UNCHANGED srt_vars) \/ HiloSyscallSRT))
  /\ WF_vars(EnPie /\ HiloIO /\ UNCHANGED srt_vars)
  /\ \A b \in Bloqueos : WF_vars(EnPie /\ Suspensor(b) /\ UNCHANGED srt_vars)
  /\ WF_vars(EnPie /\ AtenderPedido /\ UNCHANGED srt_vars)
  /\ WF_vars(EnPie /\ HiloReadyAExecuting)
  /\ WF_vars(EnPie /\ CpuRecibir)
  /\ WF_vars(EnPie /\ HiloExecuter)
  /\ WF_vars(EnPie /\ RecibirInterrupcion)
  /\ \A p \in Procesos : SF_vars(EnPie /\ cpu.pcb # NULO /\ cpu.pcb.id = p /\ (CpuIO \/ CpuExit))

SpecJusta == Spec /\ Equidad

-----------------------------------------------------------------------------
\* Properties

\* The steps at which the scheduler has a PCB in its hands.
CpConPCB == {"interrumpir", "esperar_desalojo", "enviar", "asignar"}

\* The type of every variable of the kernel, the scheduler and the CPU.
TypeOK ==
  /\ KernelTypeOK
  /\ cp \in [en: {"ready", "elegir", "sacar"} \cup CpConPCB, pcb: PCB \cup {NULO}]
  /\ cp.pcb \in PCB <=> cp.en \in CpConPCB
  /\ ejecucion \in Procesos \cup {NULO}
  /\ interrupciones \in Nat
  /\ cpu \in [en: {"libre", "listo", "chequear"}, pcb: PCB \cup {NULO}]
  /\ cpu.pcb \in PCB <=> cpu.en # "libre"
  /\ {interrupcion, syscall_bloqueante, limpiando, doble_envio, lista_rota} \subseteq BOOLEAN
  /\ anomalias \subseteq {"interrupcion_tardia", "asignacion_tardia", "aviso_ajeno"}

\* procesos_en_ready no longer counts lista_ready: esperar_syscall posts it with
\* nothing in the list.  Even so the scheduler never removes from an empty one.
CaidaSoloPorCarrera == caido => cola_rota

\* PCB_EJECUCION, which the scheduler and esperar_syscall both write without a
\* lock, is the process that is in the CPU or on its way to or from it, every
\* time the scheduler is about to decide by it, as long as no interrupt came too
\* late, no assignment did, and no post was taken for another.
EjecucionFiel ==
  anomalias = {} /\ cp.en \in {"ready", "elegir", "sacar", "interrumpir"}
    => EnCpu \cup DeVuelta = (IF ejecucion = NULO THEN {} ELSE {ejecucion})

\* Where each PCB is: with the threads of Kernel, in the hands of the scheduler,
\* which keeps a copy after it has sent one, or in the CPU, which keeps one after
\* a system call.
Lugares ==
  [l \in DOMAIN LugaresDelKernel \cup {"cp", "cpu"} |->
     CASE l = "cp"  -> IF cp.en = "asignar" THEN {} ELSE {cp.pcb} \ {NULO}
       [] l = "cpu" -> IF syscall_bloqueante THEN {} ELSE {cpu.pcb} \ {NULO}
       [] OTHER     -> LugaresDelKernel[l]]

\* No process is lost or in two places at once through any preemption, until the
\* CPU sends one of them back twice.
NiPerdidoNiDuplicado ==
  ~doble_envio =>
  /\ \A p \in Procesos :
       LET donde == {l \in DOMAIN Lugares : \E x \in Lugares[l] : x.id = p} IN
         /\ Cardinality(donde) <= 1
         /\ consola[p] = "esperando" /\ ~cola_rota => Cardinality(donde) = 1
  /\ \A cola \in {cola_new, cola_ready, cola_blocked, cola_suspended_ready, dispatch} :
       Cardinality(Ids(cola)) = Len(cola)

\* A preempted process keeps its place of GRADO_MULTIPROGRAMACION, and no other
\* step of the preemption gives one back: the places taken and the free ones are
\* always as many as the degree.
LugarCp == Uno(cp.en \in {"interrumpir", "esperar_desalojo", "enviar"})
LugarCpu == Uno(cpu.pcb # NULO /\ ~syscall_bloqueante)

LugaresOcupados ==
  LugarLp + Len(cola_ready) + LugarCp + Len(dispatch) + LugarCpu + Len(syscalls) + LugarSc
    + Len(cola_blocked) + LugarIo

GradoRespetado ==
  ~doble_envio =>
    LugaresOcupados + sem["grado_multiprogramacion"] + Perdido = GRADO_MULTIPROGRAMACION

\* While nothing has gone wrong, whoever the CPU preempts is the process that
\* PCB_EJECUCION names, and the scheduler is waiting for it: no interrupt is left
\* over for the process that comes next.  The exception is doble_envio, when the
\* interrupt for the next process overtakes the check of the one before.
DesalojaAlQueDebe ==
  [][ChequearInterrupcion /\ anomalias = {} /\ ~syscall_bloqueante =>
       cp.en = "esperar_desalojo" /\ cpu.pcb.id = ejecucion]_vars

\* Why these hold

\* What the semaphores count does not depend on the algorithm, but that the
\* scheduler finds somebody in lista_ready does: nobody else takes from it.
HayParaElegir == cp.en = "sacar" => cola_ready # <<>>

\* The executer knows of a system call until its next check, and resets
\* interrupcion before it executes anything else.
Banderas ==
  /\ syscall_bloqueante /\ ~doble_envio => cpu.en = "chequear"
  /\ limpiando => cpu.en # "chequear"

Cuentas ==
  /\ CuentaNew /\ HayParaSacar /\ CuentaBlocked /\ UnaSolaRotura /\ HayParaElegir
  /\ CaidaSoloPorCarrera /\ Banderas /\ GradoRespetado

\* Where a process is, as in KernelFIFO.
EnAlgunLugar(p) == \E l \in DOMAIN Lugares : \E x \in Lugares[l] : x.id = p

EnUnSoloLugar ==
  LET donde == Lugares IN
  \A l, m \in DOMAIN donde : \A x \in donde[l], y \in donde[m] :
    x.id = y.id => l = m /\ x = y

Extraviado(p) == consola[p] = "esperando" /\ ~EnAlgunLugar(p)

ALoSumoUnExtraviado ==
  /\ \A p \in Procesos : EnAlgunLugar(p) => consola[p] = "esperando"
  /\ \A p, q \in Procesos : Extraviado(p) /\ Extraviado(q) => p = q
  /\ \A p \in Procesos : Extraviado(p) => cola_rota

Ubicados ==
  ~doble_envio =>
    EnUnSoloLugar /\ ALoSumoUnExtraviado /\ SinRepetidos /\ SyscallsDistintas

\* One process at most on its way to the CPU, in it or on its way back.
EnCamino == Len(dispatch) + LugarCpu + Len(syscalls) + Uno(sc.en \in ScDeVuelta)

\* An interrupt that has been sent and not yet acted upon, nor lost.
Atento == interrupcion /\ ~limpiando
Pendiente == interrupciones > 0 \/ Atento

\* The scheduler sends a process when nobody is on the way, and the CPU learns of
\* an interrupt while it has the process meant.
EjecucionSana ==
  /\ EnCamino <= 1
  /\ interrupciones + Uno(Atento) <= 1
  /\ cp.en \in {"ready", "elegir", "sacar", "interrumpir"} =>
       EnCpu \cup DeVuelta = {ejecucion} \ {NULO}
  /\ cp.en = "esperar_desalojo" => EnCpu \cup DeVuelta \subseteq {ejecucion} \ {NULO}
  /\ cp.en = "enviar" => EnCamino = 0
  /\ cp.en = "asignar" => EnCpu \cup DeVuelta \subseteq {cp.pcb.id}
  /\ Pendiente => cp.en = "esperar_desalojo" /\ ejecucion \in EnCpu
  /\ \A i \in DOMAIN syscalls :
       syscalls[i].instruccion = "DESALOJO" => cp.en = "esperar_desalojo"
  /\ sc.en = "desalojar" => cp.en = "esperar_desalojo"

\* That is so while nothing has gone wrong, although the interrupt does not always
\* come in time to stop the CPU from sending its PCB twice.
Ejecucion ==
  anomalias = {} => IF doble_envio THEN cp.en = "esperar_desalojo" ELSE EjecucionSana

\* There is no suspensor for a block that is still to come.  Of the one that is
\* about to be created it is enough that its process has not been blocked again.
SinSuspensorAun ==
  /\ \A b \in Bloqueos : consola[b[1]] = "sin_conectar" => susp[b] = "no_creado"
  /\ \A l \in DOMAIN Lugares : \A x \in Lugares[l] : \A b \in Bloqueos :
       b[1] = x.id /\ b[2] > x.pc => susp[b] = "no_creado"
  /\ \A m \in Range(syscalls) : m.instruccion = "IO" => susp[Bloqueo(m.pcb)] = "no_creado"
  /\ sc.en \in {"bloquear", "enlazar", "crear_suspensor"} =>
       susp[Bloqueo(sc.pcb)] = "no_creado"

SuspensorPorCrear ==
  sc.en = "crear_suspensor" =>
    /\ consola[sc.pcb.id] # "sin_conectar"
    /\ \A l \in DOMAIN Lugares : \A x \in Lugares[l] :
         x.id = sc.pcb.id => x.pc >= sc.pcb.pc
    /\ \A m \in Range(syscalls) :
         m.instruccion = "IO" /\ m.pcb.id = sc.pcb.id => m.pcb.pc > sc.pcb.pc

Suspensores ==
  ~doble_envio =>
    Edades /\ Exclusion /\ EstaSuspendidoAlDia /\ SinSuspensorAun /\ SuspensorPorCrear

\* The four together are what every step keeps: how many processes the threads
\* have, where they are, which one is executing and which have a suspensor.
Inductiva == Cuentas /\ Ubicados /\ Ejecucion /\ Suspensores

\* The life cycle of each process, as CicloDeVida numbers its states.
Estado(p) ==
  CASE consola[p] = "sin_conectar" -> "ausente"
    [] p \in Ids(cola_new) \/ (p \in IdDe(lp.pcb) /\ lp.pcb.pc = 0) -> "new"
    [] p \in Ids(cola_suspended_ready) \/ (p \in IdDe(lp.pcb) /\ lp.pcb.pc > 0)
         -> "suspended_ready"
    [] \/ p \in Ids(cola_ready)
       \/ p \in IdDe(cp.pcb) /\ cp.en # "asignar" -> "ready"
    [] \/ p \in EnCpu \cup {syscalls[i].pcb.id : i \in DOMAIN syscalls}
       \/ p \in IdDe(sc.pcb) /\ sc.en \in {"bloquear", "enlazar", "liberar_grado", "desalojar"}
         -> "exec"
    [] \/ consola[p] = "finalizada"
       \/ p \in IdDe(sc.pcb) /\ sc.en \in {"finalizar", "recibir", "responder"} -> "exit"
    [] \/ \E i \in DOMAIN cola_blocked : /\ cola_blocked[i].id = p
                                         /\ Bloqueo(cola_blocked[i]) \in esta_suspendido
       \/ p \in IdDe(io.pcb) /\ Bloqueo(io.pcb) \in esta_suspendido -> "suspended_blocked"
    [] OTHER -> "blocked"

Estados == [p \in Procesos |-> Estado(p)]
Ciclo == INSTANCE CicloDeVida WITH estado <- Estados

\* While nothing has gone wrong, every step is one of the seven-state life cycle
\* with preemption, in which one process at a time is executing although the next
\* one is sent before the scheduler writes down that it was.
ImplementaCicloConDesalojo ==
  [][anomalias' = {} /\ ~doble_envio' => Ciclo!NextConDesalojo \/ UNCHANGED Estados]_vars

\* Every console that is waiting gets its answer, whoever is preempted and
\* however often, and even if an interrupt is lost, unless something went wrong.
TodosFinalizan ==
  \A p \in Procesos :
    consola[p] = "esperando" ~>
      (consola[p] = "finalizada" \/ cola_rota \/ ~EnPie \/ anomalias # {})

\* consola/consola.c: once it has sent its process, a console waits for the
\* answer of the kernel, and gets it.  An interrupt that comes too late is not
\* excused here: nothing in the program takes it for an error.
ConsolaRecibeRespuesta ==
  \A p \in Procesos :
    consola[p] = "esperando" ~>
      (consola[p] = "finalizada" \/ cola_rota \/ ~EnPie
         \/ "asignacion_tardia" \in anomalias \/ "aviso_ajeno" \in anomalias)

=============================================================================
