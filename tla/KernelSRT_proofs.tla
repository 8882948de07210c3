-------------------------- MODULE KernelSRT_proofs --------------------------
(***************************************************************************)
(* Theorems about KernelSRT, for every set of processes, every degree of   *)
(* multiprogramming and every bound on I/O: its types, what its semaphores *)
(* count, where each process is, whom the CPU preempts, what each suspensor*)
(* waits for, and that every step is one of the life cycle of a process.   *)
(***************************************************************************)
EXTENDS KernelSRT, Kernel_proofs

-----------------------------------------------------------------------------
\* Types

LEMMA InitTypeOK == Init => TypeOK
<1> SUFFICES ASSUME Init PROVE TypeOK
  OBVIOUS
<1> USE NuloAssumption DEF NuloAssumption
<1>1. KernelTypeOK
  BY KernelInitTypeOK DEF Init
<1> QED
  BY <1>1 DEF Init, TypeOK, En, CpConPCB

\* list_remove of the element i of a list.
Quitado(s, i) == SubSeq(s, 1, i - 1) \o SubSeq(s, i + 1, Len(s))

\* It takes that element away and no other.
LEMMA Quitar ==
  ASSUME NEW S, NEW s \in Seq(S), NEW i \in DOMAIN s
  PROVE  /\ Quitado(s, i) \in Seq(S) /\ s[i] \in S /\ Len(s) > 0 /\ s[i] \in Range(s)
         /\ Len(Quitado(s, i)) = Len(s) - 1
         /\ Distintos(s) =>
              Distintos(Quitado(s, i)) /\ Range(Quitado(s, i)) = Range(s) \ {s[i]}
<1> DEFINE n == Len(s)
           a == SubSeq(s, 1, i - 1)
           b == SubSeq(s, i + 1, n)
           t == Quitado(s, i)
<1>1. n \in Nat /\ DOMAIN s = 1..n /\ i \in 1..n /\ \A k \in 1..n : s[k] \in S
  BY LenProperties, ElementOfSeq
<1> HIDE DEF n
<1>2. a \in Seq(S) /\ Len(a) = i - 1 /\ \A k \in 1..(i - 1) : a[k] = s[k]
  BY <1>1, SubSeqProperties
<1>3. b \in Seq(S) /\ Len(b) = n - i /\ \A k \in 1..(n - i) : b[k] = s[k + i]
  <2>1. \A k \in (i + 1)..n : s[k] \in S
    BY <1>1
  <2>2. /\ b \in Seq(S) /\ Len(b) = IF i + 1 <= n THEN n - (i + 1) + 1 ELSE 0
        /\ \A k \in 1..(n - (i + 1) + 1) : b[k] = s[(i + 1) + k - 1]
    BY <1>1, <2>1, SubSeqProperties
  <2> QED
    BY <1>1, <2>2
<1> HIDE DEF a, b
<1>4. t = a \o b
  BY DEF a, b, n, Quitado
<1>5. /\ t \in Seq(S) /\ Len(t) = n - 1 /\ DOMAIN t = 1..(n - 1)
      /\ \A k \in 1..(i - 1) : t[k] = s[k]
      /\ \A k \in i..(n - 1) : t[k] = s[k + 1]
  <2>1. /\ t \in Seq(S) /\ Len(t) = Len(a) + Len(b)
        /\ \A k \in 1..(Len(a) + Len(b)) : t[k] = IF k <= Len(a) THEN a[k] ELSE b[k - Len(a)]
    BY <1>2, <1>3, <1>4, ConcatProperties
  <2>2. Len(t) = n - 1 /\ DOMAIN t = 1..(n - 1)
    BY <1>1, <1>2, <1>3, <2>1, LenProperties
  <2>3. ASSUME NEW k \in 1..(i - 1) PROVE t[k] = s[k]
    BY <1>1, <1>2, <1>3, <2>1
  <2>4. ASSUME NEW k \in i..(n - 1) PROVE t[k] = s[k + 1]
    <3>1. k - (i - 1) \in 1..(n - i) /\ (k - (i - 1)) + i = k + 1
      BY <1>1
    <3>2. t[k] = b[k - (i - 1)]
      BY <1>1, <1>2, <1>3, <2>1
    <3> QED
      BY <1>3, <3>1, <3>2
  <2> QED
    BY <2>1, <2>2, <2>3, <2>4
<1> HIDE DEF t
<1>6. ASSUME Distintos(s) PROVE Distintos(t) /\ Range(t) = Range(s) \ {s[i]}
  <2>1. \A k \in DOMAIN t : \E m \in DOMAIN s : /\ t[k] = s[m] /\ m # i
                                                /\ m = IF k < i THEN k ELSE k + 1
    BY <1>1, <1>5
  <2>2. ASSUME NEW j \in DOMAIN t, NEW k \in DOMAIN t, t[j].id = t[k].id PROVE j = k
    <3>1. PICK m \in DOMAIN s : t[j] = s[m] /\ m = IF j < i THEN j ELSE j + 1
      BY <2>1
    <3>2. PICK q \in DOMAIN s : t[k] = s[q] /\ q = IF k < i THEN k ELSE k + 1
      BY <2>1
    <3>3. m = q
      BY <1>6, <2>2, <3>1, <3>2 DEF Distintos
    <3>4. j \in Nat /\ k \in Nat /\ i \in Nat
      BY <1>1, <1>5
    <3> QED
      BY <3>1, <3>2, <3>3, <3>4
  <2>3. Range(t) \subseteq Range(s) \ {s[i]}
    BY <1>6, <2>1 DEF Range, Distintos
  <2>4. ASSUME NEW m \in DOMAIN s, m # i PROVE s[m] \in Range(t)
    <3>1. m < i \/ m > i
      BY <1>1, <2>4
    <3>2. CASE m < i
      BY <1>1, <1>5, <3>2 DEF Range
    <3>3. CASE m > i
      <4>1. m - 1 \in i..(n - 1) /\ (m - 1) + 1 = m
        BY <1>1, <3>3
      <4>2. t[m - 1] = s[m] /\ m - 1 \in DOMAIN t
        BY <1>1, <1>5, <4>1
      <4> QED
        BY <4>2 DEF Range
    <3> QED
      BY <3>1, <3>2, <3>3
  <2> QED
    BY <2>2, <2>3, <2>4 DEF Range, Distintos
<1>7. s[i] \in S /\ n > 0 /\ s[i] \in Range(s)
  BY <1>1 DEF Range
<1> QED
  BY <1>5, <1>6, <1>7 DEF t, n

\* What the scheduler and the CPU have in their hands when they push.
LEMMA CargasSRT ==
  ASSUME TypeOK
  PROVE  /\ cp.en \in CpConPCB => cp.pcb \in PCB
         /\ cpu.en # "libre" =>
              /\ cpu.pcb \in PCB /\ cpu.pcb # NULO
              /\ \A i \in {"EXIT", "DESALOJO"} :
                   [instruccion |-> i, pcb |-> cpu.pcb] \in Syscalls
              /\ cpu.pcb.pc < MaxIO =>
                   /\ [cpu.pcb EXCEPT !.pc = @ + 1] \in PCB
                   /\ [cpu.pcb EXCEPT !.pc = @ + 1].id = cpu.pcb.id
                   /\ [instruccion |-> "IO", pcb |-> [cpu.pcb EXCEPT !.pc = @ + 1]] \in Syscalls
<1> USE KernelAssumption, NuloAssumption DEF KernelAssumption, NuloAssumption
<1>1. cp.en \in CpConPCB => cp.pcb \in PCB
  BY DEF TypeOK
<1>2. ASSUME cpu.en # "libre" PROVE cpu.pcb \in PCB /\ cpu.pcb # NULO
  BY <1>2 DEF TypeOK
<1>3. ASSUME cpu.en # "libre", NEW i \in {"EXIT", "DESALOJO"}
      PROVE  [instruccion |-> i, pcb |-> cpu.pcb] \in Syscalls
  BY <1>2, <1>3 DEF Syscalls
<1>4. ASSUME cpu.en # "libre", cpu.pcb.pc < MaxIO
      PROVE  /\ [cpu.pcb EXCEPT !.pc = @ + 1] \in PCB
             /\ [cpu.pcb EXCEPT !.pc = @ + 1].id = cpu.pcb.id
  BY <1>2, <1>4 DEF PCB
<1>5. ASSUME NEW x \in PCB PROVE [instruccion |-> "IO", pcb |-> x] \in Syscalls
  BY DEF Syscalls
<1> QED
  BY <1>1, <1>2, <1>3, <1>4, <1>5

\* The types of what the kernel has, of the scheduler and of the CPU.
TipoSRT ==
  /\ cp \in [en: {"ready", "elegir", "sacar"} \cup CpConPCB, pcb: PCB \cup {NULO}]
  /\ cp.pcb \in PCB <=> cp.en \in CpConPCB
  /\ ejecucion \in Procesos \cup {NULO}
  /\ interrupciones \in Nat
  /\ cpu \in [en: {"libre", "listo", "chequear"}, pcb: PCB \cup {NULO}]
  /\ cpu.pcb \in PCB <=> cpu.en # "libre"
  /\ {interrupcion, syscall_bloqueante, limpiando, doble_envio, lista_rota} \subseteq BOOLEAN
  /\ anomalias \subseteq {"interrupcion_tardia", "asignacion_tardia", "aviso_ajeno"}

LEMMA TiposPorPartes == TypeOK <=> KernelTypeOK /\ TipoSRT
  BY DEF TypeOK, TipoSRT
LEMMA TiposPorPartesDespues == (TypeOK <=> KernelTypeOK /\ TipoSRT)'
  BY TiposPorPartes, PTL

\* What changes in the kernel when the scheduler or the CPU takes a step.
LEMMA TiposDelPlanificador ==
  ASSUME TypeOK, \/ HiloReadyAExecuting
                 \/ HiloSyscallSRT
                 \/ CpuRecibir \/ HiloExecuter \/ RecibirInterrupcion
  PROVE  KernelTypeOK'
<1> USE Estables, CargasSRT DEF TypeOK, KernelTypeOK
<1>1. CASE EsperarReady \/ EsperarDesalojo
  <2>1. sem' \in [Semaforos -> Nat]
    BY <1>1, SemTipo DEF EsperarReady, EsperarDesalojo, Semaforos
  <2> QED
    BY <1>1, <2>1 DEF EsperarReady, EsperarDesalojo
<1>2. CASE \/ NadaEnReady \/ Permanece \/ ElegirOtro \/ SinInterrumpir \/ Interrumpir \/ Asignar
           \/ ChequearSyscall \/ ChequearNada \/ LimpiarInterrupcion \/ RecibirInterrupcion
  BY <1>2 DEF NadaEnReady, Permanece, ElegirOtro, SinInterrumpir, Interrumpir, Asignar,
     ChequearSyscall, ChequearNada, LimpiarInterrupcion, RecibirInterrupcion, kernel_vars
<1>3. CASE Sacar
  <2>1. cola_ready' \in Seq(PCB)
    <3>1. cola_ready' = cola_ready \/ \E i \in DOMAIN cola_ready : cola_ready' = Quitado(cola_ready, i)
      BY <1>3 DEF Sacar, Quitado
    <3> QED
      BY <3>1, Quitar DEF TipoColas
  <2>2. TipoColas' /\ TipoCarrera'
    BY <1>3, <2>1 DEF Sacar, TipoColas, TipoCarrera
  <2> QED
    BY <1>3, <2>2 DEF Sacar
<1>4. CASE Enviar
  <2>1. cp.pcb \in PCB
    BY <1>4 DEF Enviar, CpConPCB
  <2>2. TipoCpu'
    BY <1>4, <2>1, ColaPush DEF Enviar, TipoCpu
  <2> QED
    BY <1>4, <2>2 DEF Enviar
<1>5. CASE LiberarEjecucion
  <2>1. TipoSc'
    BY <1>5 DEF LiberarEjecucion, TipoSc, ScConPCB
  <2> QED
    BY <1>5, <2>1 DEF LiberarEjecucion
<1>6. CASE AgregarDesalojado
  <2>1. sc.pcb \in PCB
    BY <1>6 DEF AgregarDesalojado, TipoSc, ScConPCB
  <2>2. TipoColas'
    BY <1>6, <2>1, ColaPush DEF AgregarDesalojado, TipoColas
  <2>3. TipoSc'
    BY <1>6 DEF AgregarDesalojado, TipoSc, ScConPCB
  <2> QED
    BY <1>6, <2>2, <2>3 DEF AgregarDesalojado
<1>7. CASE AvisarReadySyscall
  <2>1. sem' \in [Semaforos -> Nat]
    BY <1>7, SemTipo DEF AvisarReadySyscall, Semaforos
  <2>2. TipoSc'
    BY <1>7 DEF AvisarReadySyscall, TipoSc, ScConPCB, En
  <2> QED
    BY <1>7, <2>1, <2>2 DEF AvisarReadySyscall
<1>8. CASE CpuRecibir
  <2>1. TipoCpu'
    BY <1>8, ColaPop DEF CpuRecibir, TipoCpu
  <2> QED
    BY <1>8, <2>1 DEF CpuRecibir
<1>9. CASE CpuInstruccion
  <2>1. TipoSockets'
    BY <1>9 DEF CpuInstruccion, TipoSockets
  <2> QED
    BY <1>9, <2>1 DEF CpuInstruccion
<1>10. ASSUME NEW m \in Syscalls, syscalls' = Append(syscalls, m),
              UNCHANGED <<sockets, dispatch, colas, sem, rp, lp, sc, io, suspension, carrera>>
       PROVE  KernelTypeOK'
  <2>1. TipoCpu'
    BY <1>10, ColaPush DEF TipoCpu
  <2> QED
    BY <1>10, <2>1
<1>11. CASE CpuIO
  BY <1>10, <1>11 DEF CpuIO, CpuSyscall, PuedeEjecutar
<1>12. CASE CpuExit
  BY <1>10, <1>12 DEF CpuExit, CpuSyscall, PuedeEjecutar
<1>13. CASE ChequearInterrupcion
  BY <1>10, <1>13 DEF ChequearInterrupcion
<1> QED
  BY <1>1, <1>2, <1>3, <1>4, <1>5, <1>6, <1>7, <1>8, <1>9, <1>11, <1>12, <1>13
     DEF HiloReadyAExecuting, HiloSyscallSRT, HiloExecuter

\* ... and in the scheduler and the CPU.
LEMMA PasoTipoSRT ==
  ASSUME TypeOK, [Next]_vars
  PROVE  TipoSRT'
<1> USE CargasSRT, NuloAssumption DEF NuloAssumption, CpConPCB, En
<1>a. ASSUME NEW a \in {"interrupcion_tardia", "asignacion_tardia", "aviso_ajeno"},
             NEW b, Anotar(a, b)
      PROVE  anomalias' \subseteq {"interrupcion_tardia", "asignacion_tardia", "aviso_ajeno"}
  BY <1>a DEF Anotar, TypeOK
<1>b. /\ interrupcion \in BOOLEAN /\ syscall_bloqueante \in BOOLEAN /\ limpiando \in BOOLEAN
      /\ doble_envio \in BOOLEAN /\ lista_rota \in BOOLEAN
  BY DEF TypeOK
<1>cp. ASSUME UNCHANGED cpu_srt,
              /\ cp' \in [en: {"ready", "elegir", "sacar"} \cup CpConPCB, pcb: PCB \cup {NULO}]
              /\ cp'.pcb \in PCB <=> cp'.en \in CpConPCB,
              ejecucion' \in Procesos \cup {NULO}, lista_rota' \in BOOLEAN,
              anomalias' \subseteq {"interrupcion_tardia", "asignacion_tardia", "aviso_ajeno"}
       PROVE  TipoSRT'
  BY <1>cp DEF TypeOK, TipoSRT, cpu_srt
<1>cpu. ASSUME UNCHANGED <<cp, ejecucion, lista_rota>>,
              /\ cpu' \in [en: {"libre", "listo", "chequear"}, pcb: PCB \cup {NULO}]
              /\ cpu'.pcb \in PCB <=> cpu'.en # "libre",
              interrupciones' \in Nat,
              interrupcion' \in BOOLEAN, syscall_bloqueante' \in BOOLEAN,
              limpiando' \in BOOLEAN, doble_envio' \in BOOLEAN,
              anomalias' \subseteq {"interrupcion_tardia", "asignacion_tardia", "aviso_ajeno"}
       PROVE  TipoSRT'
  BY <1>cpu DEF TypeOK, TipoSRT
<1>0. ASSUME UNCHANGED srt_vars PROVE TipoSRT'
  BY <1>0 DEF srt_vars, cpu_srt, TypeOK, TipoSRT
<1>1. CASE HiloReadyAExecuting
  <2>1. CASE \/ EsperarReady \/ NadaEnReady \/ Permanece \/ ElegirOtro
             \/ SinInterrumpir \/ Enviar
    BY <1>cp, <2>1 DEF EsperarReady, NadaEnReady, Permanece, ElegirOtro,
       SinInterrumpir, Enviar, TypeOK
  <2>2. CASE EsperarDesalojo
    BY <1>cp, <1>a, <2>2 DEF EsperarDesalojo, TypeOK
  <2>3. CASE Asignar
    <3>1. cp.pcb.id \in Procesos
      BY <2>3 DEF Asignar, PCB
    <3> QED
      BY <1>cp, <1>a, <2>3, <3>1 DEF Asignar, TypeOK
  <2>4. CASE Interrumpir
    <3>1. anomalias' \subseteq {"interrupcion_tardia", "asignacion_tardia", "aviso_ajeno"}
      BY <1>a, <2>4 DEF Interrumpir
    <3> QED
      BY <2>4, <3>1 DEF Interrumpir, TypeOK, TipoSRT
  <2>5. CASE Sacar
    <3>1. lista_rota' \in BOOLEAN
      BY <1>b, <2>5 DEF Sacar
    <3>2. \A i \in DOMAIN cola_ready : cola_ready[i] \in PCB
      BY Quitar DEF TypeOK, KernelTypeOK, TipoColas
    <3> QED
      BY <1>cp, <2>5, <3>1, <3>2 DEF Sacar, TypeOK
  <2> QED
    BY <1>1, <2>1, <2>2, <2>3, <2>4, <2>5 DEF HiloReadyAExecuting
<1>2. CASE HiloSyscallSRT
  <2>1. lista_rota' \in BOOLEAN
    BY <1>b, <1>2 DEF HiloSyscallSRT, LiberarEjecucion, AgregarDesalojado, AvisarReadySyscall
  <2> QED
    BY <1>cp, <1>2, <2>1
       DEF HiloSyscallSRT, LiberarEjecucion, AgregarDesalojado, AvisarReadySyscall, TypeOK
<1>3. CASE CpuRecibir
  <2>1. Head(dispatch) \in PCB
    BY <1>3, ColaPop DEF CpuRecibir, TypeOK, KernelTypeOK, TipoCpu
  <2> QED
    BY <1>cpu, <1>b, <1>3, <2>1 DEF CpuRecibir, TypeOK
<1>4. CASE HiloExecuter
  <2>1. CASE CpuInstruccion \/ ChequearNada
    BY <1>cpu, <1>b, <2>1 DEF CpuInstruccion, ChequearNada, PuedeEjecutar, TypeOK
  <2>2. CASE CpuIO \/ CpuExit
    <3>1. anomalias' \subseteq {"interrupcion_tardia", "asignacion_tardia", "aviso_ajeno"}
      BY <1>a, <2>2 DEF CpuIO, CpuExit, CpuSyscall
    <3>2. /\ PuedeEjecutar /\ cpu' = [cpu EXCEPT !.en = "chequear"] /\ syscall_bloqueante' = TRUE
          /\ UNCHANGED <<cp, ejecucion, interrupciones, interrupcion, limpiando, doble_envio,
                         lista_rota>>
      BY <2>2 DEF CpuIO, CpuExit, CpuSyscall
    <3>3. /\ cpu' \in [en: {"libre", "listo", "chequear"}, pcb: PCB \cup {NULO}]
          /\ cpu'.pcb \in PCB <=> cpu'.en # "libre"
      BY <3>2 DEF PuedeEjecutar, TypeOK
    <3> QED
      BY <1>cpu, <1>b, <3>1, <3>2, <3>3 DEF TypeOK
  <2>3. CASE ChequearInterrupcion
    BY <1>cpu, <1>b, <2>3 DEF ChequearInterrupcion, TypeOK
  <2>4. CASE ChequearSyscall
    BY <1>cpu, <1>b, <2>4 DEF ChequearSyscall, TypeOK
  <2>5. CASE LimpiarInterrupcion
    BY <1>cpu, <1>b, <2>5 DEF LimpiarInterrupcion, TypeOK
  <2> QED
    BY <1>4, <2>1, <2>2, <2>3, <2>4, <2>5 DEF HiloExecuter
<1>5. CASE RecibirInterrupcion
  BY <1>cpu, <1>b, <1>5 DEF RecibirInterrupcion, TypeOK
<1>6. CASE UNCHANGED vars
  BY <1>0, <1>6 DEF vars
<1> QED
  BY <1>0, <1>1, <1>2, <1>3, <1>4, <1>5, <1>6 DEF Next

\* Every step keeps the types.
LEMMA NextTypeOK == TypeOK /\ [Next]_vars => TypeOK'
<1> SUFFICES ASSUME TypeOK, [Next]_vars PROVE KernelTypeOK'
  BY PasoTipoSRT, TiposPorPartesDespues
<1>1. CASE DelKernel
  BY <1>1, DelKernelTypeOK DEF TypeOK
<1>2. CASE UNCHANGED vars
  BY <1>2, Estables DEF vars, kernel_vars, TypeOK, KernelTypeOK
<1> QED
  BY <1>1, <1>2, TiposDelPlanificador DEF Next

-----------------------------------------------------------------------------
\* Accounting

LEMMA NaturalesSRT == LugarCp \in Nat /\ LugarCpu \in Nat
  BY DEF LugarCp, LugarCpu, Uno

\* Every term of the accounts is a number, before a step and after it.
LEMMA NaturalesDespues == (KernelTypeOK => NatNew /\ NatReady /\ NatBlocked /\ NatCPU /\ NatGrado)'
  BY Naturales, PTL

\* The places the scheduler and the CPU pass from one to the other, and the rest.
DePaso == Len(cola_ready) + Len(dispatch) + Len(syscalls) + LugarSc + LugarCp + LugarCpu
DelResto == LugarLp + Len(cola_blocked) + LugarIo + Perdido + sem["grado_multiprogramacion"]
Plazas == PlazasDelKernel + LugarCp + LugarCpu

\* What the kernel keeps by itself, and what the scheduler and the CPU add.
LEMMA CuentasPorPartes ==
  TypeOK => (Cuentas <=> /\ CuentasDelKernel /\ HayParaElegir /\ Banderas
                         /\ ~doble_envio =>
                              Plazas = GRADO_MULTIPROGRAMACION)
<1> SUFFICES ASSUME TypeOK
             PROVE  GradoRespetado <=>
                      (~doble_envio =>
                         Plazas = GRADO_MULTIPROGRAMACION)
  BY DEF Cuentas, CuentasDelKernel, CaidaSoloPorCarrera
<1>1. NatGrado
  BY Naturales DEF TypeOK
<1> QED
  BY <1>1, NaturalesSRT DEF GradoRespetado, LugaresOcupados, Plazas, PlazasDelKernel, NatGrado

LEMMA CuentasPorPartesDespues ==
  (TypeOK => (Cuentas <=> /\ CuentasDelKernel /\ HayParaElegir /\ Banderas
                          /\ ~doble_envio =>
                               Plazas = GRADO_MULTIPROGRAMACION))'
  BY CuentasPorPartes, PTL

\* The threads of the kernel take nothing from lista_ready.
LEMMA ReadySoloCrece ==
  ASSUME KernelTypeOK, DelKernel, cola_ready # <<>>
  PROVE  cola_ready' # <<>>
<1>1. CASE EncolarReady
  BY <1>1, ColaPush DEF EncolarReady, KernelTypeOK, TipoColas, TipoLp, LpConPCB
<1>2. CASE PasarAReady
  BY <1>2, ColaPush DEF PasarAReady, KernelTypeOK, TipoColas, TipoIo, IoConPCB
<1>3. CASE HiloRecibirProcesos \/ AtenderPedido \/ \E b \in Bloqueos : Suspensor(b)
  BY <1>3 DEF HiloRecibirProcesos, RecibirProceso, AvisarNew, AtenderPedido, Suspensor,
     Despertar, Cancelar, TomarSuspendiendo, PedirSuspension, RecibirSuspension, colas
<1>4. CASE \/ EsperarProceso \/ TomarGrado \/ SacarDeNew \/ SacarDeSuspendedReady
           \/ PedirTablas \/ RecibirTablas \/ AvisarReady
  BY <1>4 DEF EsperarProceso, TomarGrado, SacarDeNew, SacarDeSuspendedReady, PedirTablas,
     RecibirTablas, AvisarReady, colas
<1>5. CASE HiloSyscall
  BY <1>5 DEF HiloSyscall, RecibirSyscall, BuscarUltimo, EnlazarBloqueado, CrearSuspensor,
     AvisarIO, LiberarGrado, PedirFin, RecibirFin, ResponderConsola, colas
<1>6. CASE \/ TomarBloqueado \/ TerminarIO \/ PasarASuspendedReady \/ LiberarGradoSuspendido
           \/ AvisarSuspendedReady \/ AvisarReadyIO \/ SoltarSuspendiendo
  BY <1>6 DEF TomarBloqueado, TerminarIO, PasarASuspendedReady, LiberarGradoSuspendido,
     AvisarSuspendedReady, AvisarReadyIO, SoltarSuspendiendo, colas
<1> QED
  BY <1>1, <1>2, <1>3, <1>4, <1>5, <1>6 DEF DelKernel, HiloPasarAReady, HiloIO

\* Only the scheduler takes from the list, and not before it has sacado somebody.
LEMMA PasoHayParaElegir ==
  ASSUME TypeOK, HayParaElegir, Next
  PROVE  HayParaElegir'
<1>t. cp \in [en: {"ready", "elegir", "sacar"} \cup CpConPCB, pcb: PCB \cup {NULO}]
  BY DEF TypeOK
<1> USE DEF HayParaElegir, En
<1>1. CASE DelKernel /\ UNCHANGED srt_vars
  BY <1>1, ReadySoloCrece DEF TypeOK, srt_vars
<1>2. CASE HiloReadyAExecuting
  <2>1. cp'.en = "sacar" => cola_ready # <<>> /\ cola_ready' = cola_ready
    <3>1. CASE ElegirOtro
      <4>1. PICK pcb \in {cola_ready[i] : i \in DOMAIN cola_ready} : TRUE
        BY <3>1 DEF ElegirOtro
      <4>2. DOMAIN cola_ready # {}
        BY <4>1
      <4>3. cola_ready # <<>>
        BY <4>2, Vacio
      <4>4. UNCHANGED cola_ready
        BY <3>1 DEF ElegirOtro, kernel_vars, colas
      <4> QED
        BY <4>3, <4>4
    <3>2. CASE Sacar
      BY <3>2 DEF Sacar
    <3>3. CASE \/ EsperarReady \/ NadaEnReady \/ Permanece \/ SinInterrumpir \/ Interrumpir
               \/ EsperarDesalojo \/ Enviar \/ Asignar
      <4>1. cp'.en # "sacar"
        <5>1. CASE EsperarReady \/ NadaEnReady \/ Permanece \/ Asignar
          BY <5>1 DEF EsperarReady, NadaEnReady, Permanece, Asignar
        <5>2. CASE SinInterrumpir \/ Interrumpir \/ EsperarDesalojo \/ Enviar
          BY <1>t, <5>2 DEF SinInterrumpir, Interrumpir, EsperarDesalojo, Enviar
        <5> QED
          BY <3>3, <5>1, <5>2
      <4> QED
        BY <4>1
    <3> QED
      BY <1>2, <3>1, <3>2, <3>3 DEF HiloReadyAExecuting
  <2> QED
    BY <2>1
<1>3. CASE AgregarDesalojado
  <2>1. cola_ready' # <<>>
    BY <1>3, ColaPush DEF AgregarDesalojado, TypeOK, KernelTypeOK, TipoColas, TipoSc, ScConPCB
  <2> QED
    BY <2>1
<1>4. CASE \/ LiberarEjecucion \/ AvisarReadySyscall
           \/ CpuRecibir \/ HiloExecuter \/ RecibirInterrupcion
  <2>1. UNCHANGED <<cp, cola_ready>>
    BY <1>4 DEF LiberarEjecucion, AvisarReadySyscall, CpuRecibir, HiloExecuter, CpuInstruccion,
       CpuIO, CpuExit, CpuSyscall, ChequearInterrupcion, ChequearSyscall, ChequearNada,
       LimpiarInterrupcion, RecibirInterrupcion, kernel_vars, colas
  <2> QED
    BY <2>1
<1> QED
  BY <1>1, <1>2, <1>3, <1>4 DEF Next, HiloSyscallSRT

\* The flags of the executer belong to the check they were raised before.
LEMMA PasoBanderas ==
  ASSUME TypeOK, Banderas, Next
  PROVE  Banderas'
<1> USE DEF Banderas
<1>1. CASE \/ DelKernel /\ UNCHANGED srt_vars
           \/ HiloReadyAExecuting \/ HiloSyscallSRT \/ RecibirInterrupcion
  <2>1. UNCHANGED <<cpu, syscall_bloqueante, limpiando, doble_envio>>
    BY <1>1 DEF srt_vars, cpu_srt, HiloReadyAExecuting, EsperarReady, NadaEnReady, Permanece,
       ElegirOtro, Sacar, SinInterrumpir, Interrumpir, EsperarDesalojo, Enviar, Asignar,
       HiloSyscallSRT, LiberarEjecucion, AgregarDesalojado, AvisarReadySyscall,
       RecibirInterrupcion
  <2> QED
    BY <2>1
<1>2. CASE CpuRecibir
  BY <1>2 DEF CpuRecibir, En, Next, EnPie
<1>3. CASE CpuInstruccion \/ CpuIO \/ CpuExit
  <2>1. cpu'.en = "chequear" /\ ~limpiando /\ limpiando' = limpiando
    BY <1>3 DEF CpuInstruccion, CpuIO, CpuExit, CpuSyscall, PuedeEjecutar, TypeOK
  <2> QED
    BY <2>1
<1>4. CASE ChequearInterrupcion \/ ChequearSyscall \/ ChequearNada
  <2>1. cpu'.en # "chequear" /\ (syscall_bloqueante' => doble_envio')
    BY <1>4 DEF ChequearInterrupcion, ChequearSyscall, ChequearNada, En, TypeOK
  <2> QED
    BY <2>1
<1>5. CASE LimpiarInterrupcion
  BY <1>5 DEF LimpiarInterrupcion
<1> QED
  BY <1>1, <1>2, <1>3, <1>4, <1>5 DEF Next, HiloExecuter

\* What the accounts of the kernel do not look at.
LEMMA CuentasAjenas ==
  ASSUME CuentasDelKernel,
         UNCHANGED <<cola_new, cola_blocked, cola_suspended_ready, rp, lp, io, cola_rota, caido>>,
         sem'["procesos_para_ready"] = sem["procesos_para_ready"],
         sem'["proceso_en_io"] = sem["proceso_en_io"],
         UNCHANGED sc \/ {sc.en, sc'.en} \cap {"crear_suspensor", "avisar_io", "enlazar"} = {}
  PROVE  CuentasDelKernel'
<1>1. /\ NewDeLp' = NewDeLp /\ NewDeRp' = NewDeRp /\ NewDeIo' = NewDeIo
      /\ BlockedDeSc' = BlockedDeSc
  BY DEF NewDeLp, NewDeRp, NewDeIo, BlockedDeSc, Uno
<1> QED
  BY <1>1 DEF CuentasDelKernel, CuentaNew, HayParaSacar, CuentaBlocked, UnaSolaRotura

LEMMA SumaDeNueve ==
  ASSUME NEW a \in Nat, NEW b \in Nat, NEW c \in Nat, NEW d \in Nat, NEW e \in Nat,
         NEW f \in Nat, NEW g \in Nat, NEW h \in Nat, NEW i \in Nat,
         NEW x \in Nat, NEW y \in Nat
  PROVE  (a + b + c + d + e + f + g + h + i) + x + y = (b + c + d + e + x + y) + (a + f + g + h + i)
  OBVIOUS

LEMMA PlazasPorPartes ==
  TypeOK => Plazas = DePaso + DelResto /\ DePaso \in Nat /\ DelResto \in Nat
<1> SUFFICES ASSUME TypeOK
             PROVE  Plazas = DePaso + DelResto /\ DePaso \in Nat /\ DelResto \in Nat
  OBVIOUS
<1>1. NatGrado
  BY Naturales DEF TypeOK
<1>2. /\ LugarLp \in Nat /\ Len(cola_ready) \in Nat /\ Len(dispatch) \in Nat
      /\ Len(syscalls) \in Nat /\ LugarSc \in Nat /\ Len(cola_blocked) \in Nat
      /\ LugarIo \in Nat /\ Perdido \in Nat /\ sem["grado_multiprogramacion"] \in Nat
  BY <1>1 DEF NatGrado
<1>3. Plazas = DePaso + DelResto
  BY <1>2, NaturalesSRT, SumaDeNueve DEF Plazas, PlazasDelKernel, DePaso, DelResto
<1>4. DePaso \in Nat
  BY <1>2, NaturalesSRT DEF DePaso
<1>5. DelResto \in Nat
  BY <1>2 DEF DelResto
<1> QED
  BY <1>3, <1>4, <1>5

LEMMA PlazasPorPartesDespues ==
  (TypeOK => Plazas = DePaso + DelResto /\ DePaso \in Nat /\ DelResto \in Nat)'
  BY PlazasPorPartes, PTL

\* A step that only passes places on keeps all the accounts.
LEMMA PasarPlazas ==
  ASSUME TypeOK, TypeOK', CuentasDelKernel,
         UNCHANGED <<cola_new, cola_blocked, cola_suspended_ready, rp, lp, io,
                     cola_rota, caido>>,
         \A s \in Semaforos \ {"procesos_en_ready"} : sem'[s] = sem[s],
         UNCHANGED sc \/ {sc.en, sc'.en} \cap {"crear_suspensor", "avisar_io", "enlazar"} = {},
         ~doble_envio' => DePaso' = DePaso
  PROVE  CuentasDelKernel' /\ (~doble_envio' => Plazas' = Plazas)
<1>1. /\ sem'["procesos_para_ready"] = sem["procesos_para_ready"]
      /\ sem'["proceso_en_io"] = sem["proceso_en_io"]
      /\ sem'["grado_multiprogramacion"] = sem["grado_multiprogramacion"]
  BY DEF Semaforos
<1>2. CuentasDelKernel'
  BY <1>1, CuentasAjenas
<1>3. DelResto' = DelResto
  BY <1>1, CuentasEstables DEF DelResto
<1> QED
  BY <1>2, <1>3, PlazasPorPartes, PlazasPorPartesDespues

\* The steps of the scheduler and of the CPU keep the accounts.
LEMMA PasoCuentasSRT ==
  ASSUME TypeOK, TypeOK', Cuentas, EnPie,
         \/ HiloReadyAExecuting \/ HiloSyscallSRT
         \/ CpuRecibir \/ HiloExecuter \/ RecibirInterrupcion
  PROVE  CuentasDelKernel' /\ (~doble_envio' => Plazas' = Plazas)
<1> DEFINE Meta == CuentasDelKernel' /\ (~doble_envio' => Plazas' = Plazas)
<1> SUFFICES Meta
  OBVIOUS
<1>c. CuentasDelKernel /\ HayParaElegir /\ Banderas /\ ~doble_envio
  BY CuentasPorPartes DEF EnPie
<1>n. /\ Len(cola_ready) \in Nat /\ Len(dispatch) \in Nat /\ Len(syscalls) \in Nat
      /\ LugarSc \in Nat /\ LugarCp \in Nat /\ LugarCpu \in Nat
  BY Naturales, NaturalesSRT DEF TypeOK, NatGrado
<1>e. /\ UNCHANGED sc => LugarSc' = LugarSc
      /\ UNCHANGED cp => LugarCp' = LugarCp
      /\ UNCHANGED <<cpu, syscall_bloqueante>> => LugarCpu' = LugarCpu
  BY DEF LugarSc, LugarCp, LugarCpu
<1>t. cp \in [en: {"ready", "elegir", "sacar"} \cup CpConPCB, pcb: PCB \cup {NULO}]
  BY DEF TypeOK
<1> HIDE DEF Meta
\* Nothing the accounts look at changes but what passes from one to another.
<1>p. ASSUME UNCHANGED <<cola_new, cola_blocked, cola_suspended_ready, rp, lp, io,
                         cola_rota, caido>>,
             \A s \in Semaforos \ {"procesos_en_ready"} : sem'[s] = sem[s],
             UNCHANGED sc \/ {sc.en, sc'.en} \cap {"crear_suspensor", "avisar_io", "enlazar"} = {},
             ~doble_envio' => DePaso' = DePaso
      PROVE  Meta
  BY <1>c, <1>p, PasarPlazas DEF Meta
<1>s. ASSUME sem_wait("procesos_en_ready") \/ sem_post("procesos_en_ready")
      PROVE  \A s \in Semaforos \ {"procesos_en_ready"} : sem'[s] = sem[s]
  BY <1>s DEF sem_wait, sem_post, TypeOK, KernelTypeOK
<1>k. ASSUME UNCHANGED <<colas, rp, lp, io, sc, carrera>>,
             \A s \in Semaforos \ {"procesos_en_ready"} : sem'[s] = sem[s],
             ~doble_envio' => DePaso' = DePaso
      PROVE  Meta
  BY <1>k, <1>p DEF colas, carrera
<1> USE DEF colas, cpu_vars, carrera, kernel_vars
<1>1. CASE EsperarReady \/ EsperarDesalojo
  <2>1. sem_wait("procesos_en_ready") /\ LugarCp' = LugarCp
    <3>1. CASE EsperarReady
      BY <3>1 DEF EsperarReady, LugarCp, En
    <3>2. CASE EsperarDesalojo
      BY <1>t, <3>2 DEF EsperarDesalojo, LugarCp
    <3> QED
      BY <1>1, <3>1, <3>2
  <2>2. UNCHANGED <<colas, cpu_vars, rp, lp, io, sc, carrera, cpu, syscall_bloqueante>>
    BY <1>1 DEF EsperarReady, EsperarDesalojo, cpu_srt
  <2>3. DePaso' = DePaso
    BY <1>e, <2>1, <2>2 DEF DePaso
  <2> QED
    BY <1>k, <1>s, <2>1, <2>2, <2>3
<1>2. CASE \/ NadaEnReady \/ Permanece \/ ElegirOtro \/ SinInterrumpir \/ Interrumpir \/ Asignar
  <2>1. LugarCp' = LugarCp
    BY <1>2, <1>t DEF NadaEnReady, Permanece, ElegirOtro, SinInterrumpir, Interrumpir, Asignar,
       LugarCp, En
  <2>2. UNCHANGED <<kernel_vars, cpu, syscall_bloqueante>>
    BY <1>2 DEF NadaEnReady, Permanece, ElegirOtro, SinInterrumpir, Interrumpir, Asignar, cpu_srt
  <2>3. DePaso' = DePaso
    BY <1>e, <2>1, <2>2 DEF DePaso
  <2> QED
    BY <1>k, <2>2, <2>3
<1>3. CASE Sacar
  <2>1. /\ LugarCp = 0 /\ LugarCp' = 1 /\ Len(cola_ready') = Len(cola_ready) - 1
        /\ UNCHANGED caido
    <3>1. PICK i \in DOMAIN cola_ready :
            cp' = En("interrumpir", cola_ready[i]) /\ cola_ready' = Quitado(cola_ready, i)
      BY <1>3, <1>c DEF Sacar, Quitado, HayParaElegir
    <3>2. Len(cola_ready') = Len(cola_ready) - 1 /\ cola_ready # <<>>
      BY <3>1, Quitar, Vacio DEF TypeOK, KernelTypeOK, TipoColas
    <3> QED
      BY <1>3, <3>1, <3>2 DEF Sacar, LugarCp, Uno, En
  <2>2. UNCHANGED <<cola_new, cola_blocked, cola_suspended_ready, cpu_vars, rp, lp, io, sc,
                    sem, cola_rota, cpu, syscall_bloqueante>>
    BY <1>3 DEF Sacar, cpu_srt
  <2>3. UNCHANGED <<dispatch, syscalls>> /\ LugarSc' = LugarSc /\ LugarCpu' = LugarCpu
    BY <1>e, <2>2
  <2>4. DePaso' = DePaso
    BY <1>n, <2>1, <2>3 DEF DePaso
  <2> QED
    BY <1>p, <2>1, <2>2, <2>4
<1>4. CASE Enviar
  <2>1. LugarCp = 1 /\ LugarCp' = 0 /\ Len(dispatch') = Len(dispatch) + 1
    BY <1>4, CargasSRT, ColaPush
       DEF Enviar, LugarCp, Uno, CpConPCB, TypeOK, KernelTypeOK, TipoCpu
  <2>2. UNCHANGED <<colas, syscalls, rp, lp, io, sc, sem, carrera, cpu, syscall_bloqueante>>
    BY <1>4 DEF Enviar, cpu_srt
  <2>3. DePaso' = DePaso
    BY <1>e, <1>n, <2>1, <2>2 DEF DePaso
  <2> QED
    BY <1>k, <2>2, <2>3
<1>5. CASE LiberarEjecucion \/ AvisarReadySyscall
  <2>1. LugarSc = 0 /\ LugarSc' = 0
    BY <1>5 DEF LiberarEjecucion, AvisarReadySyscall, LugarSc, Uno, En, TypeOK, KernelTypeOK, TipoSc
  <2>2. UNCHANGED <<colas, cpu_vars, rp, lp, io, carrera, cp, cpu, syscall_bloqueante>>
    BY <1>5 DEF LiberarEjecucion, AvisarReadySyscall, cpu_srt
  <2>3. \A s \in Semaforos \ {"procesos_en_ready"} : sem'[s] = sem[s]
    BY <1>5, <1>s DEF LiberarEjecucion, AvisarReadySyscall
  <2>4. {sc.en, sc'.en} \cap {"crear_suspensor", "avisar_io", "enlazar"} = {}
    BY <1>5 DEF LiberarEjecucion, AvisarReadySyscall, En, TypeOK, KernelTypeOK, TipoSc
  <2>5. DePaso' = DePaso
    BY <1>e, <2>1, <2>2 DEF DePaso
  <2> QED
    BY <1>p, <2>2, <2>3, <2>4, <2>5
<1>6. CASE AgregarDesalojado
  <2>1. LugarSc = 1 /\ LugarSc' = 0 /\ Len(cola_ready') = Len(cola_ready) + 1
    BY <1>6, ColaPush
       DEF AgregarDesalojado, LugarSc, Uno, TypeOK, KernelTypeOK, TipoSc, ScConPCB, TipoColas
  <2>2. UNCHANGED <<cola_new, cola_blocked, cola_suspended_ready, cpu_vars, rp, lp, io, sem,
                    carrera, cp, cpu, syscall_bloqueante>>
    BY <1>6 DEF AgregarDesalojado, cpu_srt
  <2>3. {sc.en, sc'.en} \cap {"crear_suspensor", "avisar_io", "enlazar"} = {}
    BY <1>6 DEF AgregarDesalojado, TypeOK, KernelTypeOK, TipoSc
  <2>4. DePaso' = DePaso
    BY <1>e, <1>n, <2>1, <2>2 DEF DePaso
  <2> QED
    BY <1>p, <2>2, <2>3, <2>4
<1>7. CASE CpuRecibir
  <2>1. LugarCpu = 0 /\ LugarCpu' = 1 /\ Len(dispatch') = Len(dispatch) - 1
    <3>1. Head(dispatch) # NULO /\ Len(dispatch') = Len(dispatch) - 1
      BY <1>7, ColaPop, NuloAssumption
         DEF CpuRecibir, TypeOK, KernelTypeOK, TipoCpu, NuloAssumption
    <3>2. ~syscall_bloqueante /\ cpu.pcb = NULO
      BY <1>7, <1>c DEF CpuRecibir, Banderas, TypeOK
    <3> QED
      BY <1>7, <3>1, <3>2 DEF CpuRecibir, LugarCpu, Uno, En
  <2>2. UNCHANGED <<colas, syscalls, rp, lp, io, sc, sem, carrera, cp>>
    BY <1>7 DEF CpuRecibir
  <2>3. DePaso' = DePaso
    BY <1>e, <1>n, <2>1, <2>2 DEF DePaso
  <2> QED
    BY <1>k, <2>2, <2>3
<1>8. CASE CpuInstruccion \/ ChequearNada \/ LimpiarInterrupcion \/ RecibirInterrupcion
  <2>1. LugarCpu' = LugarCpu
    BY <1>8 DEF CpuInstruccion, ChequearNada, LimpiarInterrupcion, RecibirInterrupcion,
       LugarCpu, PuedeEjecutar, TypeOK
  <2>2. UNCHANGED <<colas, cpu_vars, rp, lp, io, sc, sem, carrera, cp>>
    BY <1>8 DEF CpuInstruccion, ChequearNada, LimpiarInterrupcion, RecibirInterrupcion
  <2>3. DePaso' = DePaso
    BY <1>e, <2>1, <2>2 DEF DePaso
  <2> QED
    BY <1>k, <2>2, <2>3
<1>9. ASSUME NEW m \in Syscalls, syscalls' = Append(syscalls, m), cpu.en # "libre",
             LugarCpu' = 0, ~doble_envio' => ~syscall_bloqueante,
             UNCHANGED <<dispatch, colas, sem, rp, lp, sc, io, carrera, cp>>
      PROVE  Meta
  <2>1. Len(syscalls') = Len(syscalls) + 1
    BY <1>9, ColaPush DEF TypeOK, KernelTypeOK, TipoCpu
  <2>2. ~doble_envio' => LugarCpu = 1
    BY <1>9, CargasSRT DEF LugarCpu, Uno
  <2>3. LugarSc' = LugarSc /\ LugarCp' = LugarCp /\ UNCHANGED <<cola_ready, dispatch>>
    BY <1>e, <1>9
  <2>4. ~doble_envio' => DePaso' = DePaso
    BY <1>n, <1>9, <2>1, <2>2, <2>3 DEF DePaso
  <2> QED
    BY <1>k, <1>9, <2>4
<1>10. CASE CpuIO \/ CpuExit
  <2>1. PuedeEjecutar /\ LugarCpu' = 0
    BY <1>10 DEF CpuIO, CpuExit, CpuSyscall, LugarCpu, Uno
  <2>2. ~syscall_bloqueante
    BY <1>c, <2>1 DEF Banderas, PuedeEjecutar
  <2>3. \E m \in Syscalls : syscalls' = Append(syscalls, m)
    BY <1>10, CargasSRT DEF CpuIO, CpuExit, CpuSyscall, PuedeEjecutar
  <2>4. UNCHANGED <<dispatch, colas, sem, rp, lp, sc, io, carrera, cp>>
    BY <1>10 DEF CpuIO, CpuExit, CpuSyscall
  <2>5. cpu.en # "libre"
    BY <2>1 DEF PuedeEjecutar
  <2> QED
    BY <1>9, <2>1, <2>2, <2>3, <2>4, <2>5
<1>11. CASE ChequearInterrupcion
  <2>1. LugarCpu' = 0
    BY <1>11 DEF ChequearInterrupcion, LugarCpu, Uno, En
  <2>2. \E m \in Syscalls : syscalls' = Append(syscalls, m)
    BY <1>11, CargasSRT DEF ChequearInterrupcion
  <2>3. cpu.en # "libre" /\ (~doble_envio' => ~syscall_bloqueante)
    BY <1>11 DEF ChequearInterrupcion, TypeOK
  <2>4. UNCHANGED <<dispatch, colas, sem, rp, lp, sc, io, carrera, cp>>
    BY <1>11 DEF ChequearInterrupcion
  <2> QED
    BY <1>9, <2>1, <2>2, <2>3, <2>4
<1>12. CASE ChequearSyscall
  <2>1. LugarCpu = 0 /\ LugarCpu' = 0
    BY <1>12 DEF ChequearSyscall, LugarCpu, Uno, En
  <2>2. UNCHANGED <<colas, cpu_vars, rp, lp, io, sc, sem, carrera, cp>>
    BY <1>12 DEF ChequearSyscall
  <2>3. DePaso' = DePaso
    BY <1>e, <2>1, <2>2 DEF DePaso
  <2> QED
    BY <1>k, <2>2, <2>3
<1> QED
  BY <1>1, <1>2, <1>3, <1>4, <1>5, <1>6, <1>7, <1>8, <1>10, <1>11, <1>12
     DEF HiloReadyAExecuting, HiloSyscallSRT, HiloExecuter

\* Every step keeps the accounts.
LEMMA PasoCuentas == TypeOK /\ Cuentas /\ [Next]_vars => Cuentas'
<1>1. ASSUME TypeOK, Cuentas, Next PROVE Cuentas'
  <2>t. TypeOK'
    BY <1>1, NextTypeOK
  <2>c. /\ CuentasDelKernel /\ HayParaElegir /\ Banderas /\ EnPie
        /\ Plazas = GRADO_MULTIPROGRAMACION
    BY <1>1, CuentasPorPartes DEF Next, EnPie
  <2>1. HayParaElegir' /\ Banderas'
    BY <1>1, <2>c, PasoHayParaElegir, PasoBanderas
  <2>2. CASE DelKernel /\ UNCHANGED srt_vars
    <3>1. CuentasDelKernel' /\ PlazasDelKernel' = PlazasDelKernel
      BY <1>1, <2>c, <2>2, PasoCuentasDelKernel DEF TypeOK, EnPie
    <3>2. LugarCp' = LugarCp /\ LugarCpu' = LugarCpu
      BY <2>2 DEF srt_vars, cpu_srt, LugarCp, LugarCpu
    <3>3. Plazas' = Plazas
      BY <3>1, <3>2 DEF Plazas
    <3> QED
      BY <2>t, <2>c, <2>1, <3>1, <3>3, CuentasPorPartesDespues
  <2>3. CASE \/ HiloReadyAExecuting \/ HiloSyscallSRT
             \/ CpuRecibir \/ HiloExecuter \/ RecibirInterrupcion
    BY <1>1, <2>t, <2>c, <2>1, <2>3, PasoCuentasSRT, CuentasPorPartesDespues
  <2> QED
    BY <1>1, <2>2, <2>3 DEF Next
<1>2. ASSUME Cuentas, UNCHANGED vars PROVE Cuentas'
  <2>1. UNCHANGED <<kernel_vars, cp, cpu, syscall_bloqueante, limpiando, doble_envio>>
    BY <1>2 DEF vars, srt_vars, cpu_srt
  <2>2. LugarCp' = LugarCp /\ LugarCpu' = LugarCpu
    BY <2>1 DEF LugarCp, LugarCpu
  <2> QED
    BY <1>2, <2>1, <2>2, CuentasEstables
       DEF kernel_vars, colas, cpu_vars, carrera, Cuentas, CuentaNew, HayParaSacar,
           CuentaBlocked, UnaSolaRotura, HayParaElegir, CaidaSoloPorCarrera, Banderas,
           GradoRespetado, LugaresOcupados
<1> QED
  BY <1>1, <1>2

LEMMA InitCuentas == Init => Cuentas
<1> SUFFICES ASSUME Init PROVE Cuentas
  OBVIOUS
<1>1. /\ cola_new = <<>> /\ cola_ready = <<>> /\ cola_blocked = <<>>
      /\ cola_suspended_ready = <<>> /\ dispatch = <<>> /\ syscalls = <<>>
      /\ rp = "aceptar" /\ cp.en = "ready" /\ cpu.pcb = NULO
      /\ lp.en = "esperar" /\ sc.en = "esperar" /\ io.en = "esperar"
      /\ cola_rota = FALSE /\ caido = FALSE
      /\ syscall_bloqueante = FALSE /\ limpiando = FALSE
  BY DEF Init, KernelInit, En
<1>2. /\ sem["procesos_para_ready"] = 0 /\ sem["proceso_en_io"] = 0
      /\ sem["grado_multiprogramacion"] = GRADO_MULTIPROGRAMACION
  BY DEF Init, KernelInit, Semaforos
<1>3. CuentaNew
  BY <1>1, <1>2 DEF CuentaNew, NewDeLp, NewDeRp, NewDeIo, Uno
<1>4. CuentaBlocked
  BY <1>1, <1>2 DEF CuentaBlocked, BlockedDeSc, Uno
<1>5. GradoRespetado
  BY <1>1, <1>2, KernelAssumption
     DEF KernelAssumption, GradoRespetado, LugaresOcupados, LugarLp, LugarSc, LugarIo,
         LugarCp, LugarCpu, Perdido, Uno
<1>6. HayParaSacar /\ UnaSolaRotura /\ HayParaElegir /\ CaidaSoloPorCarrera /\ Banderas
  BY <1>1 DEF HayParaSacar, UnaSolaRotura, HayParaElegir, CaidaSoloPorCarrera, Banderas
<1> QED
  BY <1>3, <1>4, <1>5, <1>6 DEF Cuentas

-----------------------------------------------------------------------------
\* Each process in one place

Nombres == NombresDelKernel \cup {"cp", "cpu"}

LugarDeCp == IF cp.en = "asignar" THEN {} ELSE {cp.pcb} \ {NULO}
LugarDeCpu == IF syscall_bloqueante THEN {} ELSE {cpu.pcb} \ {NULO}

\* The places are those of the kernel and two more, before a step and after it.
LEMMA LugaresDeMas ==
  /\ DOMAIN Lugares = Nombres /\ "cp" \notin NombresDelKernel /\ "cpu" \notin NombresDelKernel
  /\ \A l \in NombresDelKernel : Lugares[l] = LugaresDelKernel[l]
  /\ Lugares["cp"] = LugarDeCp /\ Lugares["cpu"] = LugarDeCpu
<1>1. DOMAIN LugaresDelKernel = NombresDelKernel
  BY NombradosDelKernel
<1>2. "cp" \notin NombresDelKernel /\ "cpu" \notin NombresDelKernel
  BY DEF NombresDelKernel
<1> HIDE DEF NombresDelKernel
<1> QED
  BY <1>1, <1>2 DEF Lugares, Nombres, LugarDeCp, LugarDeCpu

LEMMA LugaresDeMasDespues ==
  (/\ DOMAIN Lugares = Nombres /\ "cp" \notin NombresDelKernel /\ "cpu" \notin NombresDelKernel
   /\ \A l \in NombresDelKernel : Lugares[l] = LugaresDelKernel[l]
   /\ Lugares["cp"] = LugarDeCp /\ Lugares["cpu"] = LugarDeCpu)'
  BY LugaresDeMas, PTL

LEMMA Nombrados == DOMAIN Lugares = Nombres /\ DOMAIN Lugares' = Nombres
<1>1. Nombres' = Nombres
  BY DEF Nombres, NombresDelKernel
<1> QED
  BY <1>1, LugaresDeMas, LugaresDeMasDespues

\* One by one.
LEMMA CadaLugar ==
  /\ Lugares["new"] = Range(cola_new) /\ Lugares["ready"] = Range(cola_ready)
  /\ Lugares["blocked"] = Range(cola_blocked)
  /\ Lugares["suspended_ready"] = Range(cola_suspended_ready)
  /\ Lugares["dispatch"] = Range(dispatch)
  /\ Lugares["syscalls"] = {m.pcb : m \in Range(syscalls)}
  /\ Lugares["lp"] = {lp.pcb} \ {NULO} /\ Lugares["io"] = {io.pcb} \ {NULO}
  /\ Lugares["sc"] = IF sc.en \in ScDuenio THEN {sc.pcb} ELSE {}
  /\ Lugares["cp"] = LugarDeCp /\ Lugares["cpu"] = LugarDeCpu
  BY LugaresDeMas DEF LugaresDelKernel, NombresDelKernel

LEMMA CadaLugarDespues ==
  (/\ Lugares["new"] = Range(cola_new) /\ Lugares["ready"] = Range(cola_ready)
   /\ Lugares["blocked"] = Range(cola_blocked)
   /\ Lugares["suspended_ready"] = Range(cola_suspended_ready)
   /\ Lugares["dispatch"] = Range(dispatch)
   /\ Lugares["syscalls"] = {m.pcb : m \in Range(syscalls)}
   /\ Lugares["lp"] = {lp.pcb} \ {NULO} /\ Lugares["io"] = {io.pcb} \ {NULO}
   /\ Lugares["sc"] = IF sc.en \in ScDuenio THEN {sc.pcb} ELSE {}
   /\ Lugares["cp"] = LugarDeCp /\ Lugares["cpu"] = LugarDeCpu)'
  BY CadaLugar, PTL

\* Every place holds PCBs.
LEMMA LugaresTipo ==
  ASSUME TypeOK
  PROVE  \A l \in Nombres : Lugares[l] \subseteq PCB
<1>1. LugarDeCp \subseteq PCB /\ LugarDeCpu \subseteq PCB
  BY DEF TypeOK, LugarDeCp, LugarDeCpu
<1> QED
  BY <1>1, LugaresDelKernelTipo, LugaresDeMas DEF TypeOK, Nombres

LugaresDePCB == \A l \in Nombres : Lugares[l] \subseteq PCB

LEMMA TipoDeLugares == TypeOK => LugaresDePCB
  BY LugaresTipo DEF LugaresDePCB

LEMMA TipoDeLugaresPrima == TypeOK' => LugaresDePCB'
  BY TipoDeLugares, PTL

\* A process moves, enters, or leaves its place for none.
Muda(a, x, b, y) ==
  \A l \in Nombres : Lugares'[l] = (Lugares[l] \ Solo(l = a, x)) \cup Solo(l = b, y)
Entra(b, y) == \A l \in Nombres : Lugares'[l] = Lugares[l] \cup Solo(l = b, y)
Sale(a, x) == \A l \in Nombres : Lugares'[l] = Lugares[l] \ Solo(l = a, x)
Quieto == \A l \in Nombres : Lugares'[l] = Lugares[l]

\* The process that moves is then where it went, and the others are where they were.
LEMMA Mudanza ==
  ASSUME EnUnSoloLugar, NEW a \in Nombres, NEW b \in Nombres, NEW x \in Lugares[a],
         NEW y, y.id = x.id, Muda(a, x, b, y)
  PROVE  /\ EnUnSoloLugar'
         /\ \A p \in Procesos : EnAlgunLugar(p)' <=> EnAlgunLugar(p)
<1> USE Nombrados
<1>1. ASSUME NEW l \in Nombres, NEW m \in Nombres,
             NEW u \in Lugares'[l], NEW v \in Lugares'[m], u.id = v.id
      PROVE  l = m /\ u = v
  BY <1>1 DEF Muda, Solo, EnUnSoloLugar
<1>2. EnUnSoloLugar'
  BY <1>1 DEF EnUnSoloLugar
<1>3. ASSUME NEW p \in Procesos PROVE EnAlgunLugar(p)' <=> EnAlgunLugar(p)
  <2>1. y \in Lugares'[b]
    BY DEF Muda, Solo
  <2>2. ASSUME NEW l \in Nombres, NEW u \in Lugares'[l], u.id = p PROVE EnAlgunLugar(p)
    BY <2>2 DEF Muda, Solo, EnAlgunLugar
  <2>3. ASSUME NEW l \in Nombres, NEW u \in Lugares[l], u.id = p PROVE EnAlgunLugar(p)'
    BY <2>1, <2>3 DEF Muda, Solo, EnAlgunLugar
  <2> QED
    BY <2>2, <2>3 DEF EnAlgunLugar
<1> QED
  BY <1>2, <1>3

\* What the threads of the kernel do to the places that do not depend on the
\* scheduler, they do to all.
LEMMA DelKernelALugares ==
  ASSUME UNCHANGED srt_vars
  PROVE  /\ \A a \in NombresDelKernel, b \in NombresDelKernel : \A x, y :
              MudaDelKernel(a, x, b, y) => Muda(a, x, b, y)
         /\ \A b \in NombresDelKernel : \A y : EntraDelKernel(b, y) => Entra(b, y)
         /\ \A a \in NombresDelKernel : \A x : SaleDelKernel(a, x) => Sale(a, x)
         /\ QuietoDelKernel => Quieto
<1>1. Lugares'["cp"] = Lugares["cp"] /\ Lugares'["cpu"] = Lugares["cpu"]
  BY CadaLugar, CadaLugarDespues DEF srt_vars, cpu_srt, LugarDeCp, LugarDeCpu
<1>2. \A l \in NombresDelKernel :
        /\ Lugares[l] = LugaresDelKernel[l] /\ Lugares'[l] = LugaresDelKernel'[l]
        /\ l # "cp" /\ l # "cpu"
  BY LugaresDeMas, LugaresDeMasDespues DEF NombresDelKernel
<1> QED
  BY <1>1, <1>2 DEF Nombres, Muda, MudaDelKernel, Entra, EntraDelKernel, Sale, SaleDelKernel,
     Quieto, QuietoDelKernel, Solo

\* Where the scheduler and the CPU take a process.
LEMMA TrasladosSRT ==
  ASSUME TypeOK, Cuentas, EnPie, SinRepetidos
  PROVE  /\ Sacar => \E x \in Lugares["ready"] : Muda("ready", x, "cp", x)
         /\ Enviar => cp.pcb \in Lugares["cp"] /\ Muda("cp", cp.pcb, "dispatch", cp.pcb)
         /\ AgregarDesalojado => sc.pcb \in Lugares["sc"] /\ Muda("sc", sc.pcb, "ready", sc.pcb)
         /\ CpuRecibir => \E x \in Lugares["dispatch"] : Muda("dispatch", x, "cpu", x)
         /\ CpuIO \/ CpuExit \/ (ChequearInterrupcion /\ ~doble_envio') =>
              /\ cpu.pcb \in Lugares["cpu"]
              /\ \E y \in PCB : /\ y.id = cpu.pcb.id /\ y.pc >= cpu.pcb.pc
                               /\ Muda("cpu", cpu.pcb, "syscalls", y)
<1>b. Banderas /\ HayParaElegir /\ ~doble_envio
  BY DEF Cuentas, EnPie
<1>t. /\ cola_ready \in Seq(PCB) /\ syscalls \in Seq(Syscalls)
      /\ sc.en \in ScConPCB => sc.pcb \in PCB
  BY DEF TypeOK, KernelTypeOK, TipoColas, TipoCpu, TipoSc
<1>m. ASSUME NEW a \in Nombres, NEW b \in Nombres, a # b, NEW x, NEW y,
             Lugares'[a] = Lugares[a] \ {x}, Lugares'[b] = Lugares[b] \cup {y},
             \A l \in Nombres \ {a, b} : Lugares'[l] = Lugares[l]
      PROVE  Muda(a, x, b, y)
  BY <1>m DEF Muda, Solo
<1>n. /\ "ready" \in Nombres /\ "dispatch" \in Nombres /\ "syscalls" \in Nombres
      /\ "sc" \in Nombres /\ "cp" \in Nombres /\ "cpu" \in Nombres
  BY DEF Nombres, NombresDelKernel
<1>1. ASSUME Sacar PROVE \E x \in Lugares["ready"] : Muda("ready", x, "cp", x)
  <2>1. PICK i \in DOMAIN cola_ready :
          cp' = En("interrumpir", cola_ready[i]) /\ cola_ready' = Quitado(cola_ready, i)
    BY <1>1, <1>b DEF Sacar, Quitado, HayParaElegir
  <2>2. PICK x : x = cola_ready[i]
    OBVIOUS
  <2>3. x \in Range(cola_ready) /\ Range(cola_ready') = Range(cola_ready) \ {x} /\ x \in PCB
    BY <1>t, <2>1, <2>2, Quitar DEF SinRepetidos
  <2>4. LugarDeCp = {} /\ LugarDeCp' = {x}
    BY <1>1, <2>1, <2>2, <2>3, NuloAssumption
       DEF LugarDeCp, Sacar, En, TypeOK, CpConPCB, NuloAssumption
  <2>5. LugarDeCpu' = LugarDeCpu
    BY <1>1 DEF Sacar, cpu_srt, LugarDeCpu
  <2>6. UNCHANGED <<cola_new, cola_blocked, cola_suspended_ready, dispatch, syscalls, lp, io, sc>>
    BY <1>1 DEF Sacar, cpu_vars
  <2>7. \A l \in Nombres \ {"ready", "cp"} : Lugares'[l] = Lugares[l]
    BY <2>5, <2>6, CadaLugar, CadaLugarDespues DEF Nombres, NombresDelKernel
  <2> QED
    BY <1>m, <1>n, <2>3, <2>4, <2>7, CadaLugar, CadaLugarDespues
<1>2. ASSUME Enviar
      PROVE  cp.pcb \in Lugares["cp"] /\ Muda("cp", cp.pcb, "dispatch", cp.pcb)
  <2>1. cp.pcb \in PCB /\ cp.pcb # NULO
    BY <1>2, CargasSRT, NuloAssumption DEF Enviar, CpConPCB, NuloAssumption
  <2>2. Range(dispatch') = Range(dispatch) \cup {cp.pcb}
    BY <1>2, <2>1, Push DEF Enviar, TypeOK
  <2>3. LugarDeCp = {cp.pcb} /\ LugarDeCp' = {}
    BY <1>2, <2>1 DEF Enviar, LugarDeCp, TypeOK
  <2>4. LugarDeCpu' = LugarDeCpu
    BY <1>2 DEF Enviar, cpu_srt, LugarDeCpu
  <2>5. UNCHANGED <<cola_new, cola_ready, cola_blocked, cola_suspended_ready, syscalls,
                    lp, io, sc>>
    BY <1>2 DEF Enviar, colas
  <2>6. \A l \in Nombres \ {"cp", "dispatch"} : Lugares'[l] = Lugares[l]
    BY <2>4, <2>5, CadaLugar, CadaLugarDespues DEF Nombres, NombresDelKernel
  <2> QED
    BY <1>m, <1>n, <2>2, <2>3, <2>6, CadaLugar, CadaLugarDespues
<1>3. ASSUME AgregarDesalojado
      PROVE  sc.pcb \in Lugares["sc"] /\ Muda("sc", sc.pcb, "ready", sc.pcb)
  <2>1. sc.pcb \in PCB
    BY <1>3, <1>t DEF AgregarDesalojado, ScConPCB
  <2>2. Range(cola_ready') = Range(cola_ready) \cup {sc.pcb}
    BY <1>3, <2>1, Push DEF AgregarDesalojado, TypeOK
  <2>3. sc.en \in ScDuenio /\ sc'.en \notin ScDuenio
    BY <1>3 DEF AgregarDesalojado, ScDuenio, TypeOK, KernelTypeOK, TipoSc
  <2>4. LugarDeCpu' = LugarDeCpu /\ LugarDeCp' = LugarDeCp
    BY <1>3 DEF AgregarDesalojado, cpu_srt, LugarDeCpu, LugarDeCp
  <2>5. UNCHANGED <<cola_new, cola_blocked, cola_suspended_ready, dispatch, syscalls, lp, io>>
    BY <1>3 DEF AgregarDesalojado, cpu_vars
  <2>6. \A l \in Nombres \ {"sc", "ready"} : Lugares'[l] = Lugares[l]
    BY <2>4, <2>5, CadaLugar, CadaLugarDespues DEF Nombres, NombresDelKernel
  <2> QED
    BY <1>m, <1>n, <2>2, <2>3, <2>6, CadaLugar, CadaLugarDespues
<1>4. ASSUME CpuRecibir
      PROVE  \E x \in Lugares["dispatch"] : Muda("dispatch", x, "cpu", x)
  <2>1. PICK x : x = Head(dispatch)
    OBVIOUS
  <2>2. x \in Range(dispatch) /\ x # NULO /\ Range(dispatch') = Range(dispatch) \ {x}
    BY <1>4, <2>1, Pop DEF TypeOK, CpuRecibir
  <2>3. LugarDeCpu = {} /\ LugarDeCpu' = {x}
    BY <1>4, <1>b, <2>1, <2>2 DEF CpuRecibir, LugarDeCpu, En, TypeOK, Banderas
  <2>4. LugarDeCp' = LugarDeCp
    BY <1>4 DEF CpuRecibir, LugarDeCp
  <2>5. UNCHANGED <<cola_new, cola_ready, cola_blocked, cola_suspended_ready, syscalls,
                    lp, io, sc>>
    BY <1>4 DEF CpuRecibir, colas
  <2>6. \A l \in Nombres \ {"dispatch", "cpu"} : Lugares'[l] = Lugares[l]
    BY <2>4, <2>5, CadaLugar, CadaLugarDespues DEF Nombres, NombresDelKernel
  <2> QED
    BY <1>m, <1>n, <2>2, <2>3, <2>6, CadaLugar, CadaLugarDespues
<1>5. ASSUME NEW m \in Syscalls, syscalls' = Append(syscalls, m), cpu.en # "libre",
             ~syscall_bloqueante, syscall_bloqueante' \/ cpu'.pcb = NULO,
             UNCHANGED <<dispatch, colas, lp, io, sc, cp>>
      PROVE  cpu.pcb \in Lugares["cpu"] /\ Muda("cpu", cpu.pcb, "syscalls", m.pcb)
  <2>1. Range(syscalls') = Range(syscalls) \cup {m}
    BY <1>5, <1>t, RangoPush
  <2>2. {n.pcb : n \in Range(syscalls')} = {n.pcb : n \in Range(syscalls)} \cup {m.pcb}
    BY <2>1
  <2>3. LugarDeCpu = {cpu.pcb} /\ LugarDeCpu' = {}
    BY <1>5, CargasSRT DEF LugarDeCpu
  <2>4. LugarDeCp' = LugarDeCp
    BY <1>5 DEF LugarDeCp
  <2>5. UNCHANGED <<cola_new, cola_ready, cola_blocked, cola_suspended_ready, dispatch,
                    lp, io, sc>>
    BY <1>5 DEF colas
  <2>6. \A l \in Nombres \ {"cpu", "syscalls"} : Lugares'[l] = Lugares[l]
    BY <2>4, <2>5, CadaLugar, CadaLugarDespues DEF Nombres, NombresDelKernel
  <2> QED
    BY <1>m, <1>n, <2>2, <2>3, <2>6, CadaLugar, CadaLugarDespues
<1>6. ASSUME CpuIO \/ CpuExit \/ (ChequearInterrupcion /\ ~doble_envio')
      PROVE  /\ cpu.pcb \in Lugares["cpu"]
             /\ \E y \in PCB : /\ y.id = cpu.pcb.id /\ y.pc >= cpu.pcb.pc
                              /\ Muda("cpu", cpu.pcb, "syscalls", y)
  <2>1. cpu.en # "libre" /\ ~syscall_bloqueante /\ (syscall_bloqueante' \/ cpu'.pcb = NULO)
    BY <1>6, <1>b DEF CpuIO, CpuExit, CpuSyscall, PuedeEjecutar, ChequearInterrupcion, Banderas, En
  <2>2. \E m \in Syscalls : /\ m.pcb \in PCB /\ m.pcb.id = cpu.pcb.id
                           /\ m.pcb.pc >= cpu.pcb.pc /\ syscalls' = Append(syscalls, m)
    <3>1. cpu.pcb \in PCB
      BY <2>1 DEF TypeOK
    <3>2. cpu.pcb.pc >= cpu.pcb.pc /\ cpu.pcb.pc + 1 >= cpu.pcb.pc
      BY <3>1, KernelAssumption DEF PCB, KernelAssumption
    <3>3. ASSUME CpuIO
          PROVE  \E m \in Syscalls : /\ m.pcb \in PCB /\ m.pcb.id = cpu.pcb.id
                                     /\ m.pcb.pc >= cpu.pcb.pc /\ syscalls' = Append(syscalls, m)
      <4> DEFINE q == [cpu.pcb EXCEPT !.pc = @ + 1]
                 m == [instruccion |-> "IO", pcb |-> q]
      <4>1. m \in Syscalls /\ syscalls' = Append(syscalls, m)
        BY <2>1, <3>3, CargasSRT DEF CpuIO, CpuSyscall
      <4>2. q \in PCB
        BY <4>1 DEF Syscalls
      <4>3. q.id = cpu.pcb.id /\ q.pc >= cpu.pcb.pc
        BY <3>1, <3>2 DEF PCB
      <4> QED
        BY <4>1, <4>2, <4>3
    <3>4. ASSUME CpuExit \/ ChequearInterrupcion
          PROVE  \E m \in Syscalls : /\ m.pcb \in PCB /\ m.pcb.id = cpu.pcb.id
                                     /\ m.pcb.pc >= cpu.pcb.pc /\ syscalls' = Append(syscalls, m)
      BY <2>1, <3>1, <3>2, <3>4, CargasSRT DEF CpuExit, CpuSyscall, ChequearInterrupcion
    <3> QED
      BY <1>6, <3>3, <3>4
  <2>3. UNCHANGED <<dispatch, colas, lp, io, sc, cp>>
    BY <1>6 DEF CpuIO, CpuExit, CpuSyscall, ChequearInterrupcion
  <2> QED
    BY <1>5, <2>1, <2>2, <2>3
<1> QED
  BY <1>1, <1>2, <1>3, <1>4, <1>6

\* The other steps of theirs take nobody anywhere.
LEMMA QuietosSRT ==
  ASSUME TypeOK, Cuentas, EnPie
  PROVE  \/ EsperarReady \/ NadaEnReady \/ Permanece \/ ElegirOtro \/ SinInterrumpir
         \/ Interrumpir \/ EsperarDesalojo \/ Asignar \/ LiberarEjecucion
         \/ AvisarReadySyscall \/ CpuInstruccion \/ ChequearSyscall \/ ChequearNada
         \/ LimpiarInterrupcion \/ RecibirInterrupcion
         => Quieto
<1>t. /\ cp \in [en: {"ready", "elegir", "sacar"} \cup CpConPCB, pcb: PCB \cup {NULO}]
      /\ cp.en \notin CpConPCB => cp.pcb = NULO
      /\ cpu \in [en: {"libre", "listo", "chequear"}, pcb: PCB \cup {NULO}]
  BY DEF TypeOK
<1>q. ASSUME UNCHANGED <<colas, cpu_vars, lp, io>>, LugarDeCp' = LugarDeCp,
             LugarDeCpu' = LugarDeCpu, UNCHANGED sc \/ {sc.en, sc'.en} \cap ScDuenio = {}
      PROVE  Quieto
  BY <1>q, CadaLugar, CadaLugarDespues DEF Quieto, Nombres, NombresDelKernel, colas, cpu_vars
<1>1. ASSUME EsperarReady \/ NadaEnReady \/ Permanece \/ ElegirOtro PROVE Quieto
  <2>1. cp'.pcb = NULO /\ cp'.en # "asignar" /\ cp.pcb = NULO /\ cp.en # "asignar"
    BY <1>1, <1>t DEF EsperarReady, NadaEnReady, Permanece, ElegirOtro, En, CpConPCB
  <2>2. UNCHANGED <<colas, cpu_vars, lp, io, sc, cpu, syscall_bloqueante>>
    BY <1>1 DEF EsperarReady, NadaEnReady, Permanece, ElegirOtro, kernel_vars, cpu_srt
  <2> QED
    BY <1>q, <2>1, <2>2 DEF LugarDeCp, LugarDeCpu
<1>2. ASSUME SinInterrumpir \/ Interrumpir \/ EsperarDesalojo PROVE Quieto
  <2>1. cp'.pcb = cp.pcb /\ cp.en # "asignar" /\ cp'.en # "asignar"
    <3>1. CASE SinInterrumpir
      BY <1>t, <3>1 DEF SinInterrumpir
    <3>2. CASE Interrumpir
      BY <1>t, <3>2 DEF Interrumpir
    <3>3. CASE EsperarDesalojo
      BY <1>t, <3>3 DEF EsperarDesalojo
    <3> QED
      BY <1>2, <3>1, <3>2, <3>3
  <2>2. UNCHANGED <<colas, cpu_vars, lp, io, sc, cpu, syscall_bloqueante>>
    BY <1>2 DEF SinInterrumpir, Interrumpir, EsperarDesalojo, kernel_vars, cpu_srt
  <2> QED
    BY <1>q, <2>1, <2>2 DEF LugarDeCp, LugarDeCpu
<1>3. ASSUME Asignar PROVE Quieto
  <2>1. LugarDeCp = {} /\ LugarDeCp' = {}
    BY <1>3 DEF Asignar, En, LugarDeCp
  <2>2. UNCHANGED <<colas, cpu_vars, lp, io, sc, cpu, syscall_bloqueante>>
    BY <1>3 DEF Asignar, kernel_vars, cpu_srt
  <2> QED
    BY <1>q, <2>1, <2>2 DEF LugarDeCpu
<1>4. ASSUME LiberarEjecucion \/ AvisarReadySyscall PROVE Quieto
  <2>1. {sc.en, sc'.en} \cap ScDuenio = {}
    BY <1>4 DEF LiberarEjecucion, AvisarReadySyscall, En, ScDuenio, TypeOK, KernelTypeOK, TipoSc
  <2>2. UNCHANGED <<colas, cpu_vars, lp, io, cp, cpu, syscall_bloqueante>>
    BY <1>4 DEF LiberarEjecucion, AvisarReadySyscall, cpu_srt
  <2> QED
    BY <1>q, <2>1, <2>2 DEF LugarDeCp, LugarDeCpu
<1>5. ASSUME \/ CpuInstruccion \/ ChequearSyscall \/ ChequearNada
             \/ LimpiarInterrupcion \/ RecibirInterrupcion
      PROVE  Quieto
  <2>1. LugarDeCpu' = LugarDeCpu
    <3>1. CASE CpuInstruccion
      BY <1>t, <3>1 DEF CpuInstruccion, LugarDeCpu
    <3>2. CASE ChequearNada
      BY <1>t, <3>2 DEF ChequearNada, LugarDeCpu
    <3>3. CASE ChequearSyscall
      BY <3>3 DEF ChequearSyscall, LugarDeCpu, En
    <3>4. CASE LimpiarInterrupcion \/ RecibirInterrupcion
      BY <3>4 DEF LimpiarInterrupcion, RecibirInterrupcion, LugarDeCpu
    <3> QED
      BY <1>5, <3>1, <3>2, <3>3, <3>4
  <2>2. UNCHANGED <<colas, cpu_vars, lp, io, sc, cp>>
    BY <1>5 DEF CpuInstruccion, ChequearSyscall, ChequearNada, LimpiarInterrupcion,
       RecibirInterrupcion, kernel_vars
  <2> QED
    BY <1>q, <2>1, <2>2 DEF LugarDeCp
<1> QED
  BY <1>1, <1>2, <1>3, <1>4, <1>5

\* What a step may do to the places.
Trasladado == \E a, b \in Nombres : \E x \in Lugares[a] : \E y \in PCB :
  y.id = x.id /\ y.pc >= x.pc /\ Muda(a, x, b, y)

\* Every step moves one PCB, or leaves all of them where they are, or is one of the
\* three that bring a process in, answer its console or lose its PCB to the race.
LEMMA Clases ==
  ASSUME TypeOK, Cuentas, Ubicados, Next, ~doble_envio'
  PROVE  \/ (Trasladado \/ Quieto) /\ UNCHANGED <<consola, cola_rota>>
         \/ \E p \in Procesos : RecibirProceso(p) /\ UNCHANGED srt_vars
         \/ ResponderConsola /\ UNCHANGED srt_vars
         \/ EnlazarBloqueado /\ cola_blocked' = cola_blocked /\ UNCHANGED srt_vars
<1>u. KernelTypeOK /\ SinRepetidos /\ SyscallsDistintas /\ EnPie /\ ~caido
  BY DEF TypeOK, Ubicados, Next, EnPie
<1>k. CASE DelKernel /\ UNCHANGED srt_vars
  <2>1. ASSUME TrasladadoDelKernel PROVE Trasladado
    <3>1. PICK a \in NombresDelKernel, b \in NombresDelKernel : \E x \in LugaresDelKernel[a] :
            \E y \in PCB : y.id = x.id /\ y.pc >= x.pc /\ MudaDelKernel(a, x, b, y)
      BY <2>1 DEF TrasladadoDelKernel
    <3>2. a \in Nombres /\ b \in Nombres /\ Lugares[a] = LugaresDelKernel[a]
      BY LugaresDeMas DEF Nombres
    <3> QED
      BY <1>k, <3>1, <3>2, DelKernelALugares DEF Trasladado
  <2> QED
    BY <1>k, <1>u, <2>1, ClasesDelKernel, DelKernelALugares
<1>n. /\ "ready" \in Nombres /\ "dispatch" \in Nombres /\ "syscalls" \in Nombres
      /\ "sc" \in Nombres /\ "cp" \in Nombres /\ "cpu" \in Nombres
  BY DEF Nombres, NombresDelKernel
<1>1. ASSUME \/ HiloReadyAExecuting \/ HiloSyscallSRT
             \/ CpuRecibir \/ HiloExecuter \/ RecibirInterrupcion
      PROVE  Trasladado \/ Quieto
  <2>1. CASE Sacar \/ Enviar \/ AgregarDesalojado \/ CpuRecibir
    <3>1. \A a \in Nombres : \A x \in Lugares[a] : x \in PCB /\ x.pc >= x.pc
      BY LugaresTipo, KernelAssumption DEF PCB, KernelAssumption
    <3> QED
      BY <1>u, <1>n, <2>1, <3>1, TrasladosSRT DEF Trasladado
  <2>2. CASE CpuIO \/ CpuExit \/ ChequearInterrupcion
    BY <1>u, <1>n, <2>2, TrasladosSRT DEF Trasladado
  <2>3. CASE \/ EsperarReady \/ NadaEnReady \/ Permanece \/ ElegirOtro \/ SinInterrumpir
             \/ Interrumpir \/ EsperarDesalojo \/ Asignar \/ LiberarEjecucion
             \/ AvisarReadySyscall \/ CpuInstruccion \/ ChequearSyscall \/ ChequearNada
             \/ LimpiarInterrupcion \/ RecibirInterrupcion
    BY <1>u, <2>3, QuietosSRT
  <2> QED
    BY <1>1, <2>1, <2>2, <2>3 DEF HiloReadyAExecuting, HiloSyscallSRT, HiloExecuter
<1>2. ASSUME \/ HiloReadyAExecuting \/ HiloSyscallSRT
             \/ CpuRecibir \/ HiloExecuter \/ RecibirInterrupcion
      PROVE  UNCHANGED <<consola, cola_rota>>
  BY <1>2 DEF HiloReadyAExecuting, EsperarReady, NadaEnReady, Permanece, ElegirOtro, Sacar,
     SinInterrumpir, Interrumpir, EsperarDesalojo, Enviar, Asignar, HiloSyscallSRT,
     LiberarEjecucion, AgregarDesalojado, AvisarReadySyscall, CpuRecibir, HiloExecuter,
     CpuInstruccion, CpuIO, CpuExit, CpuSyscall, ChequearInterrupcion, ChequearSyscall,
     ChequearNada, LimpiarInterrupcion, RecibirInterrupcion, kernel_vars, sockets, carrera
<1> QED
  BY <1>k, <1>1, <1>2 DEF Next

\* Each process stays in one place, and only the race loses one.
LEMMA PasoLugares ==
  ASSUME TypeOK, Cuentas, Ubicados, Next, ~doble_envio'
  PROVE  EnUnSoloLugar' /\ ALoSumoUnExtraviado'
<1>u. EnUnSoloLugar /\ ALoSumoUnExtraviado /\ ~caido /\ UnaSolaRotura
  BY DEF Ubicados, Next, EnPie, Cuentas
<1>1. CASE (Trasladado \/ Quieto) /\ UNCHANGED <<consola, cola_rota>>
  <2>1. CASE Trasladado
    <3>1. EnUnSoloLugar' /\ \A p \in Procesos : EnAlgunLugar(p)' <=> EnAlgunLugar(p)
      BY <1>u, <2>1, Mudanza DEF Trasladado
    <3> QED
      BY <1>1, <1>u, <3>1 DEF ALoSumoUnExtraviado, Extraviado
  <2>2. CASE Quieto
    <3>1. EnUnSoloLugar' /\ \A p \in Procesos : EnAlgunLugar(p)' <=> EnAlgunLugar(p)
      BY <1>u, <2>2, Nombrados DEF Quieto, EnUnSoloLugar, EnAlgunLugar
    <3> QED
      BY <1>1, <1>u, <3>1 DEF ALoSumoUnExtraviado, Extraviado
  <2> QED
    BY <1>1, <2>1, <2>2
<1>k. KernelTypeOK /\ SinRepetidos /\ SyscallsDistintas
  BY DEF TypeOK, Ubicados, Next, EnPie
<1>3. ASSUME NEW p \in Procesos, RecibirProceso(p), UNCHANGED srt_vars
      PROVE  EnUnSoloLugar' /\ ALoSumoUnExtraviado'
  <2>1. Entra("new", PCBNuevo(p)) /\ PCBNuevo(p).id = p /\ "new" \in Nombres
    BY <1>3, <1>k, TrasladosDelKernel, DelKernelALugares DEF PCBNuevo, Nombres, NombresDelKernel
  <2>2. /\ consola[p] = "sin_conectar"
        /\ consola'[p] = "esperando" /\ \A q \in Procesos : q # p => consola'[q] = consola[q]
        /\ cola_rota' = cola_rota
    BY <1>3 DEF RecibirProceso, carrera, TypeOK, KernelTypeOK, TipoSockets
  <2>3. ~EnAlgunLugar(p)
    BY <1>u, <2>2 DEF ALoSumoUnExtraviado
  <2>4. EnUnSoloLugar'
    BY <1>u, <2>1, <2>3, Nombrados DEF Entra, Solo, EnUnSoloLugar, EnAlgunLugar
  <2>5. \A q \in Procesos : EnAlgunLugar(q)' <=> EnAlgunLugar(q) \/ q = p
    BY <2>1, Nombrados DEF Entra, Solo, EnAlgunLugar
  <2>6. \A q \in Procesos : Extraviado(q)' <=> Extraviado(q)
    BY <2>2, <2>5 DEF Extraviado
  <2>7. \A q \in Procesos : EnAlgunLugar(q)' => consola'[q] = "esperando"
    BY <1>u, <2>2, <2>5 DEF ALoSumoUnExtraviado
  <2> QED
    BY <1>u, <2>2, <2>4, <2>6, <2>7 DEF ALoSumoUnExtraviado
<1>4. ASSUME NEW x \in Lugares["sc"], Sale("sc", x)
      PROVE  /\ EnUnSoloLugar' /\ ~EnAlgunLugar(x.id)' /\ EnAlgunLugar(x.id)
             /\ \A q \in Procesos : q # x.id => (EnAlgunLugar(q)' <=> EnAlgunLugar(q))
  <2>1. "sc" \in Nombres
    BY DEF Nombres, NombresDelKernel
  <2>2. EnUnSoloLugar'
    BY <1>4, <1>u, Nombrados DEF Sale, Solo, EnUnSoloLugar
  <2>3. \A l \in Nombres : \A u \in Lugares'[l] : u.id # x.id
    BY <1>4, <1>u, <2>1, Nombrados DEF Sale, Solo, EnUnSoloLugar
  <2>4. ~EnAlgunLugar(x.id)'
    BY <2>3, Nombrados DEF EnAlgunLugar
  <2>5. \A q \in Procesos : q # x.id => (EnAlgunLugar(q)' <=> EnAlgunLugar(q))
    BY <1>4, <2>1, Nombrados DEF Sale, Solo, EnAlgunLugar
  <2>6. EnAlgunLugar(x.id)
    BY <1>4, <2>1, Nombrados DEF EnAlgunLugar
  <2> QED
    BY <2>2, <2>4, <2>5, <2>6
<1>s. /\ "sc" \in NombresDelKernel /\ Lugares["sc"] = LugaresDelKernel["sc"]
      /\ sc.en \in ScConPCB => sc.pcb.id \in Procesos /\ sc.pcb \in PCB
  BY LugaresDeMas DEF NombresDelKernel, TypeOK, KernelTypeOK, TipoSc, PCB
<1>5. CASE ResponderConsola /\ UNCHANGED srt_vars
  <2>1. PICK x : x = sc.pcb
    OBVIOUS
  <2>2. x \in Lugares["sc"] /\ Sale("sc", x)
    BY <1>5, <1>k, <1>s, <2>1, TrasladosDelKernel, DelKernelALugares
  <2>3. x.id \in Procesos
    BY <1>5, <1>s, <2>1 DEF ResponderConsola, ScConPCB
  <2>4. /\ consola'[x.id] = "finalizada"
        /\ \A q \in Procesos : q # x.id => consola'[q] = consola[q]
        /\ cola_rota' = cola_rota
    BY <1>5, <2>1, <2>3 DEF ResponderConsola, carrera, TypeOK, KernelTypeOK, TipoSockets
  <2>5. /\ EnUnSoloLugar' /\ ~EnAlgunLugar(x.id)' /\ EnAlgunLugar(x.id)
        /\ \A q \in Procesos : q # x.id => (EnAlgunLugar(q)' <=> EnAlgunLugar(q))
    BY <1>4, <2>2
  <2>6. \A q \in Procesos : Extraviado(q)' <=> Extraviado(q)
    BY <2>4, <2>5 DEF Extraviado
  <2>7. \A q \in Procesos : EnAlgunLugar(q)' => consola'[q] = "esperando"
    BY <1>u, <2>4, <2>5 DEF ALoSumoUnExtraviado
  <2> QED
    BY <1>u, <2>4, <2>5, <2>6, <2>7 DEF ALoSumoUnExtraviado
<1>6. CASE EnlazarBloqueado /\ cola_blocked' = cola_blocked /\ UNCHANGED srt_vars
  <2>1. PICK x : x = sc.pcb
    OBVIOUS
  <2>2. x \in Lugares["sc"] /\ Sale("sc", x)
    BY <1>6, <1>k, <1>s, <2>1, TrasladosDelKernel, DelKernelALugares
  <2>3. ~cola_rota /\ cola_rota' /\ consola' = consola
    <3>1. cola_blocked \in Seq(PCB) /\ sc.pcb \in PCB
      BY <1>6, <1>s DEF EnlazarBloqueado, TypeOK, KernelTypeOK, TipoColas, ScConPCB
    <3>2. cola_blocked # Append(cola_blocked, sc.pcb)
      BY <3>1, ColaPush, ColaLen
    <3>3. ~cola_rota
      BY <1>6, <1>u DEF EnlazarBloqueado, UnaSolaRotura
    <3> QED
      BY <1>6, <3>2, <3>3 DEF EnlazarBloqueado, sockets
  <2>4. /\ EnUnSoloLugar' /\ ~EnAlgunLugar(x.id)' /\ EnAlgunLugar(x.id)
        /\ \A q \in Procesos : q # x.id => (EnAlgunLugar(q)' <=> EnAlgunLugar(q))
    BY <1>4, <2>2
  <2>5. \A q \in Procesos : ~Extraviado(q)
    BY <1>u, <2>3 DEF ALoSumoUnExtraviado
  <2>6. \A q \in Procesos : Extraviado(q)' => q = x.id
    BY <2>3, <2>4, <2>5 DEF Extraviado
  <2>7. \A q \in Procesos : EnAlgunLugar(q)' => consola'[q] = "esperando"
    BY <1>u, <2>3, <2>4 DEF ALoSumoUnExtraviado
  <2> QED
    BY <2>3, <2>4, <2>6, <2>7 DEF ALoSumoUnExtraviado
<1> QED
  BY <1>1, <1>3, <1>5, <1>6, Clases

\* Two PCBs in different places are of different processes.
LEMMA Ajenos ==
  ASSUME EnUnSoloLugar, NEW a \in Nombres, NEW b \in Nombres, a # b, NEW x \in Lugares[a]
  PROVE  \A y \in Lugares[b] : y.id # x.id
  BY Nombrados DEF EnUnSoloLugar

\* A push brings a process that was somewhere else.
LEMMA PasoSinRepetidos ==
  ASSUME TypeOK, Cuentas, Ubicados, Next, ~doble_envio'
  PROVE  SinRepetidos' /\ SyscallsDistintas'
<1>u. /\ KernelTypeOK /\ SinRepetidos /\ SyscallsDistintas /\ EnUnSoloLugar
      /\ ALoSumoUnExtraviado /\ EnPie /\ Banderas /\ HayParaElegir
  BY DEF TypeOK, Ubicados, Next, EnPie, Cuentas
<1>n. /\ "ready" \in Nombres /\ "dispatch" \in Nombres /\ "syscalls" \in Nombres
      /\ "sc" \in Nombres /\ "cp" \in Nombres /\ "cpu" \in Nombres
  BY DEF Nombres, NombresDelKernel
<1>t. /\ syscalls \in Seq(Syscalls) /\ cola_ready \in Seq(PCB)
      /\ sc.en \in ScConPCB => sc.pcb \in PCB
  BY <1>u DEF KernelTypeOK, TipoCpu, TipoColas, TipoSc
<1>1. CASE DelKernel
  <2>1. \A l, m \in NombresDelKernel : \A x \in LugaresDelKernel[l], y \in LugaresDelKernel[m] :
          x.id = y.id => l = m
    BY <1>u, LugaresDeMas, Nombrados DEF EnUnSoloLugar, Nombres
  <2>2. ASSUME NEW l \in NombresDelKernel, NEW x \in LugaresDelKernel[l]
        PROVE  consola[x.id] = "esperando"
    <3>1. x.id \in Procesos
      BY <1>u, LugaresDelKernelTipo DEF PCB
    <3>2. EnAlgunLugar(x.id)
      BY LugaresDeMas DEF EnAlgunLugar, Nombres
    <3> QED
      BY <1>u, <3>1, <3>2 DEF ALoSumoUnExtraviado
  <2> QED
    BY <1>1, <1>u, <2>1, <2>2, SinRepetidosDelKernel
<1>2. CASE CpuRecibir
  <2>1. SinRepetidos'
    BY <1>2, <1>u, Pop DEF CpuRecibir, SinRepetidos, colas
  <2>2. SyscallsDistintas'
    BY <1>2, <1>u DEF CpuRecibir, SyscallsDistintas
  <2> QED
    BY <2>1, <2>2
<1>3. CASE Sacar
  <2>1. PICK i \in DOMAIN cola_ready : cola_ready' = Quitado(cola_ready, i)
    BY <1>3, <1>u DEF Sacar, Quitado, HayParaElegir
  <2>2. Distintos(cola_ready')
    BY <1>t, <1>u, <2>1, Quitar DEF SinRepetidos
  <2>3. UNCHANGED <<cola_new, cola_blocked, cola_suspended_ready, dispatch, syscalls>>
    BY <1>3 DEF Sacar, cpu_vars
  <2> QED
    BY <1>u, <2>2, <2>3 DEF SinRepetidos, SyscallsDistintas
<1>4. CASE Enviar
  <2>1. cp.pcb \in Lugares["cp"] /\ cp.pcb \in PCB
    BY <1>4, <1>u, TrasladosSRT, CargasSRT DEF Enviar, CpConPCB
  <2>2. \A y \in Range(dispatch) : y.id # cp.pcb.id
    BY <1>u, <1>n, <2>1, Ajenos, CadaLugar
  <2>3. Distintos(dispatch')
    BY <1>4, <1>u, <2>1, <2>2, Push DEF Enviar
  <2>4. UNCHANGED <<colas, syscalls>>
    BY <1>4 DEF Enviar
  <2> QED
    BY <1>u, <2>3, <2>4 DEF SinRepetidos, SyscallsDistintas, colas
<1>5. CASE AgregarDesalojado
  <2>1. sc.pcb \in Lugares["sc"] /\ sc.pcb \in PCB
    BY <1>5, <1>u, <1>t, TrasladosSRT DEF AgregarDesalojado, ScConPCB
  <2>2. \A y \in Range(cola_ready) : y.id # sc.pcb.id
    BY <1>u, <1>n, <2>1, Ajenos, CadaLugar
  <2>3. Distintos(cola_ready')
    BY <1>5, <1>u, <2>1, <2>2, Push DEF AgregarDesalojado
  <2>4. UNCHANGED <<cola_new, cola_blocked, cola_suspended_ready, dispatch, syscalls>>
    BY <1>5 DEF AgregarDesalojado, cpu_vars
  <2> QED
    BY <1>u, <2>3, <2>4 DEF SinRepetidos, SyscallsDistintas
<1>6. CASE CpuIO \/ CpuExit \/ ChequearInterrupcion
  <2>1. cpu.pcb \in Lugares["cpu"] /\ cpu.en # "libre"
    BY <1>6, <1>u, TrasladosSRT
       DEF CpuIO, CpuExit, CpuSyscall, PuedeEjecutar, ChequearInterrupcion
  <2>2. PICK m \in Syscalls : m.pcb.id = cpu.pcb.id /\ syscalls' = Append(syscalls, m)
    BY <1>6, <2>1, CargasSRT DEF CpuIO, CpuExit, CpuSyscall, ChequearInterrupcion
  <2>3. \A y \in {n.pcb : n \in Range(syscalls)} : y.id # m.pcb.id
    BY <1>u, <1>n, <2>1, <2>2, Ajenos, CadaLugar
  <2>4. \A j \in DOMAIN syscalls : syscalls[j].pcb.id # m.pcb.id
    BY <2>3 DEF Range
  <2>5. SyscallsDistintas'
    <3>1. Len(syscalls) \in Nat /\ DOMAIN syscalls = 1..Len(syscalls)
      BY <1>t, LenProperties
    <3>2. /\ DOMAIN syscalls' = 1..(Len(syscalls) + 1)
          /\ \A j \in 1..Len(syscalls) : syscalls'[j] = syscalls[j]
          /\ syscalls'[Len(syscalls) + 1] = m
      BY <1>t, <2>2, <3>1, AppendProperties, LenProperties
    <3> QED
      BY <1>u, <2>4, <3>1, <3>2 DEF SyscallsDistintas
  <2>6. UNCHANGED <<colas, dispatch>>
    BY <1>6 DEF CpuIO, CpuExit, CpuSyscall, ChequearInterrupcion
  <2> QED
    BY <1>u, <2>5, <2>6 DEF SinRepetidos, colas
<1>7. CASE \/ EsperarReady \/ NadaEnReady \/ Permanece \/ ElegirOtro \/ SinInterrumpir
           \/ Interrumpir \/ EsperarDesalojo \/ Asignar \/ LiberarEjecucion
           \/ AvisarReadySyscall \/ CpuInstruccion \/ ChequearSyscall \/ ChequearNada
           \/ LimpiarInterrupcion \/ RecibirInterrupcion
  <2>1. UNCHANGED <<colas, cpu_vars>>
    BY <1>7 DEF EsperarReady, NadaEnReady, Permanece, ElegirOtro, SinInterrumpir, Interrumpir,
       EsperarDesalojo, Asignar, LiberarEjecucion, AvisarReadySyscall, CpuInstruccion,
       ChequearSyscall, ChequearNada, LimpiarInterrupcion, RecibirInterrupcion, kernel_vars
  <2> QED
    BY <1>u, <2>1 DEF SinRepetidos, SyscallsDistintas, colas, cpu_vars
<1> QED
  BY <1>1, <1>2, <1>3, <1>4, <1>5, <1>6, <1>7
     DEF Next, HiloReadyAExecuting, HiloSyscallSRT, HiloExecuter

LEMMA PasoUbicados == TypeOK /\ Cuentas /\ Ubicados /\ [Next]_vars => Ubicados'
<1>1. ASSUME TypeOK, Cuentas, Ubicados, Next PROVE Ubicados'
  BY <1>1, PasoLugares, PasoSinRepetidos DEF Ubicados
<1>2. ASSUME Ubicados, UNCHANGED vars PROVE Ubicados'
  <2>1. UNCHANGED <<consola, colas, cpu_vars, lp, io, sc, cola_rota, cp, cpu,
                    syscall_bloqueante, doble_envio>>
    BY <1>2 DEF vars, kernel_vars, sockets, carrera, srt_vars, cpu_srt
  <2>2. Quieto
    BY <2>1, CadaLugar, CadaLugarDespues
       DEF Quieto, Nombres, NombresDelKernel, LugarDeCp, LugarDeCpu, colas, cpu_vars
  <2>3. (EnUnSoloLugar => EnUnSoloLugar') /\ \A p : EnAlgunLugar(p)' <=> EnAlgunLugar(p)
    BY <2>2, Nombrados DEF Quieto, EnUnSoloLugar, EnAlgunLugar
  <2>4. (SinRepetidos => SinRepetidos') /\ (SyscallsDistintas => SyscallsDistintas')
    BY <2>1 DEF SinRepetidos, SyscallsDistintas, colas, cpu_vars
  <2>5. ALoSumoUnExtraviado => ALoSumoUnExtraviado'
    BY <2>1, <2>3 DEF ALoSumoUnExtraviado, Extraviado
  <2> QED
    BY <1>2, <2>1, <2>3, <2>4, <2>5 DEF Ubicados
<1> QED
  BY <1>1, <1>2

LEMMA InitUbicados == Init => Ubicados
<1> SUFFICES ASSUME Init PROVE EnUnSoloLugar /\ ALoSumoUnExtraviado
                           /\ SinRepetidos /\ SyscallsDistintas
  BY DEF Ubicados
<1>1. /\ cola_new = <<>> /\ cola_ready = <<>> /\ cola_blocked = <<>>
      /\ cola_suspended_ready = <<>> /\ dispatch = <<>> /\ syscalls = <<>>
      /\ cp.pcb = NULO /\ cpu.pcb = NULO /\ lp.pcb = NULO /\ io.pcb = NULO /\ sc.en = "esperar"
  BY DEF Init, KernelInit, En
<1>2. \A l \in Nombres : Lugares[l] = {}
  BY <1>1, CadaLugar, Vacio DEF Nombres, NombresDelKernel, LugarDeCp, LugarDeCpu, ScDuenio
<1>3. EnUnSoloLugar /\ \A p : ~EnAlgunLugar(p)
  BY <1>2, Nombrados DEF EnUnSoloLugar, EnAlgunLugar
<1>4. \A p \in Procesos : consola[p] # "esperando"
  BY DEF Init, KernelInit
<1>5. SinRepetidos /\ SyscallsDistintas
  BY <1>1, Vacio DEF SinRepetidos, Distintos, SyscallsDistintas
<1> QED
  BY <1>3, <1>4, <1>5 DEF ALoSumoUnExtraviado, Extraviado

-----------------------------------------------------------------------------
\* Whom the scheduler believes to be in the CPU

LEMMA UnoDeCuatro ==
  ASSUME NEW a \in Nat, NEW b \in {0, 1}, NEW c \in Nat, NEW d \in {0, 1}, a + b + c + d <= 1
  PROVE  \/ a + b + c + d = 0 /\ a = 0 /\ b = 0 /\ c = 0 /\ d = 0
         \/ a + b + c + d = 1 /\ a = 1 /\ b = 0 /\ c = 0 /\ d = 0
         \/ a + b + c + d = 1 /\ a = 0 /\ b = 1 /\ c = 0 /\ d = 0
         \/ a + b + c + d = 1 /\ a = 0 /\ b = 0 /\ c = 1 /\ d = 0
         \/ a + b + c + d = 1 /\ a = 0 /\ b = 0 /\ c = 0 /\ d = 1
  OBVIOUS

\* Nobody is on the way, or one process is at one of four points of it.
LEMMA Camino ==
  ASSUME TypeOK, EnCamino <= 1
  PROVE  /\ EnCamino = 0 \/ EnCamino = 1
         /\ EnCamino = 0 <=> EnCpu \cup DeVuelta = {}
         /\ EnCamino = 0 => dispatch = <<>> /\ syscalls = <<>>
         /\ dispatch # <<>> =>
              /\ EnCamino = 1 /\ Tail(dispatch) = <<>> /\ sc.en \notin ScDeVuelta
              /\ EnCpu = {Head(dispatch).id} /\ DeVuelta = {} /\ syscalls = <<>>
         /\ cpu.pcb # NULO /\ ~syscall_bloqueante =>
              /\ EnCamino = 1 /\ dispatch = <<>> /\ sc.en \notin ScDeVuelta
              /\ EnCpu = {cpu.pcb.id} /\ DeVuelta = {} /\ syscalls = <<>>
         /\ syscalls # <<>> =>
              /\ EnCamino = 1 /\ Tail(syscalls) = <<>> /\ sc.en \notin ScDeVuelta
              /\ EnCpu = {} /\ DeVuelta = {Head(syscalls).pcb.id}
              /\ 1 \in DOMAIN syscalls /\ syscalls[1] = Head(syscalls)
         /\ sc.en \in ScDeVuelta =>
              /\ EnCamino = 1 /\ dispatch = <<>> /\ syscalls = <<>>
              /\ EnCpu = {} /\ DeVuelta = {sc.pcb.id}
<1> DEFINE enSc == Uno(sc.en \in ScDeVuelta)
<1>1. dispatch \in Seq(PCB) /\ syscalls \in Seq(Syscalls)
  BY DEF TypeOK, KernelTypeOK, TipoCpu
<1>2. /\ Len(dispatch) \in Nat /\ Len(syscalls) \in Nat
      /\ Len(dispatch) = 0 <=> dispatch = <<>>
      /\ Len(syscalls) = 0 <=> syscalls = <<>>
  BY <1>1, ColaLen
<1>3. /\ LugarCpu = IF cpu.pcb # NULO /\ ~syscall_bloqueante THEN 1 ELSE 0
      /\ enSc = IF sc.en \in ScDeVuelta THEN 1 ELSE 0
  BY DEF LugarCpu, Uno
<1>4. EnCamino = Len(dispatch) + LugarCpu + Len(syscalls) + enSc
  BY DEF EnCamino
<1>5. /\ LugarCpu = 1 => EnCpu = Ids(dispatch) \cup {cpu.pcb.id}
      /\ LugarCpu = 0 => EnCpu = Ids(dispatch)
  BY <1>3 DEF EnCpu, IdDe
<1>6. sc.en \in ScDeVuelta => sc.pcb # NULO
  BY NuloAssumption DEF TypeOK, KernelTypeOK, TipoSc, ScConPCB, ScDeVuelta, NuloAssumption
<1>7. /\ enSc = 1 => DeVuelta = {syscalls[i].pcb.id : i \in DOMAIN syscalls} \cup {sc.pcb.id}
      /\ enSc = 0 => DeVuelta = {syscalls[i].pcb.id : i \in DOMAIN syscalls}
  BY <1>3, <1>6 DEF DeVuelta, IdDe
<1>8. /\ dispatch = <<>> => Ids(dispatch) = {}
      /\ syscalls = <<>> => {syscalls[i].pcb.id : i \in DOMAIN syscalls} = {}
  BY Vacio DEF Ids
<1>9. dispatch # <<>> /\ Len(dispatch) <= 1 =>
        Tail(dispatch) = <<>> /\ Ids(dispatch) = {Head(dispatch).id}
  BY <1>1, UnSoloMensaje DEF Ids
<1>10. syscalls # <<>> /\ Len(syscalls) <= 1 =>
         /\ Tail(syscalls) = <<>> /\ 1 \in DOMAIN syscalls /\ syscalls[1] = Head(syscalls)
         /\ {syscalls[i].pcb.id : i \in DOMAIN syscalls} = {Head(syscalls).pcb.id}
  BY <1>1, UnSoloMensaje
<1> HIDE DEF enSc
<1>11. \/ EnCamino = 0 /\ Len(dispatch) = 0 /\ LugarCpu = 0 /\ Len(syscalls) = 0 /\ enSc = 0
       \/ EnCamino = 1 /\ Len(dispatch) = 1 /\ LugarCpu = 0 /\ Len(syscalls) = 0 /\ enSc = 0
       \/ EnCamino = 1 /\ Len(dispatch) = 0 /\ LugarCpu = 1 /\ Len(syscalls) = 0 /\ enSc = 0
       \/ EnCamino = 1 /\ Len(dispatch) = 0 /\ LugarCpu = 0 /\ Len(syscalls) = 1 /\ enSc = 0
       \/ EnCamino = 1 /\ Len(dispatch) = 0 /\ LugarCpu = 0 /\ Len(syscalls) = 0 /\ enSc = 1
  <2>1. LugarCpu \in {0, 1} /\ enSc \in {0, 1}
    BY <1>3
  <2>2. PICK a, b, c, d : a = Len(dispatch) /\ b = LugarCpu /\ c = Len(syscalls) /\ d = enSc
    OBVIOUS
  <2>3. a \in Nat /\ b \in {0, 1} /\ c \in Nat /\ d \in {0, 1} /\ EnCamino = a + b + c + d
    BY <1>2, <1>4, <2>1, <2>2
  <2> QED
    BY <2>2, <2>3, UnoDeCuatro
<1>a. CASE EnCamino = 0 /\ Len(dispatch) = 0 /\ LugarCpu = 0 /\ Len(syscalls) = 0 /\ enSc = 0
  BY <1>a, <1>2, <1>3, <1>5, <1>7, <1>8
<1>b. CASE EnCamino = 1 /\ Len(dispatch) = 1 /\ LugarCpu = 0 /\ Len(syscalls) = 0 /\ enSc = 0
  BY <1>b, <1>2, <1>3, <1>5, <1>7, <1>8, <1>9
<1>c. CASE EnCamino = 1 /\ Len(dispatch) = 0 /\ LugarCpu = 1 /\ Len(syscalls) = 0 /\ enSc = 0
  BY <1>c, <1>2, <1>3, <1>5, <1>7, <1>8
<1>d. CASE EnCamino = 1 /\ Len(dispatch) = 0 /\ LugarCpu = 0 /\ Len(syscalls) = 1 /\ enSc = 0
  BY <1>d, <1>2, <1>3, <1>5, <1>7, <1>8, <1>10
<1>e. CASE EnCamino = 1 /\ Len(dispatch) = 0 /\ LugarCpu = 0 /\ Len(syscalls) = 0 /\ enSc = 1
  BY <1>e, <1>2, <1>3, <1>5, <1>7, <1>8
<1> QED
  BY <1>11, <1>a, <1>b, <1>c, <1>d, <1>e

\* Most steps leave the way as it is.
LEMMA MismoCamino ==
  ASSUME UNCHANGED <<dispatch, syscalls>>,
         UNCHANGED <<cpu, syscall_bloqueante>> \/ (cpu'.pcb = cpu.pcb /\ UNCHANGED syscall_bloqueante),
         \/ UNCHANGED sc
         \/ sc.en \notin ScDeVuelta /\ sc'.en \notin ScDeVuelta
         \/ sc.en \in ScDeVuelta /\ sc'.en \in ScDeVuelta /\ sc'.pcb = sc.pcb
  PROVE  EnCamino' = EnCamino /\ EnCpu' = EnCpu /\ DeVuelta' = DeVuelta
<1>1. LugarCpu' = LugarCpu /\ EnCpu' = EnCpu
  BY DEF LugarCpu, EnCpu
<1>2. (sc.en \in ScDeVuelta) <=> (sc'.en \in ScDeVuelta)
  OBVIOUS
<1>3. Uno(sc.en \in ScDeVuelta)' = Uno(sc.en \in ScDeVuelta)
  BY <1>2 DEF Uno, ScDeVuelta
<1>4. DeVuelta' = DeVuelta
  BY <1>2 DEF DeVuelta, ScDeVuelta
<1> QED
  BY <1>1, <1>3, <1>4 DEF EnCamino

\* The threads of the kernel but for recibirSyscall.
LEMMA CaminoDelKernel ==
  ASSUME TypeOK, DelKernel, UNCHANGED srt_vars, ~RecibirSyscall
  PROVE  /\ EnCamino' = EnCamino /\ EnCpu' = EnCpu /\ DeVuelta' = DeVuelta
         /\ UNCHANGED syscalls
         /\ UNCHANGED sc \/ sc'.en # "desalojar"
<1>1. UNCHANGED <<dispatch, syscalls, cpu, syscall_bloqueante>>
  BY SocketDeSyscalls DEF srt_vars, cpu_srt
<1>2. \/ UNCHANGED sc
      \/ sc.en \in ScDeVuelta /\ sc'.en \in ScDeVuelta /\ sc'.pcb = sc.pcb
  <2>1. CASE HiloSyscall
    BY <2>1 DEF HiloSyscall, BuscarUltimo, EnlazarBloqueado, CrearSuspensor, AvisarIO,
       LiberarGrado, PedirFin, RecibirFin, ResponderConsola, ScDeVuelta, TypeOK,
       KernelTypeOK, TipoSc
  <2>2. CASE HiloRecibirProcesos \/ HiloPasarAReady
    BY <2>2 DEF HiloRecibirProcesos, RecibirProceso, AvisarNew, HiloPasarAReady,
       EsperarProceso, TomarGrado, SacarDeNew, SacarDeSuspendedReady, PedirTablas,
       RecibirTablas, EncolarReady, AvisarReady
  <2>3. CASE HiloIO
    BY <2>3 DEF HiloIO, TomarBloqueado, TerminarIO, PasarASuspendedReady,
       LiberarGradoSuspendido, AvisarSuspendedReady, PasarAReady, AvisarReadyIO,
       SoltarSuspendiendo
  <2>4. CASE AtenderPedido \/ \E b \in Bloqueos : Suspensor(b)
    BY <2>4 DEF AtenderPedido, Suspensor, Despertar, Cancelar, TomarSuspendiendo,
       PedirSuspension, RecibirSuspension
  <2> QED
    BY <2>1, <2>2, <2>3, <2>4 DEF DelKernel
<1> QED
  BY <1>1, <1>2, MismoCamino DEF ScDeVuelta

\* The interrupts, when none is pending and when the only one is.
LEMMA AvisosContados ==
  ASSUME TypeOK
  PROVE  /\ interrupciones \in Nat
         /\ ~Pendiente <=> interrupciones = 0 /\ ~Atento
         /\ interrupciones + Uno(Atento) <= 1 <=>
              \/ interrupciones = 0
              \/ interrupciones = 1 /\ ~Atento
<1>1. interrupciones \in Nat
  BY DEF TypeOK
<1> QED
  BY <1>1 DEF Pendiente, Uno

LEMMA AvisosContadosDespues ==
  (TypeOK => /\ interrupciones \in Nat
             /\ ~Pendiente <=> interrupciones = 0 /\ ~Atento
             /\ interrupciones + Uno(Atento) <= 1 <=>
                  \/ interrupciones = 0
                  \/ interrupciones = 1 /\ ~Atento)'
<1>1. TypeOK => /\ interrupciones \in Nat
                /\ ~Pendiente <=> interrupciones = 0 /\ ~Atento
                /\ interrupciones + Uno(Atento) <= 1 <=>
                     \/ interrupciones = 0
                     \/ interrupciones = 1 /\ ~Atento
  BY AvisosContados
<1> QED
  BY <1>1, PTL

\* An anomaly that did not happen.
LEMMA SinAnomalia ==
  ASSUME NEW a, NEW b \in BOOLEAN, Anotar(a, b), anomalias' = {}
  PROVE  anomalias = {} /\ ~b
  BY DEF Anotar

\* What has gone wrong is not forgotten.
LEMMA AnomaliasQuedan ==
  ASSUME Next, anomalias' = {}
  PROVE  anomalias = {}
  BY DEF Next, Anotar, HiloReadyAExecuting, EsperarReady, NadaEnReady, Permanece,
     ElegirOtro, Sacar, SinInterrumpir, Interrumpir, EsperarDesalojo, Enviar, Asignar,
     HiloSyscallSRT, LiberarEjecucion, AgregarDesalojado, AvisarReadySyscall, CpuRecibir,
     HiloExecuter, CpuInstruccion, CpuIO, CpuExit, CpuSyscall, ChequearInterrupcion,
     ChequearSyscall, ChequearNada, LimpiarInterrupcion, RecibirInterrupcion, srt_vars

\* The steps of the scheduler.
LEMMA PasoSanoDelPlanificador ==
  ASSUME TypeOK, TypeOK', EjecucionSana, HayParaElegir, HiloReadyAExecuting, anomalias' = {}
  PROVE  EjecucionSana'
<1>t. /\ cp \in [en: {"ready", "elegir", "sacar"} \cup CpConPCB, pcb: PCB \cup {NULO}]
      /\ ejecucion \in Procesos \cup {NULO}
  BY DEF TypeOK
<1>c. /\ EnCamino = 0 <=> EnCpu \cup DeVuelta = {}
      /\ EnCamino = 0 => dispatch = <<>> /\ syscalls = <<>>
  BY Camino DEF EjecucionSana
<1>a. /\ interrupciones \in Nat
      /\ ~Pendiente <=> interrupciones = 0 /\ ~Atento
      /\ interrupciones = 0 \/ (interrupciones = 1 /\ ~Atento)
  BY AvisosContados DEF EjecucionSana
<1>i. UNCHANGED <<interrupciones, interrupcion, limpiando>> =>
        /\ Pendiente' = Pendiente
        /\ interrupciones' + Uno(Atento)' <= 1 <=> interrupciones + Uno(Atento) <= 1
  BY DEF Pendiente, Atento
<1>1. CASE EsperarReady \/ NadaEnReady \/ Permanece \/ ElegirOtro \/ Sacar
  <2>1. /\ UNCHANGED <<dispatch, syscalls, cpu, syscall_bloqueante, sc, ejecucion>>
        /\ UNCHANGED <<interrupciones, interrupcion, limpiando>>
    BY <1>1 DEF EsperarReady, NadaEnReady, Permanece, ElegirOtro, Sacar, kernel_vars,
       cpu_vars, cpu_srt
  <2>2. EnCamino' = EnCamino /\ EnCpu' = EnCpu /\ DeVuelta' = DeVuelta
    BY <2>1, MismoCamino
  <2>3. cp.en \in {"ready", "elegir", "sacar"} /\ cp'.en \in {"ready", "elegir", "sacar", "interrumpir"}
    BY <1>1, <1>t DEF EsperarReady, NadaEnReady, Permanece, ElegirOtro, Sacar, En, HayParaElegir
  <2> QED
    BY <1>i, <2>1, <2>2, <2>3 DEF EjecucionSana
<1>2. CASE SinInterrumpir
  <2>1. /\ UNCHANGED <<dispatch, syscalls, cpu, syscall_bloqueante, sc, ejecucion>>
        /\ UNCHANGED <<interrupciones, interrupcion, limpiando>>
    BY <1>2 DEF SinInterrumpir, kernel_vars, cpu_vars, cpu_srt
  <2>2. EnCamino' = EnCamino /\ EnCpu' = EnCpu /\ DeVuelta' = DeVuelta
    BY <2>1, MismoCamino
  <2>3. cp.en = "interrumpir" /\ cp'.en = "enviar" /\ ejecucion = NULO
    BY <1>2, <1>t DEF SinInterrumpir
  <2>4. EnCamino = 0
    BY <1>c, <2>3 DEF EjecucionSana
  <2> QED
    BY <1>i, <2>1, <2>2, <2>3, <2>4 DEF EjecucionSana
<1>3. CASE Interrumpir
  <2>1. /\ UNCHANGED <<dispatch, syscalls, cpu, syscall_bloqueante, sc, ejecucion>>
        /\ UNCHANGED <<interrupcion, limpiando>> /\ interrupciones' = interrupciones + 1
    BY <1>3 DEF Interrumpir, kernel_vars, cpu_vars
  <2>2. EnCamino' = EnCamino /\ EnCpu' = EnCpu /\ DeVuelta' = DeVuelta
    BY <2>1, MismoCamino
  <2>3. cp.en = "interrumpir" /\ cp'.en = "esperar_desalojo"
    BY <1>3, <1>t DEF Interrumpir
  <2>4. ejecucion \in EnCpu
    BY <1>3, SinAnomalia DEF Interrumpir
  <2>5. interrupciones' = 1 /\ ~Atento'
    BY <1>a, <2>1, <2>3 DEF EjecucionSana, Atento
  <2>6. interrupciones' + Uno(Atento)' <= 1
    BY <2>5, AvisosContadosDespues
  <2> QED
    BY <2>1, <2>2, <2>3, <2>4, <2>6 DEF EjecucionSana
<1>4. CASE EsperarDesalojo
  <2>1. /\ UNCHANGED <<dispatch, syscalls, cpu, syscall_bloqueante, sc, ejecucion>>
        /\ UNCHANGED <<interrupciones, interrupcion, limpiando>>
    BY <1>4 DEF EsperarDesalojo, cpu_vars, cpu_srt
  <2>2. EnCamino' = EnCamino /\ EnCpu' = EnCpu /\ DeVuelta' = DeVuelta
    BY <2>1, MismoCamino
  <2>3. cp'.en = "enviar"
    BY <1>4, <1>t DEF EsperarDesalojo
  <2>4. EnCpu \cup DeVuelta = {}
    BY <1>4, SinAnomalia DEF EsperarDesalojo
  <2>5. EnCamino = 0 /\ syscalls = <<>> /\ ~Pendiente
    BY <1>c, <2>4 DEF EjecucionSana
  <2>6. DOMAIN syscalls' = {}
    BY <2>1, <2>5, Vacio
  <2>7. sc.en # "desalojar"
    BY <1>4, SinAnomalia DEF EsperarDesalojo
  <2> QED
    BY <1>i, <2>1, <2>2, <2>3, <2>5, <2>6, <2>7 DEF EjecucionSana
<1>5. CASE Enviar
  <2>1. /\ UNCHANGED <<syscalls, cpu, syscall_bloqueante, sc, ejecucion>>
        /\ UNCHANGED <<interrupciones, interrupcion, limpiando>>
    BY <1>5 DEF Enviar, cpu_srt
  <2>2. cp.en = "enviar" /\ cp'.en = "asignar" /\ cp'.pcb = cp.pcb /\ cp.pcb \in PCB
    BY <1>5, <1>t, CargasSRT DEF Enviar, CpConPCB
  <2>3. EnCamino = 0 /\ dispatch = <<>> /\ syscalls = <<>> /\ EnCpu = {} /\ DeVuelta = {} /\ ~Pendiente
    BY <1>c, <2>2 DEF EjecucionSana
  <2>4. dispatch' = <<cp.pcb>>
    BY <1>5, <2>3 DEF Enviar
  <2>5. Ids(dispatch') = {cp.pcb.id} /\ Len(dispatch') = Len(dispatch) + 1 /\ Ids(dispatch) = {}
    BY <2>3, <2>4, Vacio DEF Ids
  <2>6. EnCpu' = {cp.pcb.id} /\ DeVuelta' = {}
    BY <2>1, <2>3, <2>5 DEF EnCpu, DeVuelta
  <2>7. EnCamino' = 1
    <3>1. LugarCpu' = LugarCpu /\ Uno(sc.en \in ScDeVuelta)' = Uno(sc.en \in ScDeVuelta)
      BY <2>1 DEF LugarCpu, ScDeVuelta
    <3>2. /\ Len(dispatch) \in Nat /\ LugarCpu \in Nat /\ Len(syscalls) \in Nat
          /\ Uno(sc.en \in ScDeVuelta) \in Nat
      BY Naturales, NaturalesSRT DEF TypeOK, NatGrado, Uno
    <3> QED
      BY <2>1, <2>3, <2>5, <3>1, <3>2 DEF EnCamino
  <2>8. DOMAIN syscalls' = {}
    BY <2>1, <2>3, Vacio
  <2> QED
    BY <1>i, <2>1, <2>2, <2>3, <2>6, <2>7, <2>8 DEF EjecucionSana
<1>6. CASE Asignar
  <2>1. /\ UNCHANGED <<dispatch, syscalls, cpu, syscall_bloqueante, sc>>
        /\ UNCHANGED <<interrupciones, interrupcion, limpiando>>
    BY <1>6 DEF Asignar, kernel_vars, cpu_vars, cpu_srt
  <2>2. EnCamino' = EnCamino /\ EnCpu' = EnCpu /\ DeVuelta' = DeVuelta
    BY <2>1, MismoCamino
  <2>3. cp.en = "asignar" /\ cp'.en = "ready" /\ ejecucion' = cp.pcb.id /\ cp.pcb.id # NULO
    BY <1>6, CargasSRT, NuloAssumption DEF Asignar, En, CpConPCB, PCB, NuloAssumption
  <2>4. cp.pcb.id \in EnCpu \cup DeVuelta
    BY <1>6, SinAnomalia DEF Asignar
  <2>5. EnCpu \cup DeVuelta = {ejecucion'} \ {NULO}
    BY <2>3, <2>4 DEF EjecucionSana
  <2> QED
    BY <1>i, <2>1, <2>2, <2>3, <2>5 DEF EjecucionSana
<1> QED
  BY <1>1, <1>2, <1>3, <1>4, <1>5, <1>6 DEF HiloReadyAExecuting

\* The steps of esperar_syscall.
LEMMA PasoSanoDeSyscall ==
  ASSUME TypeOK, EjecucionSana,
         (DelKernel /\ UNCHANGED srt_vars) \/ HiloSyscallSRT
  PROVE  EjecucionSana'
<1>c. EnCamino <= 1
  BY DEF EjecucionSana
<1>i. UNCHANGED <<interrupciones, interrupcion, limpiando>> =>
        /\ Pendiente' = Pendiente
        /\ interrupciones' + Uno(Atento)' <= 1 <=> interrupciones + Uno(Atento) <= 1
  BY DEF Pendiente, Atento
<1>1. CASE DelKernel /\ UNCHANGED srt_vars /\ ~RecibirSyscall
  <2>1. /\ EnCamino' = EnCamino /\ EnCpu' = EnCpu /\ DeVuelta' = DeVuelta
        /\ UNCHANGED syscalls
        /\ UNCHANGED sc \/ sc'.en # "desalojar"
    BY <1>1, CaminoDelKernel
  <2>2. UNCHANGED <<cp, ejecucion, interrupciones, interrupcion, limpiando>>
    BY <1>1 DEF srt_vars, cpu_srt
  <2> QED
    BY <1>i, <2>1, <2>2 DEF EjecucionSana
<1>2. CASE RecibirSyscall /\ UNCHANGED srt_vars
  <2>1. /\ EnCamino = 1 /\ Tail(syscalls) = <<>> /\ sc.en \notin ScDeVuelta
        /\ EnCpu = {} /\ DeVuelta = {Head(syscalls).pcb.id}
        /\ 1 \in DOMAIN syscalls /\ syscalls[1] = Head(syscalls)
    BY <1>2, <1>c, Camino DEF RecibirSyscall
  <2>2. syscalls' = <<>> /\ DOMAIN syscalls' = {} /\ UNCHANGED dispatch
    BY <1>2, <2>1, Vacio DEF RecibirSyscall
  <2>3. UNCHANGED <<cp, cpu, syscall_bloqueante, ejecucion, interrupciones, interrupcion, limpiando>>
    BY <1>2 DEF srt_vars, cpu_srt
  <2>4. EnCpu' = EnCpu /\ LugarCpu' = LugarCpu
    BY <2>2, <2>3 DEF EnCpu, LugarCpu
  <2>m. Head(syscalls) \in Syscalls
    BY <1>2, ColaPop DEF RecibirSyscall, TypeOK, KernelTypeOK, TipoCpu
  <2>5. Head(syscalls).pcb \in PCB /\ Head(syscalls).pcb # NULO
    BY <2>m, NuloAssumption DEF Syscalls, NuloAssumption
  <2>6. /\ Head(syscalls).instruccion # "DESALOJO" => sc'.en \in {"bloquear", "liberar_grado"}
        /\ Head(syscalls).instruccion = "DESALOJO" => sc'.en = "desalojar"
        /\ sc'.pcb = Head(syscalls).pcb
    <3>1. Head(syscalls).instruccion \in {"IO", "EXIT", "DESALOJO"}
      BY <2>m DEF Syscalls
    <3> QED
      BY <1>2, <3>1 DEF RecibirSyscall, En
  <2>7. /\ Head(syscalls).instruccion # "DESALOJO" => DeVuelta' = DeVuelta
        /\ Head(syscalls).instruccion = "DESALOJO" => DeVuelta' = {}
    BY <2>1, <2>2, <2>5, <2>6 DEF DeVuelta, IdDe, ScDeVuelta
  <2>8. EnCamino' <= 1
    <3>1. Len(dispatch) = 0 /\ LugarCpu = 0 /\ Len(syscalls') = 0
      <4>1. dispatch = <<>> /\ ~(cpu.pcb # NULO /\ ~syscall_bloqueante)
        BY <1>2, <1>c, Camino DEF RecibirSyscall
      <4> QED
        BY <2>2, <4>1 DEF LugarCpu, Uno
    <3>2. Uno(sc.en \in ScDeVuelta)' \in {0, 1}
      BY DEF Uno
    <3> QED
      BY <2>2, <2>4, <3>1, <3>2 DEF EnCamino
  <2>9. Head(syscalls).instruccion = "DESALOJO" => cp.en = "esperar_desalojo"
    BY <2>1 DEF EjecucionSana
  <2>10. cp.en # "enviar"
    BY <2>1 DEF EjecucionSana
  <2>11. sc'.en = "desalojar" => cp'.en = "esperar_desalojo"
    BY <2>3, <2>6, <2>9
  <2>12. /\ cp'.en \in {"ready", "elegir", "sacar", "interrumpir"} =>
              EnCpu' \cup DeVuelta' = {ejecucion'} \ {NULO}
         /\ cp'.en = "esperar_desalojo" => EnCpu' \cup DeVuelta' \subseteq {ejecucion'} \ {NULO}
         /\ cp'.en = "asignar" => EnCpu' \cup DeVuelta' \subseteq {cp'.pcb.id}
    BY <2>1, <2>3, <2>4, <2>7, <2>9 DEF EjecucionSana
  <2>13. /\ interrupciones' + Uno(Atento)' <= 1
         /\ Pendiente' => cp'.en = "esperar_desalojo" /\ ejecucion' \in EnCpu'
    BY <1>i, <2>3, <2>4 DEF EjecucionSana
  <2> QED
    BY <2>2, <2>3, <2>8, <2>10, <2>11, <2>12, <2>13 DEF EjecucionSana
<1>3. CASE LiberarEjecucion
  <2>1. /\ EnCamino = 1 /\ dispatch = <<>> /\ syscalls = <<>>
        /\ EnCpu = {} /\ DeVuelta = {sc.pcb.id}
    BY <1>3, <1>c, Camino DEF LiberarEjecucion, ScDeVuelta
  <2>2. /\ UNCHANGED <<dispatch, syscalls, cp, cpu, syscall_bloqueante>> /\ ejecucion' = NULO
        /\ UNCHANGED <<interrupciones, interrupcion, limpiando>>
    BY <1>3 DEF LiberarEjecucion, cpu_vars, cpu_srt
  <2>3. EnCpu' = EnCpu /\ LugarCpu' = LugarCpu
    BY <2>2 DEF EnCpu, LugarCpu
  <2>4. sc'.en \notin ScDeVuelta
    BY <1>3 DEF LiberarEjecucion, ScDeVuelta, TypeOK, KernelTypeOK, TipoSc
  <2>5. DOMAIN syscalls' = {}
    BY <2>1, <2>2, Vacio
  <2>6. DeVuelta' = {}
    BY <2>4, <2>5 DEF DeVuelta, ScDeVuelta
  <2>7. EnCamino' = 0
    <3>1. ~(cpu.pcb # NULO /\ ~syscall_bloqueante)
      BY <1>3, <1>c, Camino DEF LiberarEjecucion, ScDeVuelta
    <3>2. Len(dispatch') = 0 /\ LugarCpu' = 0 /\ Len(syscalls') = 0
      BY <2>1, <2>2, <2>3, <3>1 DEF LugarCpu, Uno
    <3>3. Uno(sc.en \in ScDeVuelta)' = 0
      BY <2>4 DEF Uno, ScDeVuelta
    <3> QED
      BY <3>2, <3>3 DEF EnCamino
  <2>8. ~Pendiente
    BY <2>1 DEF EjecucionSana
  <2>9. sc'.en # "desalojar"
    BY <1>3 DEF LiberarEjecucion, TypeOK, KernelTypeOK, TipoSc
  <2> QED
    BY <1>i, <2>1, <2>2, <2>3, <2>5, <2>6, <2>7, <2>8, <2>9 DEF EjecucionSana
<1>4. CASE AgregarDesalojado \/ AvisarReadySyscall
  <2>1. /\ UNCHANGED <<dispatch, syscalls, cp, cpu, syscall_bloqueante, ejecucion>>
        /\ UNCHANGED <<interrupciones, interrupcion, limpiando>>
    BY <1>4 DEF AgregarDesalojado, AvisarReadySyscall, cpu_vars, cpu_srt
  <2>2. sc.en \notin ScDeVuelta /\ sc'.en \notin ScDeVuelta /\ sc'.en # "desalojar"
    BY <1>4 DEF AgregarDesalojado, AvisarReadySyscall, ScDeVuelta, En, TypeOK, KernelTypeOK, TipoSc
  <2>3. EnCamino' = EnCamino /\ EnCpu' = EnCpu /\ DeVuelta' = DeVuelta
    BY <2>1, <2>2, MismoCamino
  <2> QED
    BY <1>i, <2>1, <2>2, <2>3 DEF EjecucionSana
<1> QED
  BY <1>1, <1>2, <1>3, <1>4 DEF HiloSyscallSRT

\* What the CPU is told to stop is the process the scheduler waits for.
LEMMA AvisoOportuno ==
  ASSUME TypeOK, EjecucionSana, Banderas, ChequearInterrupcion
  PROVE  /\ cp.en = "esperar_desalojo" /\ ejecucion \in EnCpu
         /\ Atento /\ interrupciones = 0
<1>1. ~limpiando /\ Atento
  BY DEF ChequearInterrupcion, Banderas, Atento
<1>2. Pendiente
  BY <1>1 DEF Pendiente
<1> QED
  BY <1>1, <1>2, AvisosContados DEF EjecucionSana

\* The steps of the CPU.
LEMMA PasoSanoDeLaCPU ==
  ASSUME TypeOK, TypeOK', EjecucionSana, Banderas, EnPie,
         CpuRecibir \/ HiloExecuter \/ RecibirInterrupcion, anomalias' = {}
  PROVE  IF doble_envio' THEN cp'.en = "esperar_desalojo" ELSE EjecucionSana'
<1>t. cpu \in [en: {"libre", "listo", "chequear"}, pcb: PCB \cup {NULO}]
  BY DEF TypeOK
<1>c. EnCamino <= 1 /\ ~doble_envio
  BY DEF EjecucionSana, EnPie
<1>n. /\ Len(dispatch) \in Nat /\ LugarCpu \in Nat /\ Len(syscalls) \in Nat
      /\ Uno(sc.en \in ScDeVuelta) \in Nat
  BY Naturales, NaturalesSRT DEF TypeOK, NatGrado, Uno
<1>a. /\ interrupciones \in Nat
      /\ ~Pendiente <=> interrupciones = 0 /\ ~Atento
      /\ interrupciones = 0 \/ (interrupciones = 1 /\ ~Atento)
  BY AvisosContados DEF EjecucionSana
<1>i. UNCHANGED <<interrupciones, interrupcion, limpiando>> =>
        /\ Pendiente' = Pendiente
        /\ interrupciones' + Uno(Atento)' <= 1 <=> interrupciones + Uno(Atento) <= 1
  BY DEF Pendiente, Atento
<1>s. Uno(sc.en \in ScDeVuelta)' = Uno(sc.en \in ScDeVuelta) /\ UNCHANGED sc
  BY DEF CpuRecibir, HiloExecuter, CpuInstruccion, CpuIO, CpuExit, CpuSyscall,
     ChequearInterrupcion, ChequearSyscall, ChequearNada, LimpiarInterrupcion,
     RecibirInterrupcion, kernel_vars, ScDeVuelta
<1>1. CASE CpuRecibir
  <2>1. /\ Tail(dispatch) = <<>> /\ EnCpu = {Head(dispatch).id} /\ DeVuelta = {}
        /\ cpu.pcb = NULO /\ ~syscall_bloqueante
    BY <1>1, <1>c, Camino DEF CpuRecibir, Banderas, TypeOK
  <2>2. Head(dispatch) # NULO /\ Len(dispatch') = Len(dispatch) - 1
    BY <1>1, ColaPop, NuloAssumption
       DEF CpuRecibir, TypeOK, KernelTypeOK, TipoCpu, NuloAssumption
  <2>3. cpu'.pcb = Head(dispatch) /\ dispatch' = <<>>
    BY <1>1, <2>1 DEF CpuRecibir, En
  <2>4. /\ UNCHANGED <<syscalls, syscall_bloqueante, cp, ejecucion, doble_envio>>
        /\ UNCHANGED <<interrupciones, interrupcion, limpiando>>
    BY <1>1 DEF CpuRecibir
  <2>5. Ids(dispatch') = {}
    BY <2>3, Vacio DEF Ids
  <2>6. EnCpu' = EnCpu
    BY <2>1, <2>2, <2>3, <2>4, <2>5 DEF EnCpu, IdDe
  <2>7. DeVuelta' = DeVuelta
    BY <1>s, <2>4 DEF DeVuelta
  <2>8. EnCamino' = EnCamino
    <3>1. LugarCpu = 0 /\ LugarCpu' = 1
      BY <2>1, <2>2, <2>3, <2>4 DEF LugarCpu, Uno
    <3> QED
      BY <1>n, <1>s, <2>2, <2>4, <3>1 DEF EnCamino
  <2> QED
    BY <1>c, <1>i, <1>s, <2>4, <2>6, <2>7, <2>8 DEF EjecucionSana
<1>2. CASE CpuInstruccion \/ ChequearNada
  <2>1. cpu'.pcb = cpu.pcb
    BY <1>2, <1>t DEF CpuInstruccion, ChequearNada
  <2>2. /\ UNCHANGED <<dispatch, syscalls, syscall_bloqueante, cp, ejecucion, doble_envio>>
        /\ UNCHANGED <<interrupciones, interrupcion, limpiando>>
    BY <1>2 DEF CpuInstruccion, ChequearNada, kernel_vars, cpu_vars
  <2>3. EnCamino' = EnCamino /\ EnCpu' = EnCpu /\ DeVuelta' = DeVuelta
    BY <1>s, <2>1, <2>2, MismoCamino
  <2> QED
    BY <1>c, <1>i, <1>s, <2>2, <2>3 DEF EjecucionSana
\* A process leaves the CPU.
<1>3. ASSUME NEW m \in Syscalls, m.pcb.id = cpu.pcb.id, syscalls' = Append(syscalls, m),
             cpu.en # "libre", ~syscall_bloqueante, syscall_bloqueante' \/ cpu'.pcb = NULO,
             UNCHANGED <<dispatch, cp, ejecucion, doble_envio>>,
             ~Pendiente', interrupciones' + Uno(Atento)' <= 1,
             m.instruccion = "DESALOJO" => cp.en = "esperar_desalojo"
      PROVE  EjecucionSana'
  <2>1. cpu.pcb # NULO
    BY <1>3, CargasSRT
  <2>2. /\ EnCamino = 1 /\ dispatch = <<>> /\ sc.en \notin ScDeVuelta
        /\ EnCpu = {cpu.pcb.id} /\ DeVuelta = {} /\ syscalls = <<>>
    BY <1>3, <1>c, <2>1, Camino
  <2>3. syscalls' = <<m>>
    BY <1>3, <2>2
  <2>4. DOMAIN syscalls' = {1} /\ syscalls'[1] = m /\ Len(syscalls') = Len(syscalls) + 1
    BY <2>2, <2>3
  <2>5. EnCpu' = {}
    <3>1. Ids(dispatch') = {}
      BY <1>3, <2>2, Vacio DEF Ids
    <3> QED
      BY <1>3, <3>1 DEF EnCpu, IdDe
  <2>6. DeVuelta' = {cpu.pcb.id}
    <3>1. sc'.en \notin ScDeVuelta'
      BY <1>s, <2>2 DEF ScDeVuelta
    <3> QED
      BY <1>3, <2>4, <3>1 DEF DeVuelta
  <2>7. EnCamino' = EnCamino
    <3>1. LugarCpu = 1 /\ LugarCpu' = 0
      BY <1>3, <2>1 DEF LugarCpu, Uno
    <3> QED
      BY <1>3, <1>n, <1>s, <2>4, <3>1 DEF EnCamino
  <2>8. sc'.en = "desalojar" => cp'.en = "esperar_desalojo"
    BY <1>3, <1>s DEF EjecucionSana
  <2> QED
    BY <1>3, <1>s, <2>2, <2>4, <2>5, <2>6, <2>7, <2>8 DEF EjecucionSana
<1>4. CASE CpuIO \/ CpuExit
  <2>1. cpu.en = "listo" /\ ~syscall_bloqueante /\ syscall_bloqueante'
    BY <1>4, <1>c DEF CpuIO, CpuExit, CpuSyscall, PuedeEjecutar, Banderas
  <2>2. PICK m \in Syscalls :
          /\ m.pcb.id = cpu.pcb.id /\ syscalls' = Append(syscalls, m)
          /\ m.instruccion # "DESALOJO"
    BY <1>4, <2>1, CargasSRT DEF CpuIO, CpuExit, CpuSyscall
  <2>3. /\ UNCHANGED <<dispatch, cp, ejecucion, doble_envio>>
        /\ UNCHANGED <<interrupciones, interrupcion, limpiando>>
    BY <1>4 DEF CpuIO, CpuExit, CpuSyscall
  <2>4. Anotar("interrupcion_tardia", interrupcion \/ interrupciones > 0)
    BY <1>4 DEF CpuIO, CpuExit, CpuSyscall
  <2>5. ~(interrupcion \/ interrupciones > 0)
    BY <2>4 DEF Anotar
  <2>6. ~Pendiente
    BY <2>5 DEF Pendiente, Atento
  <2>7. ~Pendiente' /\ interrupciones' + Uno(Atento)' <= 1
    BY <1>i, <2>3, <2>6 DEF EjecucionSana
  <2> QED
    BY <1>3, <1>c, <2>1, <2>2, <2>3, <2>7
<1>5. CASE ChequearInterrupcion
  <2>1. cp.en = "esperar_desalojo" /\ interrupciones = 0 /\ UNCHANGED <<cp, interrupciones>>
    BY <1>5, AvisoOportuno DEF ChequearInterrupcion
  <2>2. CASE doble_envio'
    BY <2>1, <2>2
  <2>3. CASE ~doble_envio'
    <3>1. /\ cpu.en # "libre" /\ ~syscall_bloqueante /\ cpu'.pcb = NULO
          /\ UNCHANGED <<dispatch, cp, ejecucion>>
      BY <1>5, <2>3 DEF ChequearInterrupcion, En
    <3>2. PICK m \in Syscalls : m.pcb.id = cpu.pcb.id /\ syscalls' = Append(syscalls, m)
      BY <1>5, <3>1, CargasSRT DEF ChequearInterrupcion
    <3>3. interrupciones' = 0 /\ ~Atento'
      BY <1>5, <2>1 DEF ChequearInterrupcion, Atento
    <3>4. ~Pendiente' /\ interrupciones' + Uno(Atento)' <= 1
      BY <3>3, AvisosContadosDespues
    <3>5. UNCHANGED doble_envio
      BY <1>5, <1>c, <3>1 DEF ChequearInterrupcion, TypeOK
    <3> QED
      BY <1>3, <2>1, <2>3, <3>1, <3>2, <3>4, <3>5
  <2> QED
    BY <2>2, <2>3
<1>6. CASE ChequearSyscall
  <2>1. /\ UNCHANGED <<dispatch, syscalls, cp, ejecucion, doble_envio>>
        /\ UNCHANGED <<interrupciones, interrupcion, limpiando>>
    BY <1>6 DEF ChequearSyscall, kernel_vars, cpu_vars
  <2>2. syscall_bloqueante /\ cpu'.pcb = NULO
    BY <1>6 DEF ChequearSyscall, En
  <2>3. LugarCpu' = LugarCpu /\ EnCpu' = EnCpu
    BY <2>1, <2>2 DEF LugarCpu, EnCpu, Uno, IdDe
  <2>4. DeVuelta' = DeVuelta
    BY <1>s, <2>1 DEF DeVuelta
  <2>5. EnCamino' = EnCamino
    BY <1>s, <2>1, <2>3 DEF EnCamino
  <2> QED
    BY <1>c, <1>i, <1>s, <2>1, <2>3, <2>4, <2>5 DEF EjecucionSana
<1>7. CASE LimpiarInterrupcion \/ RecibirInterrupcion
  <2>1. UNCHANGED <<dispatch, syscalls, cpu, syscall_bloqueante, cp, ejecucion, doble_envio>>
    BY <1>7 DEF LimpiarInterrupcion, RecibirInterrupcion, kernel_vars, cpu_vars
  <2>2. EnCamino' = EnCamino /\ EnCpu' = EnCpu /\ DeVuelta' = DeVuelta
    BY <1>s, <2>1, MismoCamino
  <2>3. (Pendiente' => Pendiente) /\ interrupciones' + Uno(Atento)' <= 1
    <3>1. CASE LimpiarInterrupcion
      <4>1. ~Atento /\ ~Atento' /\ interrupciones' = interrupciones
        BY <3>1 DEF LimpiarInterrupcion, Atento
      <4> QED
        BY <1>a, <4>1, AvisosContadosDespues
    <3>2. CASE RecibirInterrupcion
      <4>1. Pendiente
        BY <3>2 DEF RecibirInterrupcion, Pendiente
      <4>2. interrupciones' = 0
        BY <1>a, <3>2 DEF RecibirInterrupcion
      <4> QED
        BY <4>1, <4>2, AvisosContadosDespues
    <3> QED
      BY <1>7, <3>1, <3>2
  <2> QED
    BY <1>c, <1>s, <2>1, <2>2, <2>3 DEF EjecucionSana
<1> QED
  BY <1>1, <1>2, <1>4, <1>5, <1>6, <1>7 DEF HiloExecuter

LEMMA PasoEjecucion == TypeOK /\ Cuentas /\ Ejecucion /\ [Next]_vars => Ejecucion'
<1>1. ASSUME TypeOK, Cuentas, Ejecucion, Next, anomalias' = {}
      PROVE  IF doble_envio' THEN cp'.en = "esperar_desalojo" ELSE EjecucionSana'
  <2>1. anomalias = {}
    BY <1>1, AnomaliasQuedan
  <2>2. EjecucionSana /\ ~doble_envio /\ EnPie /\ Banderas /\ HayParaElegir
    BY <1>1, <2>1 DEF Ejecucion, Next, EnPie, Cuentas
  <2>t. TypeOK'
    BY <1>1, NextTypeOK
  <2>3. CASE (DelKernel /\ UNCHANGED srt_vars) \/ HiloSyscallSRT
    <3>1. UNCHANGED doble_envio
      BY <2>3 DEF srt_vars, cpu_srt, HiloSyscallSRT, LiberarEjecucion, AgregarDesalojado,
         AvisarReadySyscall
    <3> QED
      BY <1>1, <2>2, <2>3, <3>1, PasoSanoDeSyscall
  <2>4. CASE HiloReadyAExecuting
    <3>1. UNCHANGED doble_envio
      BY <2>4 DEF HiloReadyAExecuting, EsperarReady, NadaEnReady, Permanece, ElegirOtro, Sacar,
         SinInterrumpir, Interrumpir, EsperarDesalojo, Enviar, Asignar, cpu_srt
    <3> QED
      BY <1>1, <2>2, <2>t, <2>4, <3>1, PasoSanoDelPlanificador
  <2>5. CASE CpuRecibir \/ HiloExecuter \/ RecibirInterrupcion
    BY <1>1, <2>2, <2>t, <2>5, PasoSanoDeLaCPU
  <2> QED
    BY <1>1, <2>3, <2>4, <2>5 DEF Next
<1>2. ASSUME Ejecucion, UNCHANGED vars PROVE Ejecucion'
  <2>1. /\ UNCHANGED <<dispatch, syscalls, sc, cp, ejecucion, cpu, syscall_bloqueante>>
        /\ UNCHANGED <<interrupciones, interrupcion, limpiando, doble_envio, anomalias>>
    BY <1>2 DEF vars, kernel_vars, cpu_vars, srt_vars, cpu_srt
  <2>2. EnCamino' = EnCamino /\ EnCpu' = EnCpu /\ DeVuelta' = DeVuelta
    BY <2>1, MismoCamino
  <2>3. /\ Pendiente' = Pendiente
        /\ interrupciones' + Uno(Atento)' <= 1 <=> interrupciones + Uno(Atento) <= 1
    BY <2>1 DEF Pendiente, Atento
  <2> QED
    BY <1>2, <2>1, <2>2, <2>3 DEF Ejecucion, EjecucionSana
<1> QED
  BY <1>1, <1>2 DEF Ejecucion

LEMMA InitEjecucion == Init => Ejecucion
<1> SUFFICES ASSUME Init PROVE EjecucionSana
  BY DEF Ejecucion, Init
<1>1. /\ dispatch = <<>> /\ syscalls = <<>> /\ cpu.pcb = NULO /\ sc.en = "esperar"
      /\ cp.en = "ready" /\ ejecucion = NULO /\ interrupciones = 0 /\ interrupcion = FALSE
  BY DEF Init, KernelInit, En
<1>2. EnCpu = {} /\ DeVuelta = {}
  BY <1>1, Vacio DEF EnCpu, DeVuelta, Ids, IdDe, ScDeVuelta
<1>3. EnCamino = 0
  BY <1>1 DEF EnCamino, LugarCpu, Uno, ScDeVuelta
<1>4. ~Pendiente /\ interrupciones + Uno(Atento) <= 1
  BY <1>1 DEF Pendiente, Atento, Uno
<1>5. DOMAIN syscalls = {}
  BY <1>1, Vacio
<1> QED
  BY <1>1, <1>2, <1>3, <1>4, <1>5 DEF EjecucionSana

-----------------------------------------------------------------------------
\* Suspensors

LlevaABloquear == {"bloquear", "enlazar", "crear_suspensor"}

\* What the scheduler, the CPU and the rest of esperar_syscall leave to the
\* threads of Kernel.
LEMMA PasosAjenos ==
  ASSUME TypeOK, Next, ~(DelKernel /\ UNCHANGED srt_vars)
  PROVE  /\ UNCHANGED <<consola, cola_new, cola_suspended_ready, cola_blocked, lp, io, suspension>>
         /\ sem'["suspendiendo"] = sem["suspendiendo"]
         /\ sc' = sc \/ (sc.en \notin LlevaABloquear /\ sc'.en \notin LlevaABloquear)
         /\ syscalls' = syscalls \/ CpuIO \/ CpuExit \/ ChequearInterrupcion
<1>1. CASE HiloReadyAExecuting
  <2>1. UNCHANGED <<consola, cola_new, cola_suspended_ready, cola_blocked, lp, io, suspension,
                    sc, syscalls>>
    BY <1>1 DEF HiloReadyAExecuting, EsperarReady, NadaEnReady, Permanece, ElegirOtro, Sacar,
       SinInterrumpir, Interrumpir, EsperarDesalojo, Enviar, Asignar, kernel_vars, sockets,
       cpu_vars, colas
  <2>2. sem'["suspendiendo"] = sem["suspendiendo"]
    BY <1>1, SemAjeno DEF HiloReadyAExecuting, EsperarReady, NadaEnReady, Permanece, ElegirOtro,
       Sacar, SinInterrumpir, Interrumpir, EsperarDesalojo, Enviar, Asignar, kernel_vars,
       TypeOK, KernelTypeOK, Semaforos
  <2> QED
    BY <2>1, <2>2
<1>2. CASE HiloSyscallSRT
  <2>1. /\ UNCHANGED <<consola, cola_new, cola_suspended_ready, cola_blocked, lp, io, suspension,
                       syscalls>>
        /\ sc.en \notin LlevaABloquear /\ sc'.en \notin LlevaABloquear
    BY <1>2 DEF HiloSyscallSRT, LiberarEjecucion, AgregarDesalojado, AvisarReadySyscall, sockets,
       cpu_vars, colas, En, LlevaABloquear, TypeOK, KernelTypeOK, TipoSc
  <2>2. sem'["suspendiendo"] = sem["suspendiendo"]
    BY <1>2, SemAjeno DEF HiloSyscallSRT, LiberarEjecucion, AgregarDesalojado,
       AvisarReadySyscall, TypeOK, KernelTypeOK, Semaforos
  <2> QED
    BY <2>1, <2>2
<1>3. CASE CpuRecibir \/ HiloExecuter \/ RecibirInterrupcion
  <2>1. UNCHANGED <<consola, cola_new, cola_suspended_ready, cola_blocked, lp, io, suspension,
                    sem, sc>>
    BY <1>3 DEF CpuRecibir, HiloExecuter, CpuInstruccion, CpuIO, CpuExit, CpuSyscall,
       ChequearInterrupcion, ChequearSyscall, ChequearNada, LimpiarInterrupcion,
       RecibirInterrupcion, kernel_vars, sockets, colas
  <2>2. syscalls' = syscalls \/ CpuIO \/ CpuExit \/ ChequearInterrupcion
    BY <1>3 DEF CpuRecibir, HiloExecuter, CpuInstruccion, ChequearSyscall, ChequearNada,
       LimpiarInterrupcion, RecibirInterrupcion, kernel_vars, cpu_vars
  <2> QED
    BY <2>1, <2>2
<1> QED
  BY <1>1, <1>2, <1>3 DEF Next

\* An I/O in the socket was there before, or the CPU has just asked for it.
LEMMA PedidosDeIO ==
  ASSUME TypeOK, Cuentas, Ubicados, Next,
         NEW m \in Range(syscalls'), m \notin Range(syscalls), m.instruccion = "IO"
  PROVE  /\ CpuIO /\ cpu.pcb \in Lugares["cpu"] /\ cpu.pcb \in PCB /\ sc' = sc
         /\ m.pcb \in PCB /\ m.pcb.id = cpu.pcb.id /\ m.pcb.pc = cpu.pcb.pc + 1
<1>1. CpuIO \/ CpuExit \/ ChequearInterrupcion
  BY PasosAjenos, SyscallsQueQuedan DEF TypeOK
<1>2. cpu.en # "libre" /\ cpu.pcb \in PCB
  BY <1>1, CargasSRT DEF CpuIO, CpuExit, CpuSyscall, PuedeEjecutar, ChequearInterrupcion
<1>3. ASSUME NEW s \in Syscalls, syscalls' = Append(syscalls, s) PROVE m = s
  <2>1. Range(syscalls') = Range(syscalls) \cup {s}
    BY <1>3, RangoPush DEF TypeOK, KernelTypeOK, TipoCpu
  <2> QED
    BY <2>1
<1>4. CpuIO
  <2>1. ASSUME CpuExit PROVE FALSE
    <3>1. m = [instruccion |-> "EXIT", pcb |-> cpu.pcb]
      BY <1>2, <1>3, <2>1, CargasSRT DEF CpuExit, CpuSyscall
    <3> QED
      BY <3>1
  <2>2. ASSUME ChequearInterrupcion PROVE FALSE
    <3>1. m = [instruccion |-> "DESALOJO", pcb |-> cpu.pcb]
      BY <1>2, <1>3, <2>2, CargasSRT DEF ChequearInterrupcion
    <3> QED
      BY <3>1
  <2> QED
    BY <1>1, <2>1, <2>2
<1>5. PICK q : q = [cpu.pcb EXCEPT !.pc = @ + 1]
  OBVIOUS
<1>6. m = [instruccion |-> "IO", pcb |-> q] /\ q \in PCB /\ q.id = cpu.pcb.id
  BY <1>2, <1>3, <1>4, <1>5, CargasSRT DEF CpuIO, CpuSyscall
<1>7. q.pc = cpu.pcb.pc + 1
  BY <1>2, <1>5 DEF PCB
<1>8. cpu.pcb \in Lugares["cpu"]
  BY <1>4, TrasladosSRT DEF Ubicados, Next, EnPie
<1>9. sc' = sc
  BY <1>4 DEF CpuIO, CpuSyscall
<1> QED
  BY <1>2, <1>4, <1>6, <1>7, <1>8, <1>9

\* A PCB comes from one of the same process, that had done no more I/O, or is new.
LEMMA DeDondeViene ==
  ASSUME TypeOK, Cuentas, Ubicados, Next, ~doble_envio', NEW l \in Nombres, NEW x \in Lugares'[l]
  PROVE  \/ \E m \in Nombres : \E y \in Lugares[m] : y.id = x.id /\ y.pc <= x.pc
         \/ \E p \in Procesos : RecibirProceso(p) /\ x = PCBNuevo(p)
<1>p. /\ \A m \in Nombres : Lugares[m] \subseteq PCB
      /\ \A y \in PCB : y.pc \in Nat /\ y.pc <= y.pc
  BY LugaresTipo, KernelAssumption DEF PCB, KernelAssumption
<1>1. CASE x \in Lugares[l]
  BY <1>1, <1>p
<1>k. KernelTypeOK /\ SinRepetidos /\ SyscallsDistintas
  BY DEF TypeOK, Ubicados, Next, EnPie
<1>2. CASE Trasladado
  <2>0. PICK a \in Nombres, c \in Nombres :
          \E u \in Lugares[a] : \E v \in PCB : v.id = u.id /\ v.pc >= u.pc /\ Muda(a, u, c, v)
    BY <1>2 DEF Trasladado
  <2>1. PICK u \in Lugares[a] : \E v \in PCB : v.id = u.id /\ v.pc >= u.pc /\ Muda(a, u, c, v)
    BY <2>0
  <2>2. PICK v \in PCB : v.id = u.id /\ v.pc >= u.pc /\ Muda(a, u, c, v)
    BY <2>1
  <2>3. x \in Lugares[l] \/ x = v
    BY <2>2 DEF Muda, Solo
  <2>4. u.pc <= v.pc
    BY <1>p, <2>2
  <2> QED
    BY <1>1, <2>2, <2>3, <2>4
<1>3. CASE Quieto
  BY <1>1, <1>3 DEF Quieto
<1>4. ASSUME NEW p \in Procesos, RecibirProceso(p), UNCHANGED srt_vars
      PROVE  x \in Lugares[l] \/ x = PCBNuevo(p)
  <2>1. Entra("new", PCBNuevo(p))
    BY <1>4, <1>k, TrasladosDelKernel, DelKernelALugares DEF NombresDelKernel
  <2> QED
    BY <2>1 DEF Entra, Solo
<1>5. CASE /\ UNCHANGED srt_vars
           /\ ResponderConsola \/ (EnlazarBloqueado /\ cola_blocked' = cola_blocked)
  <2>1. Sale("sc", sc.pcb)
    BY <1>5, <1>k, TrasladosDelKernel, DelKernelALugares DEF NombresDelKernel
  <2> QED
    BY <1>1, <2>1 DEF Sale
<1> QED
  BY <1>1, <1>2, <1>3, <1>4, <1>5, Clases

\* They are created by CrearSuspensor only.
LEMMA PasosDeSuspensor ==
  ASSUME TypeOK, Next
  PROVE  \A b \in Bloqueos : susp[b] = "no_creado" /\ susp'[b] # "no_creado" =>
           CrearSuspensor /\ sc'.en = "avisar_io" /\ sc.en = "crear_suspensor" /\ b = Bloqueo(sc.pcb)
<1>1. CASE DelKernel /\ UNCHANGED srt_vars
  BY <1>1, PasosDeSuspensorDelKernel DEF TypeOK, KernelTypeOK, TipoSc, CrearSuspensor
<1>2. CASE ~(DelKernel /\ UNCHANGED srt_vars)
  BY <1>2, PasosAjenos DEF suspension
<1> QED
  BY <1>1, <1>2

\* A process has been blocked as many times as its pc says.
LEMMA PasoEdades ==
  ASSUME TypeOK, Cuentas, Ubicados, Edades, Next
  PROVE  Edades'
<1>1. CASE DelKernel /\ UNCHANGED srt_vars
  BY <1>1, PasoEdadesDelKernel DEF TypeOK, Ubicados, Next, EnPie
<1>2. CASE ~(DelKernel /\ UNCHANGED srt_vars)
  <2>1. ASSUME NEW m \in Range(syscalls'), m \notin Range(syscalls), m.instruccion = "IO"
        PROVE  m.pcb.pc > 0
    <3>1. cpu.pcb \in PCB /\ m.pcb.pc = cpu.pcb.pc + 1
      BY <2>1, PedidosDeIO
    <3> QED
      BY <3>1, KernelAssumption DEF PCB, KernelAssumption
  <2>2. sc' = sc \/ sc'.en \notin {"bloquear", "enlazar", "crear_suspensor"}
    BY <1>2, PasosAjenos DEF LlevaABloquear
  <2> QED
    BY <1>2, <2>1, <2>2, PasosAjenos, EdadesAjenas
<1> QED
  BY <1>1, <1>2

\* A console goes from waiting to its answer.
LEMMA Conectada ==
  ASSUME TypeOK, Next, NEW p \in Procesos, consola'[p] = "sin_conectar"
  PROVE  consola[p] = "sin_conectar"
<1>1. \/ consola' = consola \/ (\E q \in Procesos : RecibirProceso(q)) \/ ResponderConsola
  BY PasosAjenos, DelKernelMarco DEF MarcoDelKernel
<1> QED
  BY <1>1 DEF RecibirProceso, ResponderConsola, TypeOK, KernelTypeOK, TipoSockets

\* A suspensor is created once for each block, and not before it.
LEMMA PasoSinSuspensorAun ==
  ASSUME TypeOK, TypeOK', Cuentas, Ubicados, SinSuspensorAun, SuspensorPorCrear, Next, ~doble_envio'
  PROVE  SinSuspensorAun'
<1> USE Nombrados
<1>p. \A y \in PCB : /\ y.pc \in Nat /\ y.id \in Procesos /\ Bloqueo(y) \in Bloqueos
                     /\ Bloqueo(y)[1] = y.id /\ Bloqueo(y)[2] = y.pc
  BY KernelAssumption DEF PCB, KernelAssumption, Bloqueo, Bloqueos
<1>q. /\ \A l \in Nombres : Lugares[l] \subseteq PCB
      /\ \A b \in Bloqueos : b[1] \in Procesos /\ b[2] \in Nat
      /\ sc.en \in ScConPCB => sc.pcb \in PCB
  BY LugaresTipo, KernelAssumption
     DEF TypeOK, KernelTypeOK, TipoSc, Bloqueos, KernelAssumption
<1>c. ASSUME CrearSuspensor PROVE sc.en = "crear_suspensor" /\ sc.pcb \in PCB
  BY <1>c, <1>q DEF CrearSuspensor, ScConPCB
<1>0. ASSUME NEW b \in Bloqueos, susp[b] = "no_creado", ~(CrearSuspensor /\ b = Bloqueo(sc.pcb))
      PROVE  susp'[b] = "no_creado"
  BY <1>0, PasosDeSuspensor
<1>1. ASSUME NEW b \in Bloqueos, consola'[b[1]] = "sin_conectar" PROVE susp'[b] = "no_creado"
  <2>1. consola[b[1]] = "sin_conectar"
    BY <1>1, <1>q, Conectada
  <2>2. ~(CrearSuspensor /\ b = Bloqueo(sc.pcb))
    BY <1>c, <1>p, <2>1 DEF SuspensorPorCrear
  <2> QED
    BY <1>0, <2>1, <2>2 DEF SinSuspensorAun
<1>2. ASSUME NEW l \in Nombres, NEW x \in Lugares'[l], NEW b \in Bloqueos,
             b[1] = x.id, b[2] > x.pc
      PROVE  susp'[b] = "no_creado"
  <2>0. x \in PCB
    <3>1. (\A m \in Nombres : Lugares[m] \subseteq PCB)'
      BY TipoDeLugaresPrima DEF LugaresDePCB
    <3>2. Nombres' = Nombres /\ PCB' = PCB
      BY DEF Nombres, NombresDelKernel, PCB
    <3> QED
      BY <3>1, <3>2
  <2>1. ASSUME NEW m \in Nombres, NEW y \in Lugares[m], y.id = x.id, y.pc <= x.pc
        PROVE  susp'[b] = "no_creado"
    <3>1. b[2] > y.pc /\ b[1] = y.id
      BY <1>2, <1>p, <1>q, <2>0, <2>1
    <3>2. susp[b] = "no_creado"
      BY <3>1 DEF SinSuspensorAun
    <3>3. ASSUME CrearSuspensor, b = Bloqueo(sc.pcb) PROVE FALSE
      <4>1. y.id = sc.pcb.id /\ sc.pcb.pc = b[2] /\ sc.en = "crear_suspensor"
        BY <1>c, <1>p, <3>1, <3>3
      <4>2. y.pc >= sc.pcb.pc
        BY <4>1 DEF SuspensorPorCrear
      <4> QED
        BY <1>c, <1>p, <1>q, <3>1, <3>3, <4>1, <4>2
    <3> QED
      BY <1>0, <3>2, <3>3
  <2>2. ASSUME NEW p \in Procesos, RecibirProceso(p), x = PCBNuevo(p)
        PROVE  susp'[b] = "no_creado"
    <3>1. consola[b[1]] = "sin_conectar"
      BY <1>2, <2>2 DEF RecibirProceso, PCBNuevo
    <3>2. ~(CrearSuspensor /\ b = Bloqueo(sc.pcb))
      BY <1>c, <1>p, <3>1 DEF SuspensorPorCrear
    <3> QED
      BY <1>0, <3>1, <3>2 DEF SinSuspensorAun
  <2> QED
    BY <2>1, <2>2, DeDondeViene
<1>3. ASSUME NEW m \in Range(syscalls'), m.instruccion = "IO"
      PROVE  susp'[Bloqueo(m.pcb)] = "no_creado"
  <2>1. CASE m \in Range(syscalls)
    <3>1. m.pcb \in PCB
      BY <2>1, <1>q, CadaLugar DEF Nombres, NombresDelKernel
    <3>2. susp[Bloqueo(m.pcb)] = "no_creado"
      BY <1>3, <2>1 DEF SinSuspensorAun
    <3>3. ASSUME CrearSuspensor, Bloqueo(m.pcb) = Bloqueo(sc.pcb) PROVE FALSE
      <4>1. m.pcb.id = sc.pcb.id /\ m.pcb.pc = sc.pcb.pc /\ sc.en = "crear_suspensor"
        BY <1>c, <1>p, <3>1, <3>3
      <4>2. m.pcb.pc > sc.pcb.pc
        BY <1>3, <2>1, <4>1 DEF SuspensorPorCrear
      <4> QED
        BY <1>p, <3>1, <4>1, <4>2
    <3> QED
      BY <1>0, <1>p, <3>1, <3>2, <3>3
  <2>2. CASE m \notin Range(syscalls)
    <3>1. /\ cpu.pcb \in Lugares["cpu"] /\ cpu.pcb \in PCB /\ sc' = sc
          /\ m.pcb \in PCB /\ m.pcb.id = cpu.pcb.id /\ m.pcb.pc = cpu.pcb.pc + 1
      BY <1>3, <2>2, PedidosDeIO
    <3>2. Bloqueo(m.pcb) \in Bloqueos /\ Bloqueo(m.pcb)[1] = cpu.pcb.id
          /\ Bloqueo(m.pcb)[2] > cpu.pcb.pc
      BY <1>p, <3>1
    <3>3. susp[Bloqueo(m.pcb)] = "no_creado"
      BY <3>1, <3>2 DEF SinSuspensorAun, Nombres
    <3>4. ~(susp'[Bloqueo(m.pcb)] # "no_creado")
      BY <3>1, <3>2, <3>3, PasosDeSuspensor
    <3> QED
      BY <3>4
  <2>3. CASE m \in Range(syscalls) \/ m \notin Range(syscalls)
    BY <2>1, <2>2
  <2> QED
    BY <2>3
<1>4. ASSUME sc'.en \in {"bloquear", "enlazar", "crear_suspensor"}
      PROVE  susp'[Bloqueo(sc'.pcb)] = "no_creado"
  <2>0. PICK y : y = sc'.pcb
    OBVIOUS
  <2>1. y \in PCB
    BY <1>4, <2>0 DEF TypeOK, KernelTypeOK, TipoSc, ScConPCB
  <2>2. susp[Bloqueo(y)] = "no_creado"
    <3>1. CASE DelKernel /\ UNCHANGED srt_vars
      BY <1>4, <2>0, <3>1, PasosDeScDelKernel, SyscallsQueQuedan DEF SinSuspensorAun, TypeOK
    <3>2. CASE ~(DelKernel /\ UNCHANGED srt_vars)
      BY <1>4, <2>0, <3>2, PasosAjenos DEF LlevaABloquear, SinSuspensorAun
    <3> QED
      BY <3>1, <3>2
  <2>3. susp'[Bloqueo(y)] = "no_creado"
    BY <1>4, <1>p, <2>1, <2>2, PasosDeSuspensor
  <2> QED
    BY <2>0, <2>3 DEF Bloqueo
<1> QED
  BY <1>1, <1>2, <1>3, <1>4 DEF SinSuspensorAun

\* While one is to be created its process does not ask for the same block again.
LEMMA PasoSuspensorPorCrear ==
  ASSUME TypeOK, TypeOK', Cuentas, Ubicados, SuspensorPorCrear, Next, ~doble_envio'
  PROVE  SuspensorPorCrear'
<1> USE Nombrados
<1> SUFFICES ASSUME sc'.en = "crear_suspensor" PROVE SuspensorPorCrear'
  BY DEF SuspensorPorCrear
<1>u. EnUnSoloLugar /\ ALoSumoUnExtraviado
  BY DEF Ubicados, Next, EnPie
<1>0. PICK s : s = sc'.pcb
  OBVIOUS
<1>1. s \in PCB /\ s.id \in Procesos /\ s.pc \in Nat
  BY <1>0, KernelAssumption DEF TypeOK, KernelTypeOK, TipoSc, ScConPCB, PCB, KernelAssumption
\* What is so of the places and of the socket before the step ...
<1>2. /\ consola[s.id] # "sin_conectar"
      /\ \A l \in Nombres : \A y \in Lugares[l] : y.id = s.id => y.pc >= s.pc
      /\ \A m \in Range(syscalls) : m.instruccion = "IO" /\ m.pcb.id = s.id => m.pcb.pc > s.pc
  <2>1. CASE sc.en = "crear_suspensor" /\ sc.pcb = s
    BY <2>1 DEF SuspensorPorCrear
  <2>2. CASE EnlazarBloqueado
    <3>1. s = sc.pcb /\ sc.en = "enlazar"
      BY <1>0, <2>2 DEF EnlazarBloqueado, TypeOK, KernelTypeOK, TipoSc
    <3>2. s \in Lugares["sc"] /\ "sc" \in Nombres /\ "syscalls" \in Nombres
      BY <3>1, CadaLugar DEF ScDuenio, Nombres, NombresDelKernel
    <3>3. consola[s.id] = "esperando"
      BY <1>1, <1>u, <3>2 DEF ALoSumoUnExtraviado, EnAlgunLugar
    <3>4. \A l \in Nombres : \A y \in Lugares[l] : y.id = s.id => l = "sc" /\ y = s
      BY <1>u, <3>2 DEF EnUnSoloLugar
    <3>5. \A m \in Range(syscalls) : m.pcb.id # s.id
      <4>1. \A m \in Range(syscalls) : m.pcb \in Lugares["syscalls"]
        BY CadaLugar
      <4> QED
        BY <3>2, <3>4, <4>1
    <3> QED
      BY <1>1, <3>3, <3>4, <3>5
  <2>3. \/ sc.en = "crear_suspensor" /\ sc.pcb = s
        \/ EnlazarBloqueado
    <3>1. CASE DelKernel /\ UNCHANGED srt_vars
      <4>1. CASE sc' = sc
        BY <1>0, <4>1
      <4>2. CASE HiloSyscall
        BY <1>0, <4>2 DEF HiloSyscall, RecibirSyscall, BuscarUltimo, CrearSuspensor, AvisarIO,
           LiberarGrado, PedirFin, RecibirFin, ResponderConsola, En, TypeOK, KernelTypeOK, TipoSc
      <4> QED
        BY <3>1, <4>1, <4>2, DelKernelMarco DEF MarcoDelKernel
    <3>2. CASE ~(DelKernel /\ UNCHANGED srt_vars)
      BY <1>0, <3>2, PasosAjenos DEF LlevaABloquear
    <3> QED
      BY <3>1, <3>2
  <2> QED
    BY <2>1, <2>2, <2>3
\* ... is so after it.
<1>3. consola'[s.id] # "sin_conectar"
  BY <1>1, <1>2, Conectada
<1>4. ASSUME NEW l \in Nombres, NEW x \in Lugares'[l], x.id = s.id PROVE x.pc >= s.pc
  <2>1. ASSUME NEW p \in Procesos, RecibirProceso(p), x = PCBNuevo(p) PROVE FALSE
    <3>1. x.id = p
      BY <2>1 DEF PCBNuevo
    <3>2. consola[p] = "sin_conectar"
      BY <2>1 DEF RecibirProceso
    <3> QED
      BY <1>2, <1>4, <3>1, <3>2
  <2>2. PICK m \in Nombres : \E y \in Lugares[m] : y.id = x.id /\ y.pc <= x.pc
    BY <2>1, DeDondeViene
  <2>3. PICK y \in Lugares[m] : y.id = x.id /\ y.pc <= x.pc
    BY <2>2
  <2>4. y.pc >= s.pc
    BY <1>2, <1>4, <2>3
  <2>5. y.pc \in Nat /\ x.pc \in Nat
    <3>1. (\A n \in Nombres : Lugares[n] \subseteq PCB)'
      BY TipoDeLugaresPrima DEF LugaresDePCB
    <3>2. Nombres' = Nombres /\ PCB' = PCB
      BY DEF Nombres, NombresDelKernel, PCB
    <3>3. y \in PCB /\ x \in PCB
      BY <2>3, <3>1, <3>2, LugaresTipo
    <3> QED
      BY <3>3, KernelAssumption DEF PCB, KernelAssumption
  <2> QED
    BY <1>1, <2>3, <2>4, <2>5
<1>5. ASSUME NEW m \in Range(syscalls'), m.instruccion = "IO", m.pcb.id = s.id
      PROVE  m.pcb.pc > s.pc
  <2>1. CASE m \in Range(syscalls)
    BY <1>2, <1>5, <2>1
  <2>2. CASE m \notin Range(syscalls)
    <3>1. /\ cpu.pcb \in Lugares["cpu"] /\ cpu.pcb \in PCB
          /\ m.pcb.id = cpu.pcb.id /\ m.pcb.pc = cpu.pcb.pc + 1
      BY <1>5, <2>2, PedidosDeIO
    <3>2. cpu.pcb.pc >= s.pc /\ cpu.pcb.pc \in Nat
      BY <1>2, <1>5, <3>1, KernelAssumption DEF Nombres, PCB, KernelAssumption
    <3> QED
      BY <1>1, <3>1, <3>2
  <2>3. CASE m \in Range(syscalls) \/ m \notin Range(syscalls)
    BY <2>1, <2>2
  <2> QED
    BY <2>3
<1> QED
  BY <1>0, <1>3, <1>4, <1>5 DEF SuspensorPorCrear

\* suspendiendo is a mutex between hilo_io and the suspensors, and what they say to
\* each other by esta_suspendido is so.
LEMMA PasoSuspension ==
  ASSUME TypeOK, Exclusion, EstaSuspendidoAlDia, SinSuspensorAun, Next
  PROVE  Exclusion' /\ EstaSuspendidoAlDia'
<1>1. CASE DelKernel /\ UNCHANGED srt_vars
  <2>1. CrearSuspensor => susp[Bloqueo(sc.pcb)] = "no_creado"
    BY DEF CrearSuspensor, SinSuspensorAun
  <2> QED
    BY <1>1, <2>1, PasoExclusionDelKernel, PasoEstaSuspendidoDelKernel DEF TypeOK
<1>2. CASE ~(DelKernel /\ UNCHANGED srt_vars)
  BY <1>2, PasosAjenos, SuspensionAjena
<1> QED
  BY <1>1, <1>2

\* Suspensores is kept by every step, and holds at the start.
LEMMA PasoSuspensores ==
  TypeOK /\ TypeOK' /\ Cuentas /\ Ubicados /\ Suspensores /\ [Next]_vars => Suspensores'
<1>1. ASSUME TypeOK, TypeOK', Cuentas, Ubicados, Suspensores, Next, ~doble_envio'
      PROVE  Suspensores'
  <2>1. Edades /\ Exclusion /\ EstaSuspendidoAlDia /\ SinSuspensorAun /\ SuspensorPorCrear
    BY <1>1 DEF Suspensores, Next, EnPie
  <2>2. Edades' /\ Exclusion' /\ EstaSuspendidoAlDia'
    BY <1>1, <2>1, PasoEdades, PasoSuspension
  <2>3. SinSuspensorAun' /\ SuspensorPorCrear'
    BY <1>1, <2>1, PasoSinSuspensorAun, PasoSuspensorPorCrear
  <2> QED
    BY <2>2, <2>3 DEF Suspensores
<1>2. ASSUME Suspensores, UNCHANGED vars PROVE Suspensores'
  <2>1. UNCHANGED <<consola, cola_new, cola_suspended_ready, cola_blocked, lp, sc, io,
                    syscalls, sem, susp, cancelado, esta_suspendido, doble_envio>>
    BY <1>2 DEF vars, kernel_vars, colas, cpu_vars, sockets, suspension, srt_vars, cpu_srt
  <2>2. Lugares' = Lugares
    BY <1>2 DEF vars, kernel_vars, colas, cpu_vars, srt_vars, cpu_srt, Lugares, LugaresDelKernel
  <2>3. Edades' = Edades /\ SinSuspensorAun' = SinSuspensorAun
        /\ SuspensorPorCrear' = SuspensorPorCrear
    BY <2>1, <2>2 DEF Edades, SinSuspensorAun, SuspensorPorCrear, Bloqueo
  <2>4. Exclusion' = Exclusion /\ EstaSuspendidoAlDia' = EstaSuspendidoAlDia
    BY <2>1 DEF Exclusion, EstaSuspendidoAlDia, ConSuspendiendo, Pidiendo, Bloqueo, Uno
  <2> QED
    BY <1>2, <2>1, <2>3, <2>4 DEF Suspensores
<1>3. ASSUME doble_envio' PROVE Suspensores'
  BY <1>3 DEF Suspensores
<1> QED
  BY <1>1, <1>2, <1>3

LEMMA InitSuspensores == Init => Suspensores
<1> SUFFICES ASSUME Init PROVE Suspensores
  OBVIOUS
<1>1. /\ syscalls = <<>> /\ lp.en = "esperar" /\ io.en = "esperar" /\ sc.en = "esperar"
      /\ cola_new = <<>> /\ cola_ready = <<>> /\ cola_blocked = <<>>
      /\ cola_suspended_ready = <<>> /\ dispatch = <<>>
      /\ cp.pcb = NULO /\ cpu.pcb = NULO /\ lp.pcb = NULO /\ io.pcb = NULO
      /\ \A b \in Bloqueos : susp[b] = "no_creado"
      /\ cancelado = {} /\ esta_suspendido = {} /\ sem["suspendiendo"] = 1
  BY DEF Init, KernelInit, En, Semaforos
<1>2. \A l \in Nombres : Lugares[l] = {}
  BY <1>1, CadaLugar, Vacio DEF Nombres, NombresDelKernel, LugarDeCp, LugarDeCpu, ScDuenio
<1>3. io.en \notin IoConPCB
  BY <1>1 DEF IoConPCB
<1>4. ConSuspendiendo = {} /\ Pidiendo = {}
  BY <1>1 DEF ConSuspendiendo, Pidiendo
<1>5. Edades /\ SinSuspensorAun /\ SuspensorPorCrear
  BY <1>1, <1>2, <1>3, Vacio, Nombrados DEF Edades, SinSuspensorAun, SuspensorPorCrear
<1>6. Exclusion /\ EstaSuspendidoAlDia
  BY <1>1, <1>4 DEF Exclusion, EstaSuspendidoAlDia, Uno, IoConSuspendiendo
<1> QED
  BY <1>5, <1>6 DEF Suspensores

-----------------------------------------------------------------------------
\* Theorems

\* Every variable keeps its type: in particular neither the scheduler nor the CPU
\* goes on with a PCB that is not one.
THEOREM TiposCorrectos == Spec => []TypeOK
  BY InitTypeOK, NextTypeOK, PTL DEF Spec

\* What the semaphores count, with a scheduler that waits on procesos_en_ready
\* for two different things, holds in every state.
THEOREM CuentasCorrectas == Spec => []Cuentas
  BY TiposCorrectos, InitCuentas, PasoCuentas, PTL DEF Spec

\* No thread takes from a queue that has nothing, lista_ready included, which
\* procesos_en_ready no longer counts: the kernel crashes only because of the
\* unguarded cola_blocked.
THEOREM SoloCaePorLaCarrera == Spec => []CaidaSoloPorCarrera
<1>1. Cuentas => CaidaSoloPorCarrera
  BY DEF Cuentas
<1> QED
  BY <1>1, CuentasCorrectas, PTL

\* A preempted process keeps its place: the places taken, the places free and
\* the one the race can lose add up to the degree of multiprogramming, for every
\* degree, until the CPU sends a process back twice.
THEOREM GradoSiempreRespetado == Spec => []GradoRespetado
<1>1. Cuentas => GradoRespetado
  BY DEF Cuentas
<1> QED
  BY <1>1, CuentasCorrectas, PTL

\* Each process is in one place, through any preemption, in every state.
THEOREM SiempreUbicados == Spec => []Ubicados
  BY TiposCorrectos, CuentasCorrectas, InitUbicados, PasoUbicados, PTL DEF Spec

\* No preemption loses or duplicates a process, whatever the interleaving of the
\* scheduler, esperar_syscall and the CPU.
THEOREM NadieSePierdeNiDuplica == Spec => []NiPerdidoNiDuplicado
<1>1. TypeOK /\ Ubicados => NiPerdidoNiDuplicado
  <2> SUFFICES ASSUME TypeOK, Ubicados, ~doble_envio PROVE NiPerdidoNiDuplicado
    BY DEF NiPerdidoNiDuplicado
  <2>1. ASSUME NEW p \in Procesos
        PROVE  LET donde == {l \in DOMAIN Lugares : \E x \in Lugares[l] : x.id = p} IN
                 /\ Cardinality(donde) <= 1
                 /\ consola[p] = "esperando" /\ ~cola_rota => Cardinality(donde) = 1
    <3> DEFINE donde == {l \in DOMAIN Lugares : \E x \in Lugares[l] : x.id = p}
    <3>1. \A l, m \in donde : l = m
      BY DEF Ubicados, EnUnSoloLugar
    <3>2. donde = {} \/ \E l : donde = {l}
      BY <3>1
    <3>3. consola[p] = "esperando" /\ ~cola_rota => donde # {}
      BY DEF Ubicados, ALoSumoUnExtraviado, Extraviado, EnAlgunLugar
    <3> HIDE DEF donde
    <3>4. CASE donde = {}
      <4>1. Cardinality(donde) = 0
        BY <3>4, FS_EmptySet
      <4> QED
        BY <3>3, <3>4, <4>1 DEF donde
    <3>5. ASSUME NEW l, donde = {l} PROVE Cardinality(donde) = 1
      BY <3>5, FS_Singleton
    <3>6. CASE donde # {}
      <4>1. Cardinality(donde) = 1
        BY <3>2, <3>5, <3>6
      <4> QED
        BY <4>1 DEF donde
    <3> QED
      BY <3>4, <3>6
  <2>2. ASSUME NEW cola \in {cola_new, cola_ready, cola_blocked, cola_suspended_ready, dispatch}
        PROVE  Cardinality(Ids(cola)) = Len(cola)
    BY IdsContados DEF Ubicados, SinRepetidos, TypeOK, KernelTypeOK, TipoColas, TipoCpu
  <2> QED
    BY <2>1, <2>2 DEF NiPerdidoNiDuplicado
<1> QED
  BY <1>1, TiposCorrectos, SiempreUbicados, PTL

\* While nothing has gone wrong, scheduler, esperar_syscall and CPU agree on who
\* is executing and on whether an interrupt is on its way.
THEOREM EjecucionCorrecta == Spec => []Ejecucion
  BY TiposCorrectos, CuentasCorrectas, InitEjecucion, PasoEjecucion, PTL DEF Spec

\* Every block gets its suspensor once and not before its time, through any
\* preemption, and hilo_io and the suspensors never hold suspendiendo together.
THEOREM SiempreSuspensores == Spec => []Suspensores
  BY TiposCorrectos, CuentasCorrectas, SiempreUbicados, InitSuspensores, PasoSuspensores, PTL
     DEF Spec

\* The invariant that the others follow from, for all values of the constants.
THEOREM SiempreInductiva == Spec => []Inductiva
  BY CuentasCorrectas, SiempreUbicados, EjecucionCorrecta, SiempreSuspensores, PTL DEF Inductiva

\* PCB_EJECUCION, written by two threads without a lock, is right every time the
\* scheduler decides by it, unless an interrupt, an assignment or a post of the
\* three kinds that Anotar names has gone astray.
THEOREM EjecucionSiempreFiel == Spec => []EjecucionFiel
<1>1. Ejecucion => EjecucionFiel
  <2> SUFFICES ASSUME Ejecucion, anomalias = {},
                      cp.en \in {"ready", "elegir", "sacar", "interrumpir"}
               PROVE  EnCpu \cup DeVuelta = (IF ejecucion = NULO THEN {} ELSE {ejecucion})
    BY DEF EjecucionFiel
  <2>1. EnCpu \cup DeVuelta = {ejecucion} \ {NULO}
    BY DEF Ejecucion, EjecucionSana
  <2> QED
    BY <2>1
<1> QED
  BY <1>1, EjecucionCorrecta, PTL

\* While nothing has gone wrong, a process the CPU preempts is the one in
\* PCB_EJECUCION and the scheduler is waiting for it: no interrupt hits the
\* process that comes after the one it was meant for.
THEOREM SoloDesalojaAlQueDebe == Spec => DesalojaAlQueDebe
<1>1. TypeOK /\ Cuentas /\ Ejecucion /\ [Next]_vars =>
        [ChequearInterrupcion /\ anomalias = {} /\ ~syscall_bloqueante =>
           cp.en = "esperar_desalojo" /\ cpu.pcb.id = ejecucion]_vars
  <2> SUFFICES ASSUME TypeOK, Cuentas, Ejecucion, Next, ChequearInterrupcion,
                      anomalias = {}, ~syscall_bloqueante
               PROVE  cp.en = "esperar_desalojo" /\ cpu.pcb.id = ejecucion
    OBVIOUS
  <2>1. EjecucionSana
    BY DEF Ejecucion, Next, EnPie
  <2>2. cp.en = "esperar_desalojo" /\ ejecucion \in EnCpu
    BY <2>1, AvisoOportuno DEF Cuentas
  <2>3. cpu.pcb # NULO
    BY CargasSRT DEF ChequearInterrupcion
  <2>4. EnCpu = {cpu.pcb.id}
    BY <2>1, <2>3, Camino DEF EjecucionSana
  <2> QED
    BY <2>2, <2>4
<1> QED
  BY <1>1, TiposCorrectos, CuentasCorrectas, EjecucionCorrecta, PTL DEF Spec, DesalojaAlQueDebe
-----------------------------------------------------------------------------
\* The state of a process, by its place

\* What is so of the places while no PCB has been sent back twice.
Situados ==
  TypeOK /\ EnUnSoloLugar /\ ALoSumoUnExtraviado /\ SinRepetidos /\ SyscallsDistintas

\* The places by name.
LEMMA Sitios ==
  /\ "new" \in Nombres /\ "ready" \in Nombres /\ "blocked" \in Nombres
  /\ "suspended_ready" \in Nombres /\ "dispatch" \in Nombres /\ "syscalls" \in Nombres
  /\ "cp" \in Nombres /\ "cpu" \in Nombres /\ "lp" \in Nombres /\ "io" \in Nombres
  /\ "sc" \in Nombres
  BY DEF Nombres, NombresDelKernel

EnEjecucion == {"bloquear", "enlazar", "liberar_grado", "desalojar"}

EstadoEn(l, x) ==
  IF l = "new" THEN "new"
  ELSE IF l = "lp" THEN IF x.pc = 0 THEN "new" ELSE "suspended_ready"
  ELSE IF l = "suspended_ready" THEN "suspended_ready"
  ELSE IF l \in {"ready", "cp"} THEN "ready"
  ELSE IF l \in {"dispatch", "cpu", "syscalls"} THEN "exec"
  ELSE IF l = "sc" THEN IF sc.en \in EnEjecucion THEN "exec" ELSE "exit"
  ELSE IF Bloqueo(x) \in esta_suspendido THEN "suspended_blocked" ELSE "blocked"

\* The processes sent to the CPU that have not left it, and those on their way back.
EnElCpu == EnCpu \cup {syscalls[i].pcb.id : i \in DOMAIN syscalls}
\* A process suspended while it waits for its device.
EnEsperaSuspendido(q) ==
  \/ \E i \in DOMAIN cola_blocked : /\ cola_blocked[i].id = q
                                    /\ Bloqueo(cola_blocked[i]) \in esta_suspendido
  \/ q \in IdDe(io.pcb) /\ Bloqueo(io.pcb) \in esta_suspendido

\* The processes of a place, as their numbers.
LEMMA NumerosDeLugares ==
  ASSUME NEW q
  PROVE  /\ q \in Ids(cola_new) <=> \E x \in Lugares["new"] : x.id = q
         /\ q \in Ids(cola_ready) <=> \E x \in Lugares["ready"] : x.id = q
         /\ q \in Ids(cola_suspended_ready) <=>
              \E x \in Lugares["suspended_ready"] : x.id = q
         /\ q \in IdDe(lp.pcb) <=> \E x \in Lugares["lp"] : x.id = q
         /\ q \in IdDe(cp.pcb) /\ cp.en # "asignar" <=> \E x \in Lugares["cp"] : x.id = q
         /\ q \in EnElCpu <=> \/ \E x \in Lugares["dispatch"] : x.id = q
                              \/ \E x \in Lugares["cpu"] : x.id = q
                              \/ \E x \in Lugares["syscalls"] : x.id = q
         /\ EnEsperaSuspendido(q) <=>
              \/ \E x \in Lugares["blocked"] : x.id = q /\ Bloqueo(x) \in esta_suspendido
              \/ \E x \in Lugares["io"] : x.id = q /\ Bloqueo(x) \in esta_suspendido
<1>1. ASSUME NEW s PROVE q \in Ids(s) <=> \E x \in Range(s) : x.id = q
  BY DEF Ids, Range
<1>2. ASSUME NEW x PROVE q \in IdDe(x) <=> \E y \in {x} \ {NULO} : y.id = q
  BY DEF IdDe
<1>3. q \in {syscalls[i].pcb.id : i \in DOMAIN syscalls} <=>
        \E x \in {m.pcb : m \in Range(syscalls)} : x.id = q
  BY DEF Range
<1>4. q \in IdDe(cp.pcb) /\ cp.en # "asignar" <=> \E x \in LugarDeCp : x.id = q
  BY <1>2 DEF LugarDeCp
<1>5. q \in EnElCpu <=> \/ \E x \in Range(dispatch) : x.id = q
                        \/ \E x \in LugarDeCpu : x.id = q
                        \/ \E x \in {m.pcb : m \in Range(syscalls)} : x.id = q
  <2>1. q \in (IF syscall_bloqueante THEN {} ELSE IdDe(cpu.pcb)) <=> \E x \in LugarDeCpu : x.id = q
    BY <1>2 DEF LugarDeCpu
  <2> QED
    BY <1>1, <1>3, <2>1 DEF EnElCpu, EnCpu
<1>6. EnEsperaSuspendido(q) <=>
        \/ \E x \in Range(cola_blocked) : x.id = q /\ Bloqueo(x) \in esta_suspendido
        \/ \E x \in {io.pcb} \ {NULO} : x.id = q /\ Bloqueo(x) \in esta_suspendido
  BY DEF EnEsperaSuspendido, Range, IdDe
<1> QED
  BY <1>1, <1>2, <1>4, <1>5, <1>6, CadaLugar

\* In esperar_syscall a process is still executing until it is blocked, preempted
\* or has given its place back, and then it is finishing.
LEMMA NumerosDeSyscall ==
  ASSUME TypeOK, NEW q
  PROVE  /\ q \in IdDe(sc.pcb) /\ sc.en \in EnEjecucion <=>
              \E x \in Lugares["sc"] : x.id = q /\ sc.en \in EnEjecucion
         /\ q \in IdDe(sc.pcb) /\ sc.en \in {"finalizar", "recibir", "responder"} <=>
              \E x \in Lugares["sc"] : x.id = q /\ sc.en \notin EnEjecucion
<1>1. sc.en \in ScDuenio => sc.pcb # NULO
  BY NuloAssumption DEF NuloAssumption, TypeOK, KernelTypeOK, TipoSc, ScDuenio, ScConPCB
<1>2. sc.en \in ScDuenio <=> \/ sc.en \in EnEjecucion
                             \/ sc.en \in {"finalizar", "recibir", "responder"}
  BY DEF ScDuenio, EnEjecucion
<1>3. sc.en \in {"finalizar", "recibir", "responder"} => sc.en \notin EnEjecucion
  BY DEF EnEjecucion
<1> QED
  BY <1>1, <1>2, <1>3, CadaLugar DEF IdDe

\* The cases of Estado, by the place.
LEMMA EstadoPorCasos ==
  ASSUME NEW q
  PROVE  Estado(q) =
           CASE consola[q] = "sin_conectar" -> "ausente"
             [] q \in Ids(cola_new) \/ (q \in IdDe(lp.pcb) /\ lp.pcb.pc = 0) -> "new"
             [] q \in Ids(cola_suspended_ready) \/ (q \in IdDe(lp.pcb) /\ lp.pcb.pc > 0)
                  -> "suspended_ready"
             [] q \in Ids(cola_ready) \/ (q \in IdDe(cp.pcb) /\ cp.en # "asignar") -> "ready"
             [] q \in EnElCpu \/ (q \in IdDe(sc.pcb) /\ sc.en \in EnEjecucion) -> "exec"
             [] \/ consola[q] = "finalizada"
                \/ q \in IdDe(sc.pcb) /\ sc.en \in {"finalizar", "recibir", "responder"} -> "exit"
             [] EnEsperaSuspendido(q) -> "suspended_blocked"
             [] OTHER -> "blocked"
  BY DEF Estado, EnElCpu, EnEjecucion, EnEsperaSuspendido

EstadoPorLugar ==
  \A q \in Procesos :
    /\ consola[q] = "sin_conectar" => Estado(q) = "ausente"
    /\ consola[q] = "finalizada" => Estado(q) = "exit"
    /\ Extraviado(q) => Estado(q) = "blocked"
    /\ \A l \in Nombres : \A x \in Lugares[l] : x.id = q => Estado(q) = EstadoEn(l, x)

\* The state a place gives is the one the refinement mapping computes: a process
\* is in one place, and the cases exclude each other.
LEMMA LosEstados == Situados => EstadoPorLugar
<1> SUFFICES ASSUME Situados, NEW q \in Procesos
             PROVE  /\ consola[q] = "sin_conectar" => Estado(q) = "ausente"
                    /\ consola[q] = "finalizada" => Estado(q) = "exit"
                    /\ Extraviado(q) => Estado(q) = "blocked"
                    /\ \A l \in Nombres : \A x \in Lugares[l] :
                         x.id = q => Estado(q) = EstadoEn(l, x)
  BY DEF EstadoPorLugar
<1> USE Sitios, Nombrados
<1>t. TypeOK
  BY DEF Situados
\* A process in no place is in none of the queues and hands.
<1>1. ASSUME ~EnAlgunLugar(q)
      PROVE  /\ q \notin Ids(cola_new) /\ q \notin IdDe(lp.pcb)
             /\ q \notin Ids(cola_suspended_ready) /\ q \notin Ids(cola_ready)
             /\ ~(q \in IdDe(cp.pcb) /\ cp.en # "asignar") /\ q \notin EnElCpu
             /\ ~(q \in IdDe(sc.pcb) /\ sc.en \in EnEjecucion)
             /\ ~(q \in IdDe(sc.pcb) /\ sc.en \in {"finalizar", "recibir", "responder"})
             /\ ~EnEsperaSuspendido(q)
  <2>1. \A m \in Nombres : ~(\E y \in Lugares[m] : y.id = q)
    BY <1>1 DEF EnAlgunLugar
  <2>2. /\ q \notin Ids(cola_new) /\ q \notin IdDe(lp.pcb)
        /\ q \notin Ids(cola_suspended_ready) /\ q \notin Ids(cola_ready)
        /\ ~(q \in IdDe(cp.pcb) /\ cp.en # "asignar")
    BY <2>1, NumerosDeLugares
  <2>3. q \notin EnElCpu
    BY <2>1, NumerosDeLugares
  <2>4. ~EnEsperaSuspendido(q)
    <3>1. \A y \in Lugares["blocked"] : y.id # q
      BY <2>1
    <3>2. \A y \in Lugares["io"] : y.id # q
      BY <2>1
    <3> QED
      BY <3>1, <3>2, NumerosDeLugares
  <2>5. /\ ~(q \in IdDe(sc.pcb) /\ sc.en \in EnEjecucion)
        /\ ~(q \in IdDe(sc.pcb) /\ sc.en \in {"finalizar", "recibir", "responder"})
    <3>1. \A y \in Lugares["sc"] : y.id # q
      BY <2>1
    <3> QED
      BY <1>t, <3>1, NumerosDeSyscall
  <2> QED
    BY <2>2, <2>3, <2>4, <2>5
<1>2. consola[q] # "esperando" => ~EnAlgunLugar(q)
  BY DEF Situados, ALoSumoUnExtraviado
<1>3. ASSUME consola[q] = "sin_conectar" PROVE Estado(q) = "ausente"
  BY <1>1, <1>2, <1>3, EstadoPorCasos
<1>4. ASSUME consola[q] = "finalizada" PROVE Estado(q) = "exit"
  BY <1>1, <1>2, <1>4, EstadoPorCasos
<1>5. ASSUME Extraviado(q) PROVE Estado(q) = "blocked"
  BY <1>1, <1>5, EstadoPorCasos DEF Extraviado
<1>6. ASSUME NEW l \in Nombres, NEW x \in Lugares[l], x.id = q
      PROVE  Estado(q) = EstadoEn(l, x)
  <2>1. \A m \in Nombres : (\E y \in Lugares[m] : y.id = q) <=> m = l
    BY <1>6 DEF Situados, EnUnSoloLugar
  <2>2. \A y \in Lugares[l] : y.id = q => y = x
    BY <1>6 DEF Situados, EnUnSoloLugar
  <2>3. consola[q] = "esperando"
    BY <1>6 DEF Situados, ALoSumoUnExtraviado, EnAlgunLugar
  <2>4. /\ q \in Ids(cola_new) <=> l = "new"
        /\ q \in Ids(cola_suspended_ready) <=> l = "suspended_ready"
        /\ q \in Ids(cola_ready) <=> l = "ready"
        /\ q \in IdDe(lp.pcb) <=> l = "lp"
        /\ q \in IdDe(cp.pcb) /\ cp.en # "asignar" <=> l = "cp"
        /\ q \in EnElCpu <=> l \in {"dispatch", "cpu", "syscalls"}
    BY <2>1, NumerosDeLugares
  <2>5. /\ q \in IdDe(sc.pcb) /\ sc.en \in EnEjecucion <=> l = "sc" /\ sc.en \in EnEjecucion
        /\ q \in IdDe(sc.pcb) /\ sc.en \in {"finalizar", "recibir", "responder"}
             <=> l = "sc" /\ sc.en \notin EnEjecucion
    <3>1. (\E y \in Lugares["sc"] : y.id = q) <=> l = "sc"
      BY <2>1
    <3> QED
      BY <1>t, <3>1, NumerosDeSyscall
  <2>6. EnEsperaSuspendido(q) <=> l \in {"blocked", "io"} /\ Bloqueo(x) \in esta_suspendido
    <3>1. ASSUME NEW m \in {"blocked", "io"}
          PROVE  (\E y \in Lugares[m] : y.id = q /\ Bloqueo(y) \in esta_suspendido)
                   <=> l = m /\ Bloqueo(x) \in esta_suspendido
      BY <1>6, <2>1, <2>2, <3>1
    <3> QED
      BY <3>1, NumerosDeLugares
  <2>7. l = "lp" => lp.pcb = x /\ x.pc \in Nat
    BY <1>t, <1>6, LugaresTipo, CadaLugar, KernelAssumption DEF PCB, KernelAssumption
  <2>8. CASE l = "lp"
    BY <2>3, <2>4, <2>5, <2>6, <2>7, <2>8, EstadoPorCasos DEF EstadoEn
  <2>9. CASE l \in {"new", "suspended_ready", "ready", "cp", "dispatch", "cpu", "syscalls"}
    BY <2>3, <2>4, <2>5, <2>6, <2>9, EstadoPorCasos DEF EstadoEn
  <2>10. CASE l \in {"sc", "blocked", "io"}
    BY <2>3, <2>4, <2>5, <2>6, <2>10, EstadoPorCasos DEF EstadoEn
  <2> QED
    BY <2>8, <2>9, <2>10 DEF Nombres, NombresDelKernel
<1> QED
  BY <1>3, <1>4, <1>5, <1>6

\* The same, of the state after a step.
LEMMA LosEstadosPrima == Situados' => EstadoPorLugar'
  BY LosEstados, PTL

-----------------------------------------------------------------------------
\* What a step does to the states of the processes

\* A process that nobody touches keeps its state.
LEMMA Ajeno ==
  ASSUME Situados, Situados', NEW q \in Procesos, consola'[q] = consola[q],
         \A l \in Nombres : \A u : u.id = q => (u \in Lugares'[l] <=> u \in Lugares[l]),
         \A u \in Lugares["sc"] : u.id = q => (sc'.en \in EnEjecucion <=> sc.en \in EnEjecucion),
         \A l \in {"blocked", "io"} : \A u \in Lugares[l] :
           u.id = q => (Bloqueo(u) \in esta_suspendido' <=> Bloqueo(u) \in esta_suspendido)
  PROVE  Estado(q)' = Estado(q)
<1> USE Sitios, Nombrados
<1>e. EstadoPorLugar /\ EstadoPorLugar'
  BY LosEstados, LosEstadosPrima
<1>1. CASE EnAlgunLugar(q)
  <2>1. PICK l \in Nombres : \E x \in Lugares[l] : x.id = q
    BY <1>1 DEF EnAlgunLugar
  <2>2. PICK x \in Lugares[l] : x.id = q
    BY <2>1
  <2>3. x \in Lugares'[l]
    BY <2>2
  <2>4. Estado(q) = EstadoEn(l, x) /\ Estado(q)' = EstadoEn(l, x)'
    BY <1>e, <2>2, <2>3 DEF EstadoPorLugar
  <2>5. l = "sc" => (sc'.en \in EnEjecucion <=> sc.en \in EnEjecucion)
    BY <2>2
  <2>6. l \in {"blocked", "io"} =>
          (Bloqueo(x) \in esta_suspendido' <=> Bloqueo(x) \in esta_suspendido)
    BY <2>2
  <2>7. l \in {"blocked", "io"} \/ l \in Nombres \ {"blocked", "io"}
    OBVIOUS
  <2>8. EstadoEn(l, x)' = EstadoEn(l, x)
    BY <2>5, <2>6, <2>7 DEF EstadoEn, EnEjecucion, Bloqueo, Nombres, NombresDelKernel
  <2> QED
    BY <2>4, <2>8
<1>2. CASE ~EnAlgunLugar(q)
  <2>1. ~EnAlgunLugar(q)'
    BY <1>2 DEF EnAlgunLugar
  <2>2. consola[q] = "esperando" => Extraviado(q) /\ Extraviado(q)'
    BY <1>2, <2>1 DEF Extraviado
  <2>3. consola[q] \in {"sin_conectar", "esperando", "finalizada"}
    BY DEF Situados, TypeOK, KernelTypeOK, TipoSockets
  <2> QED
    BY <1>e, <2>2, <2>3 DEF EstadoPorLugar
<1> QED
  BY <1>1, <1>2

\* A step that moves one PCB changes the state of its process and no other.
LEMMA UnoSeMuda ==
  ASSUME Situados, Situados',
         NEW a \in Nombres, NEW b \in Nombres, NEW x \in Lugares[a], NEW y, y.id = x.id,
         Muda(a, x, b, y), UNCHANGED <<consola, esta_suspendido>>,
         \A u \in Lugares["sc"] :
           u.id # x.id => (sc'.en \in EnEjecucion <=> sc.en \in EnEjecucion)
  PROVE  /\ x.id \in Procesos /\ Estados[x.id] = EstadoEn(a, x)
         /\ Estados' = [Estados EXCEPT ![x.id] = EstadoEn(b, y)']
<1>1. x.id \in Procesos
  BY LugaresTipo DEF PCB, Situados
<1>2. y \in Lugares'[b]
  BY DEF Muda, Solo
<1>3. Estado(x.id) = EstadoEn(a, x)
  BY <1>1, LosEstados DEF EstadoPorLugar
<1>4. Estado(x.id)' = EstadoEn(b, y)'
  <2>1. PICK p \in Procesos : p = x.id
    BY <1>1
  <2>2. Estado(p)' = EstadoEn(b, y)'
    BY <1>2, <2>1, LosEstadosPrima DEF EstadoPorLugar
  <2> QED
    BY <2>1, <2>2
<1>5. ASSUME NEW q \in Procesos, q # x.id PROVE Estado(q)' = Estado(q)
  <2>1. \A l \in Nombres : \A u : u.id = q => (u \in Lugares'[l] <=> u \in Lugares[l])
    BY <1>5 DEF Muda, Solo
  <2> QED
    BY <1>5, <2>1, Ajeno
<1> QED
  BY <1>1, <1>3, <1>4, <1>5 DEF Estados

\* ... and a step that moves nobody changes none.
LEMMA NadieSeMuda ==
  ASSUME Situados, Situados', Quieto, UNCHANGED <<consola, esta_suspendido>>,
         \A u \in Lugares["sc"] : sc'.en \in EnEjecucion <=> sc.en \in EnEjecucion
  PROVE  Estados' = Estados
<1>1. ASSUME NEW q \in Procesos PROVE Estado(q)' = Estado(q)
  BY Ajeno DEF Quieto
<1> QED
  BY <1>1 DEF Estados

\* Where the threads of the kernel take a process, and their steps that take nobody
\* anywhere.
LEMMA Traslados ==
  ASSUME Situados, UNCHANGED srt_vars
  PROVE  /\ SacarDeNew /\ cola_new # <<>> =>
              /\ Head(cola_new) \in Lugares["new"]
              /\ Muda("new", Head(cola_new), "lp", Head(cola_new))
         /\ SacarDeSuspendedReady /\ cola_suspended_ready # <<>> =>
              /\ Head(cola_suspended_ready) \in Lugares["suspended_ready"]
              /\ Muda("suspended_ready", Head(cola_suspended_ready), "lp",
                      Head(cola_suspended_ready))
         /\ RecibirTablas =>
              /\ lp.pcb \in Lugares["lp"] /\ lp'.pcb.id = lp.pcb.id
              /\ lp'.pcb.pc = lp.pcb.pc /\ Muda("lp", lp.pcb, "lp", lp'.pcb)
         /\ EncolarReady => lp.pcb \in Lugares["lp"] /\ Muda("lp", lp.pcb, "ready", lp.pcb)
         /\ RecibirSyscall =>
              /\ Head(syscalls).pcb \in Lugares["syscalls"]
              /\ Muda("syscalls", Head(syscalls).pcb, "sc", Head(syscalls).pcb)
         /\ EnlazarBloqueado /\ cola_blocked' = Append(cola_blocked, sc.pcb) =>
              Muda("sc", sc.pcb, "blocked", sc.pcb)
         /\ EnlazarBloqueado /\ cola_blocked' = cola_blocked => Sale("sc", sc.pcb)
         /\ ResponderConsola => Sale("sc", sc.pcb)
         /\ TomarBloqueado /\ ~cola_rota /\ cola_blocked # <<>> =>
              /\ Head(cola_blocked) \in Lugares["blocked"]
              /\ Muda("blocked", Head(cola_blocked), "io", Head(cola_blocked))
         /\ PasarASuspendedReady =>
              /\ io.pcb \in Lugares["io"] /\ Muda("io", io.pcb, "suspended_ready", io.pcb)
         /\ PasarAReady => io.pcb \in Lugares["io"] /\ Muda("io", io.pcb, "ready", io.pcb)
         /\ \A p \in Procesos : RecibirProceso(p) => Entra("new", PCBNuevo(p))
<1>h. KernelTypeOK /\ SinRepetidos /\ SyscallsDistintas
  BY DEF TypeOK, Situados
<1>n. /\ "new" \in NombresDelKernel /\ "ready" \in NombresDelKernel
      /\ "blocked" \in NombresDelKernel /\ "suspended_ready" \in NombresDelKernel
      /\ "syscalls" \in NombresDelKernel /\ "lp" \in NombresDelKernel
      /\ "io" \in NombresDelKernel /\ "sc" \in NombresDelKernel
  BY DEF NombresDelKernel
<1>l. \A l \in NombresDelKernel : Lugares[l] = LugaresDelKernel[l]
  BY LugaresDeMas
<1> QED
  BY <1>h, <1>n, <1>l, TrasladosDelKernel, DelKernelALugares

LEMMA Quietos ==
  ASSUME TypeOK, ~caido, UNCHANGED srt_vars,
         \/ AvisarNew \/ EsperarProceso \/ TomarGrado \/ PedirTablas \/ AvisarReady
         \/ BuscarUltimo \/ CrearSuspensor \/ AvisarIO \/ LiberarGrado \/ PedirFin
         \/ RecibirFin \/ TerminarIO \/ LiberarGradoSuspendido \/ AvisarSuspendedReady
         \/ AvisarReadyIO \/ SoltarSuspendiendo \/ AtenderPedido
         \/ \E b \in Bloqueos : Suspensor(b)
         \/ (SacarDeNew /\ cola_new = <<>>)
         \/ (SacarDeSuspendedReady /\ cola_suspended_ready = <<>>)
         \/ (TomarBloqueado /\ caido')
  PROVE  Quieto
<1>1. KernelTypeOK
  BY DEF TypeOK
<1>2. QuietoDelKernel
  BY <1>1, QuietosDelKernel
<1> QED
  BY <1>2, DelKernelALugares

\* What esperar_syscall has in its hands, it has alone.
LEMMA EnManosDeSc ==
  ASSUME TypeOK, sc.en \in ScDuenio
  PROVE  sc.pcb \in Lugares["sc"] /\ Lugares["sc"] = {sc.pcb} /\ sc.pcb.id \in Procesos
<1>1. Lugares["sc"] = {sc.pcb}
  BY CadaLugar
<1> QED
  BY <1>1, LugaresTipo, Sitios DEF PCB

-----------------------------------------------------------------------------
\* The steps, one by one

\* The arrival of a process.
LEMMA PasoLlegar ==
  ASSUME Situados, Situados', UNCHANGED srt_vars, NEW p \in Procesos, RecibirProceso(p)
  PROVE  Ciclo!Llegar(p)
<1>1. /\ Entra("new", PCBNuevo(p)) /\ PCBNuevo(p).id = p
      /\ UNCHANGED <<sc, esta_suspendido>>
  BY Traslados DEF PCBNuevo, RecibirProceso, suspension
<1>2. /\ consola[p] = "sin_conectar"
      /\ \A q \in Procesos : q # p => consola'[q] = consola[q]
  BY DEF RecibirProceso, Situados, TypeOK, KernelTypeOK, TipoSockets
<1>3. Estado(p) = "ausente"
  BY <1>2, LosEstados DEF EstadoPorLugar
<1>4. Estado(p)' = "new"
  <2>1. PICK y : y = PCBNuevo(p)
    OBVIOUS
  <2>2. y \in Lugares'["new"] /\ y.id = p
    BY <1>1, <2>1, Sitios DEF Entra, Solo
  <2>3. Estado(p)' = EstadoEn("new", y)'
    BY <2>2, LosEstadosPrima, Sitios DEF EstadoPorLugar
  <2> QED
    BY <2>3 DEF EstadoEn
<1>5. ASSUME NEW q \in Procesos, q # p PROVE Estado(q)' = Estado(q)
  <2>1. \A l \in Nombres : \A u : u.id = q => (u \in Lugares'[l] <=> u \in Lugares[l])
    BY <1>1, <1>5 DEF Entra, Solo
  <2> QED
    BY <1>1, <1>2, <1>5, <2>1, Ajeno
<1>6. Estados[p] = "ausente" /\ Estados' = [Estados EXCEPT ![p] = "new"]
  BY <1>3, <1>4, <1>5 DEF Estados
<1> QED
  BY <1>6 DEF Ciclo!Llegar, Ciclo!Pasar

\* A process is blocked, wherever the race leaves its PCB.
LEMMA PasoBloquear ==
  ASSUME Situados, Suspensores, ~doble_envio, Situados', UNCHANGED srt_vars, EnlazarBloqueado
  PROVE  \E p \in Procesos : Ciclo!Bloquear(p)
<1>t. TypeOK
  BY DEF Situados
<1>1. /\ sc.en = "enlazar" /\ sc'.en \notin ScDuenio
      /\ UNCHANGED <<consola, esta_suspendido>>
  BY <1>t DEF EnlazarBloqueado, sockets, suspension, ScDuenio, TypeOK, KernelTypeOK, TipoSc
<1>2. PICK x : x = sc.pcb
  OBVIOUS
<1>3. x \in Lugares["sc"] /\ x.id \in Procesos /\ x \in PCB /\ Lugares["sc"] = {x}
  BY <1>t, <1>1, <1>2, EnManosDeSc, LugaresTipo, Sitios DEF ScDuenio
<1>4. Bloqueo(x) \notin esta_suspendido
  BY <1>1, <1>2 DEF Suspensores, SinSuspensorAun, EstaSuspendidoAlDia
<1>5. EstadoEn("sc", x) = "exec" /\ EstadoEn("blocked", x)' = "blocked"
  BY <1>1, <1>4 DEF EstadoEn, EnEjecucion, Bloqueo
<1>7. CASE cola_blocked' = Append(cola_blocked, sc.pcb)
  <2>1. Muda("sc", x, "blocked", x)
    BY <1>2, <1>7, Traslados
  <2>2. /\ Estados[x.id] = EstadoEn("sc", x)
        /\ Estados' = [Estados EXCEPT ![x.id] = EstadoEn("blocked", x)']
    BY <1>1, <1>3, <2>1, Sitios, UnoSeMuda
  <2>3. Ciclo!Bloquear(x.id)
    BY <1>5, <2>2 DEF Ciclo!Bloquear, Ciclo!Pasar
  <2> QED
    BY <1>3, <2>3
<1>8. CASE cola_blocked' = cola_blocked
  <2>1. Sale("sc", x)
    BY <1>2, <1>8, Traslados
  <2>2. Estado(x.id) = "exec"
    BY <1>3, <1>5, LosEstados, Sitios DEF EstadoPorLugar
  <2>3. ASSUME NEW p \in Procesos, p = x.id PROVE Estado(p)' = "blocked"
    <3>1. \A l \in Nombres : \A u \in Lugares[l] : u.id = x.id => l = "sc" /\ u = x
      BY <1>3, Nombrados, Sitios DEF Situados, EnUnSoloLugar
    <3>2. \A l \in Nombres : \A u \in Lugares'[l] : u.id # p
      BY <2>1, <2>3, <3>1 DEF Sale, Solo
    <3>3. consola'[p] = "esperando"
      BY <1>1, <1>3, <2>3, Nombrados, Sitios DEF Situados, ALoSumoUnExtraviado, EnAlgunLugar
    <3>4. Extraviado(p)'
      BY <3>2, <3>3, Nombrados DEF Extraviado, EnAlgunLugar
    <3> QED
      BY <3>4, LosEstadosPrima DEF EstadoPorLugar
  <2>4. ASSUME NEW q \in Procesos, q # x.id PROVE Estado(q)' = Estado(q)
    <3>1. \A l \in Nombres : \A u : u.id = q => (u \in Lugares'[l] <=> u \in Lugares[l])
      BY <2>1, <2>4 DEF Sale, Solo
    <3> QED
      BY <1>1, <1>3, <2>4, <3>1, Ajeno
  <2>5. Estados[x.id] = "exec" /\ Estados' = [Estados EXCEPT ![x.id] = "blocked"]
    BY <1>3, <2>2, <2>3, <2>4 DEF Estados
  <2>6. Ciclo!Bloquear(x.id)
    BY <2>5 DEF Ciclo!Bloquear, Ciclo!Pasar
  <2> QED
    BY <1>3, <2>6
<1> QED
  BY <1>7, <1>8 DEF EnlazarBloqueado

\* executing_a_exit begins: the process has left the CPU for good.
LEMMA PasoTerminar ==
  ASSUME Situados, Situados', ~caido, UNCHANGED srt_vars, LiberarGrado
  PROVE  \E p \in Procesos : Ciclo!Terminar(p)
<1>t. TypeOK
  BY DEF Situados
<1>1. /\ sc.en = "liberar_grado" /\ sc'.en = "finalizar" /\ sc'.pcb = sc.pcb
      /\ UNCHANGED <<consola, esta_suspendido>>
  BY <1>t DEF LiberarGrado, sockets, suspension, TypeOK, KernelTypeOK, TipoSc
<1>2. PICK x : x = sc.pcb
  OBVIOUS
<1>3. x \in Lugares["sc"] /\ x.id \in Procesos /\ Lugares["sc"] = {x}
  BY <1>t, <1>1, <1>2, EnManosDeSc DEF ScDuenio
<1>4. Quieto
  BY <1>t, Quietos
<1>6. EstadoEn("sc", x) = "exec" /\ EstadoEn("sc", x)' = "exit"
  BY <1>1 DEF EstadoEn, EnEjecucion
<1>7. Estado(x.id) = "exec"
  BY <1>3, <1>6, LosEstados, Sitios DEF EstadoPorLugar
<1>8. ASSUME NEW p \in Procesos, p = x.id PROVE Estado(p)' = "exit"
  <2>1. x \in Lugares'["sc"]
    BY <1>3, <1>4, Sitios DEF Quieto
  <2> QED
    BY <1>6, <1>8, <2>1, LosEstadosPrima, Sitios DEF EstadoPorLugar
<1>9. ASSUME NEW q \in Procesos, q # x.id PROVE Estado(q)' = Estado(q)
  BY <1>1, <1>3, <1>4, <1>9, Ajeno DEF Quieto
<1>10. Estados[x.id] = "exec" /\ Estados' = [Estados EXCEPT ![x.id] = "exit"]
  BY <1>3, <1>7, <1>8, <1>9 DEF Estados
<1>11. Ciclo!Terminar(x.id)
  BY <1>10 DEF Ciclo!Terminar, Ciclo!Pasar
<1> QED
  BY <1>3, <1>11

\* ... and ends: for the process it changes nothing.
LEMMA PasoResponder ==
  ASSUME Situados, Situados', UNCHANGED srt_vars, ResponderConsola
  PROVE  Estados' = Estados
<1>t. TypeOK
  BY DEF Situados
<1>1. /\ sc.en = "responder" /\ esta_suspendido' = esta_suspendido
      /\ consola' = [consola EXCEPT ![sc.pcb.id] = "finalizada"]
  BY DEF ResponderConsola, suspension
<1>2. PICK x : x = sc.pcb
  OBVIOUS
<1>3. x \in Lugares["sc"] /\ x.id \in Procesos /\ Lugares["sc"] = {x}
  BY <1>t, <1>1, <1>2, EnManosDeSc DEF ScDuenio
<1>4. Sale("sc", x)
  BY <1>2, Traslados
<1>6. Estado(x.id) = "exit"
  <2>1. EstadoEn("sc", x) = "exit"
    BY <1>1 DEF EstadoEn, EnEjecucion
  <2> QED
    BY <1>3, <2>1, LosEstados, Sitios DEF EstadoPorLugar
<1>7. ASSUME NEW p \in Procesos, p = x.id PROVE Estado(p)' = "exit"
  <2>1. consola'[p] = "finalizada"
    BY <1>t, <1>1, <1>2, <1>7 DEF TypeOK, KernelTypeOK, TipoSockets
  <2> QED
    BY <2>1, LosEstadosPrima DEF EstadoPorLugar
<1>8. ASSUME NEW q \in Procesos, q # x.id PROVE Estado(q)' = Estado(q)
  <2>1. \A l \in Nombres : \A u : u.id = q => (u \in Lugares'[l] <=> u \in Lugares[l])
    BY <1>4, <1>8 DEF Sale, Solo
  <2>2. consola'[q] = consola[q]
    BY <1>t, <1>1, <1>2, <1>8 DEF TypeOK, KernelTypeOK, TipoSockets
  <2> QED
    BY <1>1, <1>3, <1>8, <2>1, <2>2, Ajeno
<1> QED
  BY <1>6, <1>7, <1>8 DEF Estados

\* hilo_io takes a process back: to suspended-ready if it has been suspended.
LEMMA PasoDesbloquear ==
  ASSUME Situados, Suspensores, ~doble_envio, Situados', UNCHANGED srt_vars,
         PasarASuspendedReady \/ PasarAReady
  PROVE  \E p \in Procesos : Ciclo!Desbloquear(p)
<1>1. io.pcb \in Lugares["io"] /\ UNCHANGED <<sc, consola, esta_suspendido>>
  BY Traslados DEF PasarASuspendedReady, PasarAReady, sockets, suspension
<1>2. PICK x : x = io.pcb
  OBVIOUS
<1>3. CASE PasarASuspendedReady
  <2>1. Muda("io", x, "suspended_ready", x)
    BY <1>2, <1>3, Traslados
  <2>2. /\ x.id \in Procesos /\ Estados[x.id] = EstadoEn("io", x)
        /\ Estados' = [Estados EXCEPT ![x.id] = EstadoEn("suspended_ready", x)']
    BY <1>1, <1>2, <2>1, Sitios, UnoSeMuda
  <2>3. Bloqueo(x) \in esta_suspendido
    BY <1>2, <1>3 DEF PasarASuspendedReady, Suspensores, EstaSuspendidoAlDia
  <2>4. /\ EstadoEn("io", x) = "suspended_blocked"
        /\ EstadoEn("suspended_ready", x)' = "suspended_ready"
    BY <2>3 DEF EstadoEn
  <2>5. Ciclo!Desbloquear(x.id)
    BY <2>2, <2>4 DEF Ciclo!Desbloquear, Ciclo!Pasar
  <2> QED
    BY <2>2, <2>5
<1>4. CASE PasarAReady
  <2>1. Muda("io", x, "ready", x)
    BY <1>2, <1>4, Traslados
  <2>2. /\ x.id \in Procesos /\ Estados[x.id] = EstadoEn("io", x)
        /\ Estados' = [Estados EXCEPT ![x.id] = EstadoEn("ready", x)']
    BY <1>1, <1>2, <2>1, Sitios, UnoSeMuda
  <2>3. Bloqueo(x) \notin esta_suspendido
    BY <1>2, <1>4 DEF PasarAReady, Suspensores, EstaSuspendidoAlDia
  <2>4. EstadoEn("io", x) = "blocked" /\ EstadoEn("ready", x)' = "ready"
    BY <2>3 DEF EstadoEn
  <2>5. Ciclo!Desbloquear(x.id)
    BY <2>2, <2>4 DEF Ciclo!Desbloquear, Ciclo!Pasar
  <2> QED
    BY <2>2, <2>5
<1> QED
  BY <1>3, <1>4

\* A suspensor that gets that far suspends the process of its block if it is still
\* blocked there, and else nobody.
LEMMA PasoSuspender ==
  ASSUME Situados, Suspensores, ~doble_envio, ~caido, Situados', UNCHANGED srt_vars,
         NEW b \in Bloqueos, PedirSuspension(b)
  PROVE  Estados' = Estados \/ \E p \in Procesos : Ciclo!Suspender(p)
<1> USE Sitios, Nombrados
<1>t. TypeOK
  BY DEF Situados
<1>1. /\ susp[b] = "con_suspendiendo"
      /\ esta_suspendido' = esta_suspendido \cup {b} /\ UNCHANGED <<sc, consola>>
  BY DEF PedirSuspension
<1>2. b \notin esta_suspendido
  BY <1>1 DEF Suspensores, EstaSuspendidoAlDia
<1>3. Quieto
  BY <1>t, Quietos DEF Suspensor
<1>4. ASSUME NEW q \in Procesos,
             \A l \in {"blocked", "io"} : \A u \in Lugares[l] : u.id = q => Bloqueo(u) # b
      PROVE  Estado(q)' = Estado(q)
  BY <1>1, <1>3, <1>4, Ajeno DEF Quieto
<1>5. CASE \E l \in {"blocked", "io"} : \E x \in Lugares[l] : Bloqueo(x) = b
  <2>1. PICK l \in {"blocked", "io"} : \E x \in Lugares[l] : Bloqueo(x) = b
    BY <1>5
  <2>2. PICK x \in Lugares[l] : Bloqueo(x) = b
    BY <2>1
  <2>3. PICK p \in Procesos : p = x.id
    BY <1>t, <2>1, <2>2, LugaresTipo DEF PCB
  <2>4. x \in Lugares'[l]
    BY <1>3, <2>1, <2>2 DEF Quieto
  <2>5. Estado(p) = EstadoEn(l, x) /\ Estado(p)' = EstadoEn(l, x)'
    BY <2>1, <2>2, <2>3, <2>4, LosEstados, LosEstadosPrima DEF EstadoPorLugar
  <2>6. EstadoEn(l, x) = "blocked"
    BY <1>2, <2>1, <2>2 DEF EstadoEn
  <2>7. EstadoEn(l, x)' = "suspended_blocked"
    BY <1>1, <2>1, <2>2 DEF EstadoEn, Bloqueo
  <2>8. ASSUME NEW q \in Procesos, q # p PROVE Estado(q)' = Estado(q)
    BY <1>4, <2>2, <2>3, <2>8 DEF Bloqueo
  <2>9. Estados[p] = "blocked" /\ Estados' = [Estados EXCEPT ![p] = "suspended_blocked"]
    BY <2>5, <2>6, <2>7, <2>8 DEF Estados
  <2>10. Ciclo!Suspender(p)
    BY <2>9 DEF Ciclo!Suspender, Ciclo!Pasar
  <2> QED
    BY <2>10
<1>6. CASE ~(\E l \in {"blocked", "io"} : \E x \in Lugares[l] : Bloqueo(x) = b)
  <2>1. ASSUME NEW q \in Procesos PROVE Estado(q)' = Estado(q)
    BY <1>4, <1>6
  <2> QED
    BY <2>1 DEF Estados
<1> QED
  BY <1>5, <1>6

\* A preempted process goes back to ready.
LEMMA PasoDesalojar ==
  ASSUME Situados, Cuentas, EnPie, Situados', AgregarDesalojado
  PROVE  \E p \in Procesos : Ciclo!Desalojar(p)
<1>t. TypeOK
  BY DEF Situados
<1>1. /\ sc.en = "desalojar" /\ Muda("sc", sc.pcb, "ready", sc.pcb)
      /\ UNCHANGED <<consola, esta_suspendido>>
  BY <1>t, TrasladosSRT DEF AgregarDesalojado, sockets, suspension, Situados
<1>2. PICK x : x = sc.pcb
  OBVIOUS
<1>3. x \in Lugares["sc"] /\ x.id \in Procesos /\ Lugares["sc"] = {x}
  BY <1>t, <1>1, <1>2, EnManosDeSc DEF ScDuenio
<1>4. /\ Estados[x.id] = EstadoEn("sc", x)
      /\ Estados' = [Estados EXCEPT ![x.id] = EstadoEn("ready", x)']
  BY <1>1, <1>2, <1>3, Sitios, UnoSeMuda
<1>5. EstadoEn("sc", x) = "exec" /\ EstadoEn("ready", x)' = "ready"
  BY <1>1 DEF EstadoEn, EnEjecucion
<1>6. Ciclo!Desalojar(x.id)
  BY <1>4, <1>5 DEF Ciclo!Desalojar, Ciclo!Pasar
<1> QED
  BY <1>3, <1>6

\* The scheduler sends a process when nobody is executing.
LEMMA PasoEjecutar ==
  ASSUME Situados, Cuentas, EjecucionSana, EnPie, Situados', Enviar
  PROVE  \E p \in Procesos : Ciclo!Ejecutar(p)
<1>t. TypeOK
  BY DEF Situados
<1>1. /\ cp.en = "enviar" /\ cp.pcb \in Lugares["cp"]
      /\ Muda("cp", cp.pcb, "dispatch", cp.pcb)
      /\ UNCHANGED <<sc, consola, esta_suspendido>>
  BY <1>t, TrasladosSRT DEF Enviar, sockets, suspension, Situados
<1>2. PICK x : x = cp.pcb
  OBVIOUS
<1>3. /\ x.id \in Procesos /\ Estados[x.id] = EstadoEn("cp", x)
      /\ Estados' = [Estados EXCEPT ![x.id] = EstadoEn("dispatch", x)']
  BY <1>1, <1>2, Sitios, UnoSeMuda
<1>4. EstadoEn("cp", x) = "ready" /\ EstadoEn("dispatch", x)' = "exec"
  BY DEF EstadoEn
<1>5. ASSUME NEW q \in Procesos PROVE Estado(q) # "exec"
  <2>1. EnCamino = 0 /\ sc.en # "desalojar"
    BY <1>1 DEF EjecucionSana
  <2>2. /\ dispatch = <<>> /\ syscalls = <<>> /\ sc.en \notin EnEjecucion
        /\ cpu.pcb = NULO \/ syscall_bloqueante
    BY <1>t, <2>1, Camino DEF EnEjecucion, ScDeVuelta
  <2>3. /\ Lugares["dispatch"] = {} /\ Lugares["syscalls"] = {} /\ Lugares["cpu"] = {}
    BY <2>2, Vacio, CadaLugar DEF LugarDeCpu
  <2>4. CASE EnAlgunLugar(q)
    <3>1. PICK l \in Nombres : \E y \in Lugares[l] : y.id = q
      BY <2>4, Nombrados DEF EnAlgunLugar
    <3>2. PICK y \in Lugares[l] : y.id = q
      BY <3>1
    <3>3. Estado(q) = EstadoEn(l, y) /\ l \notin {"syscalls", "cpu", "dispatch"}
      BY <2>3, <3>2, LosEstados DEF EstadoPorLugar
    <3> QED
      BY <2>2, <3>3 DEF EstadoEn
  <2>5. CASE ~EnAlgunLugar(q)
    <3>1. \/ consola[q] = "sin_conectar" \/ consola[q] = "finalizada" \/ Extraviado(q)
      BY <1>t, <2>5 DEF Extraviado, TypeOK, KernelTypeOK, TipoSockets
    <3>2. Estado(q) \in {"ausente", "exit", "blocked"}
      BY <3>1, LosEstados DEF EstadoPorLugar
    <3> QED
      BY <3>2
  <2> QED
    BY <2>4, <2>5
<1>6. Ciclo!Ejecutar(x.id)
  BY <1>3, <1>4, <1>5 DEF Ciclo!Ejecutar, Ciclo!Pasar, Estados
<1> QED
  BY <1>3, <1>6

-----------------------------------------------------------------------------
\* How many processes are in memory

NumerosEn(l) == {x.id : x \in Lugares[l]}

\* The processes that take a place of the degree once admitted, or that the race
\* has lost.
EnReady == NumerosEn("ready") \cup NumerosEn("cp")
EnExec == NumerosEn("dispatch") \cup NumerosEn("cpu") \cup NumerosEn("syscalls")
SaleDeSc == IF sc.en \in EnEjecucion THEN {sc.pcb.id} ELSE {}
EnBlocked == NumerosEn("blocked") \cup NumerosEn("io")
Extraviados == {p \in Procesos : Extraviado(p)}
Admitidos == EnReady \cup EnExec \cup SaleDeSc \cup EnBlocked \cup Extraviados

\* The places of the degree are enough for them.
LEMMA CuantosAdmitidos ==
  ASSUME Situados, EnCamino <= 1
  PROVE  Acotado(Admitidos, LugaresOcupados - LugarLp + Perdido)
<1>t. TypeOK
  BY DEF Situados
<1>n. NatGrado /\ LugarCp \in Nat /\ LugarCpu \in Nat
  BY <1>t, Naturales, NaturalesSRT DEF TypeOK
<1>a. ASSUME NEW l \in Nombres, NEW s \in {cola_ready, cola_blocked, dispatch},
             Lugares[l] = Range(s)
      PROVE  Acotado(NumerosEn(l), Len(s))
  <2>1. s \in Seq(PCB) /\ Distintos(s)
    BY <1>t DEF Situados, SinRepetidos, TypeOK, KernelTypeOK, TipoColas, TipoCpu
  <2>2. NumerosEn(l) = Ids(s)
    BY <1>a DEF NumerosEn, Ids, Range
  <2>3. IsFiniteSet(Ids(s)) /\ Cardinality(Ids(s)) = Len(s) /\ Len(s) \in Nat
    BY <2>1, IdsContados, LenProperties
  <2> QED
    BY <2>2, <2>3 DEF Acotado
\* A place for one PCB has one or none, as the account of the degree says.
<1>b. ASSUME NEW l \in Nombres, NEW n \in {0, 1}, n = 0 => Lugares[l] = {},
             \A x, y \in Lugares[l] : x = y
      PROVE  Acotado(NumerosEn(l), n)
  <2>1. /\ n = 0 => NumerosEn(l) = {}
        /\ \A u, v \in NumerosEn(l) : u = v
    BY <1>b DEF NumerosEn
  <2> QED
    BY <2>1, ALoSumoUno
<1>1. Acotado(NumerosEn("ready"), Len(cola_ready))
  BY <1>a, CadaLugar, Sitios
<1>2. Acotado(NumerosEn("cp"), LugarCp)
  <2>1. LugarCp \in {0, 1} /\ (LugarCp = 0 => LugarDeCp = {})
    BY <1>t DEF LugarCp, LugarDeCp, Uno, TypeOK, CpConPCB
  <2>2. \A x, y \in LugarDeCp : x = y
    BY DEF LugarDeCp
  <2> QED
    BY <1>b, <2>1, <2>2, CadaLugar, Sitios
<1>3. Acotado(NumerosEn("dispatch"), Len(dispatch))
  BY <1>a, CadaLugar, Sitios
<1>4. Acotado(NumerosEn("cpu"), LugarCpu)
  <2>1. LugarCpu \in {0, 1} /\ (LugarCpu = 0 => LugarDeCpu = {})
    BY DEF LugarCpu, LugarDeCpu, Uno
  <2>2. \A x, y \in LugarDeCpu : x = y
    BY DEF LugarDeCpu
  <2> QED
    BY <1>b, <2>1, <2>2, CadaLugar, Sitios
<1>5. Acotado(NumerosEn("syscalls"), Len(syscalls))
  <2>1. syscalls \in Seq(Syscalls) /\ Len(syscalls) <= 1 /\ Len(syscalls) \in {0, 1}
    <3>1. syscalls \in Seq(Syscalls) /\ Len(syscalls) \in Nat
      BY <1>t, LenProperties DEF TypeOK, KernelTypeOK, TipoCpu
    <3>2. Len(syscalls) <= 1
      BY <1>t, <1>n, Camino DEF NatGrado, EnCamino, Uno
    <3>3. PICK n \in Nat : n = Len(syscalls)
      BY <3>1
    <3>4. n = 0 \/ n = 1
      BY <3>2, <3>3
    <3> QED
      BY <3>1, <3>2, <3>3, <3>4
  <2>2. syscalls = <<>> \/ Range(syscalls) = {Head(syscalls)}
    <3>1. syscalls # <<>> => Range(syscalls) = {Head(syscalls)}
      BY <2>1, UnSoloMensaje, Zenon
    <3> QED
      BY <3>1
  <2>3. Len(syscalls) = 0 => syscalls = <<>>
    BY <2>1, ColaLen
  <2>4. /\ Len(syscalls) = 0 => Lugares["syscalls"] = {}
        /\ \A x, y \in Lugares["syscalls"] : x = y
    BY <2>2, <2>3, CadaLugar, Vacio
  <2> QED
    BY <1>b, <2>1, <2>4, Sitios
<1>6. Acotado(SaleDeSc, LugarSc)
  <2>1. /\ LugarSc \in {0, 1} /\ (LugarSc = 0 => SaleDeSc = {})
        /\ \A x, y \in SaleDeSc : x = y
    BY DEF LugarSc, Uno, SaleDeSc, EnEjecucion
  <2> QED
    BY <2>1, ALoSumoUno
<1>7. Acotado(NumerosEn("blocked"), Len(cola_blocked))
  BY <1>a, CadaLugar, Sitios
<1>8. Acotado(NumerosEn("io"), LugarIo)
  <2>1. /\ LugarIo \in {0, 1} /\ (LugarIo = 0 => Lugares["io"] = {})
        /\ \A x, y \in Lugares["io"] : x = y
    BY <1>t, CadaLugar DEF LugarIo, Uno, TypeOK, KernelTypeOK, TipoIo, IoConPCB
  <2> QED
    BY <1>b, <2>1, Sitios
<1>9. Acotado(Extraviados, Perdido)
  <2>1. /\ Perdido \in {0, 1} /\ (Perdido = 0 => Extraviados = {})
        /\ \A x, y \in Extraviados : x = y
    BY DEF Extraviados, Perdido, Uno, Situados, ALoSumoUnExtraviado
  <2> QED
    BY <2>1, ALoSumoUno
\* The terms, as numbers of no particular meaning, are added two by two.
<1>s. ASSUME NEW S, NEW T, NEW m \in Nat, NEW n \in Nat, Acotado(S, m), Acotado(T, n)
      PROVE  Acotado(S \cup T, m + n) /\ m + n \in Nat
  BY <1>s, Juntos
<1>10. PICK r \in Nat : r = Len(cola_ready) + LugarCp
  BY <1>n DEF NatGrado
<1>11. Acotado(EnReady, r)
  BY <1>1, <1>2, <1>10, <1>n, <1>s DEF EnReady, NatGrado
<1>12. PICK e \in Nat : e = Len(dispatch) + LugarCpu + Len(syscalls)
  BY <1>n DEF NatGrado
<1>13. Acotado(EnExec, e)
  <2>1. PICK m \in Nat : m = Len(dispatch) + LugarCpu
    BY <1>n DEF NatGrado
  <2>2. Acotado(NumerosEn("dispatch") \cup NumerosEn("cpu"), m)
    BY <1>3, <1>4, <2>1, <1>n, <1>s DEF NatGrado
  <2>3. Acotado(EnExec, m + Len(syscalls))
    BY <1>5, <2>2, <1>n, <1>s DEF EnExec, NatGrado
  <2> QED
    BY <1>12, <2>1, <2>3
<1>14. PICK b \in Nat : b = Len(cola_blocked) + LugarIo
  BY <1>n DEF NatGrado
<1>15. Acotado(EnBlocked, b)
  BY <1>7, <1>8, <1>14, <1>n, <1>s DEF EnBlocked, NatGrado
<1>16. PICK c \in Nat : c = LugarSc
  BY <1>n DEF NatGrado
<1>17. PICK f \in Nat : f = Perdido
  BY <1>n DEF NatGrado
<1>18. Acotado(EnReady \cup EnExec, r + e) /\ r + e \in Nat
  BY <1>11, <1>13, <1>s
<1>19. Acotado(EnReady \cup EnExec \cup SaleDeSc, r + e + c) /\ r + e + c \in Nat
  BY <1>6, <1>16, <1>18, <1>s
<1>20. /\ Acotado(EnReady \cup EnExec \cup SaleDeSc \cup EnBlocked, r + e + c + b)
       /\ r + e + c + b \in Nat
  BY <1>15, <1>19, <1>s
<1>21. Acotado(Admitidos, r + e + c + b + f)
  BY <1>9, <1>17, <1>20, <1>s DEF Admitidos
<1>22. r + e + c + b + f = LugaresOcupados - LugarLp + Perdido
  BY <1>n, <1>10, <1>12, <1>14, <1>16, <1>17 DEF LugaresOcupados, NatGrado
<1> QED
  BY <1>21, <1>22

\* pasar_a_ready admits a process only within the degree, however many preempted
\* ones are waiting in lista_ready.
LEMMA HayLugarParaAdmitir ==
  ASSUME Situados, GradoRespetado, EnCamino <= 1, ~doble_envio, lp.en = "encolar"
  PROVE  Cardinality({p \in Procesos :
           Estados[p] \in {"ready", "exec", "blocked", "suspended_blocked"}})
             < GRADO_MULTIPROGRAMACION
<1> DEFINE S == {p \in Procesos :
             Estados[p] \in {"ready", "exec", "blocked", "suspended_blocked"}}
<1>t. TypeOK
  BY DEF Situados
<1>1. S \subseteq Admitidos
  <2> SUFFICES ASSUME NEW p \in Procesos, p \notin Extraviados,
                      Estado(p) \in {"ready", "exec", "blocked", "suspended_blocked"}
               PROVE  p \in Admitidos
    BY DEF Estados, Admitidos
  <2>1. consola[p] = "esperando"
    BY <1>t, LosEstados DEF EstadoPorLugar, TypeOK, KernelTypeOK, TipoSockets
  <2>2. PICK l \in Nombres : \E x \in Lugares[l] : x.id = p
    BY <2>1, Nombrados DEF Extraviados, Extraviado, EnAlgunLugar
  <2>3. PICK x \in Lugares[l] : x.id = p
    BY <2>2
  <2>4. EstadoEn(l, x) \in {"ready", "exec", "blocked", "suspended_blocked"}
    BY <2>3, LosEstados DEF EstadoPorLugar
  <2>5. p \in NumerosEn(l)
    BY <2>3 DEF NumerosEn
  <2>6. CASE l \in {"ready", "cp"}
    BY <2>5, <2>6 DEF Admitidos, EnReady
  <2>7. CASE l \in {"dispatch", "cpu", "syscalls"}
    BY <2>5, <2>7 DEF Admitidos, EnExec
  <2>8. CASE l \in {"blocked", "io"}
    BY <2>5, <2>8 DEF Admitidos, EnBlocked
  <2>9. CASE l = "sc"
    <3>1. sc.en \in EnEjecucion /\ sc.pcb = x
      BY <2>3, <2>4, <2>9, CadaLugar DEF EstadoEn
    <3> QED
      BY <2>3, <3>1 DEF Admitidos, SaleDeSc
  <2>10. l \notin {"new", "lp", "suspended_ready"}
    BY <2>4 DEF EstadoEn
  <2> QED
    BY <2>6, <2>7, <2>8, <2>9, <2>10 DEF Nombres, NombresDelKernel
<1>2. Acotado(Admitidos, LugaresOcupados - LugarLp + Perdido)
  BY CuantosAdmitidos
<1>3. /\ LugaresOcupados \in Nat /\ Perdido \in Nat /\ sem["grado_multiprogramacion"] \in Nat
  <2>1. NatGrado /\ LugarCp \in Nat /\ LugarCpu \in Nat
    BY <1>t, Naturales, NaturalesSRT DEF TypeOK
  <2> QED
    BY <2>1 DEF NatGrado, LugaresOcupados
<1>4. LugarLp = 1
  BY DEF LugarLp, Uno
<1>5. GRADO_MULTIPROGRAMACION \in Nat
  BY KernelAssumption DEF KernelAssumption
<1>6. LugaresOcupados - LugarLp + Perdido < GRADO_MULTIPROGRAMACION
  BY <1>3, <1>4, <1>5 DEF GradoRespetado
<1> HIDE DEF S
<1>7. /\ Cardinality(S) <= Cardinality(Admitidos)
      /\ Cardinality(S) \in Nat /\ Cardinality(Admitidos) \in Nat
  BY <1>1, <1>2, FS_Subset, FS_CardinalityType DEF Acotado
<1>8. PICK k \in Int : k = LugaresOcupados - LugarLp + Perdido
  BY <1>3, <1>4
<1>9. Cardinality(Admitidos) <= k
  BY <1>2, <1>8 DEF Acotado
<1>10. Cardinality(S) < GRADO_MULTIPROGRAMACION
  BY <1>5, <1>6, <1>7, <1>8, <1>9
<1> QED
  BY <1>10 DEF S

\* EncolarReady is the admission, and there is room for it.
LEMMA PasoAdmitir ==
  ASSUME Situados, GradoRespetado, EjecucionSana, ~doble_envio, Situados',
         UNCHANGED srt_vars, EncolarReady
  PROVE  \E p \in Procesos : Ciclo!Admitir(p)
<1>1. /\ lp.pcb \in Lugares["lp"] /\ Muda("lp", lp.pcb, "ready", lp.pcb)
      /\ lp.en = "encolar" /\ UNCHANGED <<sc, consola, esta_suspendido>>
  BY Traslados DEF EncolarReady, sockets, suspension
<1>2. PICK x : x = lp.pcb
  OBVIOUS
<1>3. /\ x.id \in Procesos /\ Estados[x.id] = EstadoEn("lp", x)
      /\ Estados' = [Estados EXCEPT ![x.id] = EstadoEn("ready", x)']
  BY <1>1, <1>2, Sitios, UnoSeMuda
<1>4. EstadoEn("lp", x) \in {"new", "suspended_ready"} /\ EstadoEn("ready", x)' = "ready"
  BY DEF EstadoEn
<1>5. Ciclo!Admitir(x.id)
  <2>1. \/ Ciclo!Pasar(x.id, "new", "ready") \/ Ciclo!Pasar(x.id, "suspended_ready", "ready")
    BY <1>3, <1>4 DEF Ciclo!Pasar
  <2>2. Cardinality(Ciclo!EnMemoria) < GRADO_MULTIPROGRAMACION
    BY <1>1, HayLugarParaAdmitir DEF Ciclo!EnMemoria, EjecucionSana
  <2>3. Ciclo!Cardinality(Ciclo!EnMemoria) = Cardinality(Ciclo!EnMemoria)
    BY DEF Ciclo!Cardinality, Cardinality
  <2> QED
    BY <2>1, <2>2, <2>3 DEF Ciclo!Admitir
<1> QED
  BY <1>3, <1>5

\* The steps that change the state of nobody: those of the kernel ...
LEMMA PasoSinMudanza ==
  ASSUME Situados, Situados', ~caido, UNCHANGED srt_vars,
         \/ AvisarNew \/ EsperarProceso \/ TomarGrado \/ PedirTablas \/ AvisarReady
         \/ BuscarUltimo \/ CrearSuspensor \/ AvisarIO \/ PedirFin \/ RecibirFin
         \/ TerminarIO \/ LiberarGradoSuspendido \/ AvisarSuspendedReady
         \/ AvisarReadyIO \/ SoltarSuspendiendo \/ AtenderPedido
         \/ (SacarDeNew /\ cola_new = <<>>)
         \/ (SacarDeSuspendedReady /\ cola_suspended_ready = <<>>)
         \/ (TomarBloqueado /\ caido')
         \/ \E b \in Bloqueos : \/ Despertar(b) \/ Cancelar(b) \/ TomarSuspendiendo(b)
                                \/ RecibirSuspension(b)
  PROVE  Estados' = Estados
<1>t. TypeOK
  BY DEF Situados
<1>q. Quieto
  BY <1>t, Quietos DEF Suspensor
<1>1. CASE \/ AvisarNew \/ EsperarProceso \/ TomarGrado \/ PedirTablas
           \/ AvisarReady \/ TerminarIO \/ LiberarGradoSuspendido
           \/ AvisarSuspendedReady \/ AvisarReadyIO \/ SoltarSuspendiendo \/ AtenderPedido
  <2>1. UNCHANGED <<sc, consola, esta_suspendido>>
    BY <1>1 DEF AvisarNew, EsperarProceso, TomarGrado, PedirTablas, AvisarReady, TerminarIO,
       LiberarGradoSuspendido, AvisarSuspendedReady, AvisarReadyIO, SoltarSuspendiendo,
       AtenderPedido, sockets, suspension
  <2> QED
    BY <1>q, <2>1, NadieSeMuda
<1>2. CASE \/ (SacarDeNew /\ cola_new = <<>>)
           \/ (SacarDeSuspendedReady /\ cola_suspended_ready = <<>>)
           \/ (TomarBloqueado /\ caido')
  <2>1. UNCHANGED <<sc, consola, esta_suspendido>>
    BY <1>2 DEF SacarDeNew, SacarDeSuspendedReady, TomarBloqueado, sockets, suspension
  <2> QED
    BY <1>q, <2>1, NadieSeMuda
<1>3. CASE BuscarUltimo \/ PedirFin \/ RecibirFin
  <2>1. UNCHANGED <<consola, esta_suspendido>>
    BY <1>3 DEF BuscarUltimo, PedirFin, RecibirFin, sockets, suspension
  <2>2. sc'.en \in EnEjecucion <=> sc.en \in EnEjecucion
    BY <1>t, <1>3 DEF BuscarUltimo, PedirFin, RecibirFin, EnEjecucion, TypeOK, KernelTypeOK,
       TipoSc
  <2> QED
    BY <1>q, <2>1, <2>2, NadieSeMuda
<1>4. CASE CrearSuspensor \/ AvisarIO
  <2>1. UNCHANGED <<consola, esta_suspendido>>
    BY <1>4 DEF CrearSuspensor, AvisarIO, sockets, suspension
  <2>2. Lugares["sc"] = {}
    BY <1>4, CadaLugar DEF CrearSuspensor, AvisarIO, ScDuenio
  <2> QED
    BY <1>q, <2>1, <2>2, NadieSeMuda
<1>5. CASE \E b \in Bloqueos : \/ Despertar(b) \/ Cancelar(b) \/ TomarSuspendiendo(b)
                               \/ RecibirSuspension(b)
  <2>1. UNCHANGED <<sc, consola, esta_suspendido>>
    BY <1>5 DEF Despertar, Cancelar, TomarSuspendiendo, RecibirSuspension, sockets
  <2> QED
    BY <1>q, <2>1, NadieSeMuda
<1> QED
  BY <1>1, <1>2, <1>3, <1>4, <1>5

\* ... and those of the scheduler and the CPU, which decide without moving anybody.
LEMMA PasoSinMudanzaSRT ==
  ASSUME Situados, Situados', Cuentas, EnPie,
         \/ EsperarReady \/ NadaEnReady \/ Permanece \/ ElegirOtro \/ SinInterrumpir
         \/ Interrumpir \/ EsperarDesalojo \/ Asignar \/ LiberarEjecucion
         \/ AvisarReadySyscall \/ CpuInstruccion \/ ChequearSyscall \/ ChequearNada
         \/ LimpiarInterrupcion \/ RecibirInterrupcion
  PROVE  Estados' = Estados
<1>t. TypeOK
  BY DEF Situados
<1>q. Quieto
  BY <1>t, QuietosSRT
<1>1. CASE LiberarEjecucion \/ AvisarReadySyscall
  <2>1. UNCHANGED <<consola, esta_suspendido>>
    BY <1>1 DEF LiberarEjecucion, AvisarReadySyscall, sockets, suspension
  <2>2. Lugares["sc"] = {}
    BY <1>1, CadaLugar DEF LiberarEjecucion, AvisarReadySyscall, ScDuenio
  <2> QED
    BY <1>q, <2>1, <2>2, NadieSeMuda
<1>2. CASE \/ EsperarReady \/ NadaEnReady \/ Permanece \/ ElegirOtro \/ SinInterrumpir
           \/ Interrumpir \/ EsperarDesalojo \/ Asignar
           \/ CpuInstruccion \/ ChequearSyscall \/ ChequearNada
           \/ LimpiarInterrupcion \/ RecibirInterrupcion
  <2>1. UNCHANGED <<sc, consola, esta_suspendido>>
    BY <1>2 DEF EsperarReady, NadaEnReady, Permanece, ElegirOtro, SinInterrumpir, Interrumpir,
       EsperarDesalojo, Asignar, CpuInstruccion, ChequearSyscall, ChequearNada,
       LimpiarInterrupcion, RecibirInterrupcion, kernel_vars, sockets, suspension
  <2> QED
    BY <1>q, <2>1, NadieSeMuda
<1> QED
  BY <1>1, <1>2

\* A PCB that moves within one state.
LEMMA PorDentro ==
  ASSUME Situados, Situados',
         NEW a \in Nombres, NEW b \in Nombres, NEW x \in Lugares[a], NEW y, y.id = x.id,
         Muda(a, x, b, y), UNCHANGED <<consola, esta_suspendido>>,
         sc' = sc \/ Lugares["sc"] = {}, EstadoEn(b, y)' = EstadoEn(a, x)
  PROVE  Estados' = Estados
<1>1. /\ x.id \in Procesos /\ Estados[x.id] = EstadoEn(a, x)
      /\ Estados' = [Estados EXCEPT ![x.id] = EstadoEn(b, y)']
  BY UnoSeMuda
<1> QED
  BY <1>1 DEF Estados

\* The steps that do so: of the kernel ...
LEMMA PasoPorDentro ==
  ASSUME Situados, Suspensores, ~doble_envio, Situados', ~caido, UNCHANGED srt_vars,
         \/ (SacarDeNew /\ cola_new # <<>>)
         \/ (SacarDeSuspendedReady /\ cola_suspended_ready # <<>>)
         \/ RecibirTablas \/ RecibirSyscall
         \/ (TomarBloqueado /\ ~caido')
  PROVE  Estados' = Estados
<1> USE Sitios
<1>e. Edades
  BY DEF Suspensores
<1>1. CASE SacarDeNew /\ cola_new # <<>>
  <2>1. PICK x : x = Head(cola_new)
    OBVIOUS
  <2>2. x \in Lugares["new"] /\ Muda("new", x, "lp", x)
    BY <1>1, <2>1, Traslados
  <2>3. UNCHANGED <<sc, consola, esta_suspendido>>
    BY <1>1 DEF SacarDeNew, sockets, suspension
  <2>4. x.pc = 0
    BY <1>e, <2>2, CadaLugar DEF Edades
  <2>5. EstadoEn("lp", x)' = EstadoEn("new", x)
    BY <2>4 DEF EstadoEn
  <2> QED
    BY <2>2, <2>3, <2>5, PorDentro
<1>2. CASE SacarDeSuspendedReady /\ cola_suspended_ready # <<>>
  <2>1. PICK x : x = Head(cola_suspended_ready)
    OBVIOUS
  <2>2. x \in Lugares["suspended_ready"] /\ Muda("suspended_ready", x, "lp", x)
    BY <1>2, <2>1, Traslados
  <2>3. UNCHANGED <<sc, consola, esta_suspendido>>
    BY <1>2 DEF SacarDeSuspendedReady, sockets, suspension
  <2>4. x.pc # 0
    <3>1. x.pc > 0
      BY <1>e, <2>2, CadaLugar DEF Edades
    <3> QED
      BY <3>1
  <2>5. EstadoEn("lp", x)' = EstadoEn("suspended_ready", x)
    BY <2>4 DEF EstadoEn
  <2> QED
    BY <2>2, <2>3, <2>5, PorDentro
<1>3. CASE RecibirTablas
  <2>1. PICK x : x = lp.pcb
    OBVIOUS
  <2>2. PICK y : y = lp'.pcb
    OBVIOUS
  <2>3. x \in Lugares["lp"] /\ y.id = x.id /\ y.pc = x.pc /\ Muda("lp", x, "lp", y)
    BY <1>3, <2>1, <2>2, Traslados
  <2>4. UNCHANGED <<sc, consola, esta_suspendido>>
    BY <1>3 DEF RecibirTablas, suspension
  <2>5. EstadoEn("lp", y)' = EstadoEn("lp", x)
    BY <2>3 DEF EstadoEn
  <2> QED
    BY <2>3, <2>4, <2>5, PorDentro
<1>4. CASE RecibirSyscall
  <2>1. PICK x : x = Head(syscalls).pcb
    OBVIOUS
  <2>2. x \in Lugares["syscalls"] /\ Muda("syscalls", x, "sc", x)
    BY <1>4, <2>1, Traslados
  <2>3. UNCHANGED <<consola, esta_suspendido>> /\ Lugares["sc"] = {}
    BY <1>4, CadaLugar DEF RecibirSyscall, sockets, suspension, ScDuenio
  <2>4. sc'.en \in EnEjecucion
    BY <1>4 DEF RecibirSyscall, En, EnEjecucion
  <2>5. EstadoEn("sc", x)' = EstadoEn("syscalls", x)
    BY <2>4 DEF EstadoEn, EnEjecucion
  <2> QED
    BY <2>2, <2>3, <2>5, PorDentro
<1>5. CASE TomarBloqueado /\ ~caido'
  <2>1. PICK x : x = Head(cola_blocked)
    OBVIOUS
  <2>2. x \in Lugares["blocked"] /\ Muda("blocked", x, "io", x)
    BY <1>5, <2>1, Traslados DEF TomarBloqueado
  <2>3. UNCHANGED <<sc, consola, esta_suspendido>>
    BY <1>5 DEF TomarBloqueado, sockets, suspension
  <2>4. EstadoEn("io", x)' = EstadoEn("blocked", x)
    BY <2>3 DEF EstadoEn, Bloqueo
  <2> QED
    BY <2>2, <2>3, <2>4, PorDentro
<1> QED
  BY <1>1, <1>2, <1>3, <1>4, <1>5

\* ... and of the scheduler and the CPU, preempted or not.
LEMMA PasoPorDentroSRT ==
  ASSUME Situados, Situados', Cuentas, EnPie,
         Sacar \/ CpuRecibir \/ CpuIO \/ CpuExit \/ (ChequearInterrupcion /\ ~doble_envio')
  PROVE  Estados' = Estados
<1> USE Sitios
<1>t. TypeOK /\ SinRepetidos
  BY DEF Situados
<1>u. UNCHANGED <<sc, consola, esta_suspendido>>
  BY DEF Sacar, CpuRecibir, CpuIO, CpuExit, CpuSyscall, ChequearInterrupcion, sockets, suspension
<1>1. CASE Sacar
  <2>1. PICK x \in Lugares["ready"] : Muda("ready", x, "cp", x)
    BY <1>t, <1>1, TrasladosSRT
  <2>2. EstadoEn("cp", x)' = EstadoEn("ready", x)
    BY DEF EstadoEn
  <2> QED
    BY <1>u, <2>1, <2>2, PorDentro
<1>2. CASE CpuRecibir
  <2>1. PICK x \in Lugares["dispatch"] : Muda("dispatch", x, "cpu", x)
    BY <1>t, <1>2, TrasladosSRT
  <2>2. EstadoEn("cpu", x)' = EstadoEn("dispatch", x)
    BY DEF EstadoEn
  <2> QED
    BY <1>u, <2>1, <2>2, PorDentro
<1>3. CASE CpuIO \/ CpuExit \/ (ChequearInterrupcion /\ ~doble_envio')
  <2>1. PICK x : x = cpu.pcb
    OBVIOUS
  <2>2. x \in Lugares["cpu"] /\ \E y \in PCB : y.id = x.id /\ Muda("cpu", x, "syscalls", y)
    BY <1>t, <1>3, <2>1, TrasladosSRT
  <2>3. PICK y \in PCB : y.id = x.id /\ Muda("cpu", x, "syscalls", y)
    BY <2>2
  <2>4. EstadoEn("syscalls", y)' = EstadoEn("cpu", x)
    BY DEF EstadoEn
  <2> QED
    BY <1>u, <2>2, <2>3, <2>4, PorDentro
<1> QED
  BY <1>1, <1>2, <1>3

\* Every step is one of the life cycle with preemption, or none.
LEMMA PasoDeCiclo ==
  ASSUME Situados, Cuentas, EjecucionSana, Suspensores, Situados', Next, ~doble_envio'
  PROVE  Ciclo!NextConDesalojo \/ Estados' = Estados
<1>p. EnPie /\ ~doble_envio /\ ~caido /\ GradoRespetado
  BY DEF Next, EnPie, Cuentas
<1>1. CASE UNCHANGED srt_vars /\ HiloRecibirProcesos
  BY <1>p, <1>1, PasoSinMudanza, PasoLlegar
     DEF HiloRecibirProcesos, Ciclo!Next, Ciclo!NextConDesalojo
<1>2. CASE UNCHANGED srt_vars /\ HiloPasarAReady
  BY <1>p, <1>2, PasoSinMudanza, PasoPorDentro, PasoAdmitir
     DEF HiloPasarAReady, Ciclo!Next, Ciclo!NextConDesalojo
<1>3. CASE UNCHANGED srt_vars /\ HiloSyscall
  BY <1>p, <1>3, PasoSinMudanza, PasoPorDentro, PasoBloquear, PasoTerminar, PasoResponder
     DEF HiloSyscall, Ciclo!Next, Ciclo!NextConDesalojo
<1>4. CASE UNCHANGED srt_vars /\ HiloIO
  BY <1>p, <1>4, PasoSinMudanza, PasoPorDentro, PasoDesbloquear
     DEF HiloIO, Ciclo!Next, Ciclo!NextConDesalojo
<1>5. CASE UNCHANGED srt_vars /\ \E b \in Bloqueos : Suspensor(b)
  BY <1>p, <1>5, PasoSinMudanza, PasoSuspender DEF Suspensor, Ciclo!Next, Ciclo!NextConDesalojo
<1>6. CASE UNCHANGED srt_vars /\ AtenderPedido
  BY <1>p, <1>6, PasoSinMudanza
<1>7. CASE HiloReadyAExecuting
  BY <1>p, <1>7, PasoSinMudanzaSRT, PasoPorDentroSRT, PasoEjecutar
     DEF HiloReadyAExecuting, Ciclo!Next, Ciclo!NextConDesalojo
<1>8. CASE HiloSyscallSRT
  BY <1>p, <1>8, PasoSinMudanzaSRT, PasoDesalojar DEF HiloSyscallSRT, Ciclo!NextConDesalojo
<1>9. CASE CpuRecibir \/ HiloExecuter \/ RecibirInterrupcion
  BY <1>p, <1>9, PasoSinMudanzaSRT, PasoPorDentroSRT DEF HiloExecuter
<1> QED
  BY <1>1, <1>2, <1>3, <1>4, <1>5, <1>6, <1>7, <1>8, <1>9 DEF Next, DelKernel

LEMMA SituadosSinDoble == TypeOK /\ Ubicados /\ ~doble_envio => Situados
  BY DEF Situados, Ubicados

LEMMA SituadosSinDoblePrima == TypeOK' /\ Ubicados' /\ ~doble_envio' => Situados'
  BY SituadosSinDoble, PTL

\* Under preemption too the kernel implements the seven-state life cycle, with the
\* step from exec back to ready: as long as no interrupt, assignment or post has
\* gone astray, no admission exceeds the degree and no process is sent to the CPU
\* while another is executing, although the scheduler writes down whom it has sent
\* only afterwards.
THEOREM ElKernelImplementaElCicloConDesalojo == Spec => ImplementaCicloConDesalojo
<1>1. TypeOK /\ Inductiva /\ TypeOK' /\ Inductiva' /\ [Next]_vars =>
        [anomalias' = {} /\ ~doble_envio' =>
           Ciclo!NextConDesalojo \/ UNCHANGED Estados]_vars
  <2> SUFFICES ASSUME TypeOK, Inductiva, TypeOK', Inductiva', Next,
                      anomalias' = {}, ~doble_envio'
               PROVE  Ciclo!NextConDesalojo \/ Estados' = Estados
    OBVIOUS
  <2>1. anomalias = {} /\ ~doble_envio
    BY AnomaliasQuedan DEF Next, EnPie
  <2>2. Situados /\ Situados'
    BY <2>1, SituadosSinDoble, SituadosSinDoblePrima DEF Inductiva
  <2>3. EjecucionSana
    BY <2>1 DEF Inductiva, Ejecucion
  <2> QED
    BY <2>2, <2>3, PasoDeCiclo DEF Inductiva
<1> QED
  BY <1>1, TiposCorrectos, SiempreInductiva, PTL DEF Spec, ImplementaCicloConDesalojo
=============================================================================
