---------------------------- MODULE Kernel_proofs ----------------------------
(***************************************************************************)
(* What every step of a thread of Kernel preserves or does, whatever the   *)
(* scheduling algorithm: the types, what the semaphores count, and where   *)
(* each PCB is.  KernelFIFO_proofs and KernelSRT_proofs cite these lemmas  *)
(* for the steps their modules share.                                      *)
(***************************************************************************)
EXTENDS Kernel, FiniteSets, SequenceTheorems, FiniteSetTheorems, TLAPS

-----------------------------------------------------------------------------
\* Queues and semaphores

LEMMA ColaPush ==
  ASSUME NEW S, NEW s \in Seq(S), NEW x \in S
  PROVE  /\ Append(s, x) \in Seq(S)
         /\ Append(s, x) # <<>>
         /\ Len(Append(s, x)) = Len(s) + 1
  BY AppendProperties

LEMMA ColaPop ==
  ASSUME NEW S, NEW s \in Seq(S), s # <<>>
  PROVE  /\ Head(s) \in S
         /\ Tail(s) \in Seq(S)
         /\ Len(s) > 0
         /\ Len(Tail(s)) = Len(s) - 1
<1>1. Len(s) > 0
  BY EmptySeq
<1> QED
  BY <1>1, HeadTailProperties

LEMMA ColaLen ==
  ASSUME NEW S, NEW s \in Seq(S)
  PROVE  Len(s) \in Nat /\ (Len(s) = 0 <=> s = <<>>)
  BY EmptySeq

LEMMA SemTipo ==
  ASSUME sem \in [Semaforos -> Nat], NEW s \in Semaforos, sem_wait(s) \/ sem_post(s)
  PROVE  sem' \in [Semaforos -> Nat]
  BY DEF sem_wait, sem_post

-----------------------------------------------------------------------------
\* Types

\* What a step leaves alone keeps its type.
LEMMA Estables ==
  ASSUME KernelTypeOK
  PROVE  /\ UNCHANGED sockets => TipoSockets'
         /\ UNCHANGED cpu_vars => TipoCpu'
         /\ UNCHANGED colas => TipoColas'
         /\ UNCHANGED lp => TipoLp'
         /\ UNCHANGED sc => TipoSc'
         /\ UNCHANGED io => TipoIo'
         /\ UNCHANGED suspension => TipoSuspension'
         /\ UNCHANGED carrera => TipoCarrera'
<1> USE DEF KernelTypeOK
<1>1. UNCHANGED sockets => TipoSockets'
  BY DEF sockets, TipoSockets
<1>2. UNCHANGED cpu_vars => TipoCpu'
  BY DEF cpu_vars, TipoCpu
<1>3. UNCHANGED colas => TipoColas'
  BY DEF colas, TipoColas
<1>4. UNCHANGED lp => TipoLp'
  BY DEF TipoLp
<1>5. UNCHANGED sc => TipoSc'
  BY DEF TipoSc
<1>6. UNCHANGED io => TipoIo'
  BY DEF TipoIo
<1>7. UNCHANGED suspension => TipoSuspension'
  BY DEF suspension, TipoSuspension
<1>8. UNCHANGED carrera => TipoCarrera'
  BY DEF carrera, TipoCarrera
<1> QED
  BY <1>1, <1>2, <1>3, <1>4, <1>5, <1>6, <1>7, <1>8

LEMMA KernelInitTypeOK == KernelInit => KernelTypeOK
<1> USE KernelAssumption, NuloAssumption DEF KernelAssumption, NuloAssumption
<1> SUFFICES ASSUME KernelInit PROVE KernelTypeOK
  OBVIOUS
<1>1. sem \in [Semaforos -> Nat]
  BY DEF KernelInit, Semaforos
<1>2. TipoSockets /\ TipoCpu /\ TipoColas
  BY EmptySeq DEF KernelInit, TipoSockets, TipoCpu, TipoColas
<1>3. TipoLp /\ TipoSc /\ TipoIo
  BY DEF KernelInit, TipoLp, TipoSc, TipoIo, En, LpConPCB, ScConPCB, IoConPCB
<1>4. TipoSuspension /\ TipoCarrera
  BY DEF KernelInit, TipoSuspension, TipoCarrera
<1> QED
  BY <1>1, <1>2, <1>3, <1>4 DEF KernelInit, KernelTypeOK

\* Every step of a thread of the kernel keeps the types.
LEMMA DelKernelTypeOK == KernelTypeOK /\ DelKernel => KernelTypeOK'
<1> SUFFICES ASSUME KernelTypeOK, DelKernel PROVE KernelTypeOK'
  OBVIOUS
<1> USE KernelAssumption, NuloAssumption, Estables
    DEF KernelAssumption, NuloAssumption, KernelTypeOK
<1>1. ASSUME NEW p \in Procesos, RecibirProceso(p)
      PROVE  KernelTypeOK'
  <2>1. [id |-> p, pc |-> 0, tabla |-> NULO] \in PCB
    BY <1>1 DEF RecibirProceso, PCB
  <2>2. TipoSockets'
    BY <1>1, <2>1 DEF RecibirProceso, TipoSockets
  <2>3. TipoColas'
    BY <1>1, <2>1, ColaPush DEF RecibirProceso, TipoColas
  <2> QED
    BY <1>1, <2>2, <2>3 DEF RecibirProceso
<1>2. CASE AvisarNew
  <2>1. sem' \in [Semaforos -> Nat]
    BY <1>2, SemTipo DEF AvisarNew, Semaforos
  <2> QED
    BY <1>2, <2>1 DEF AvisarNew
<1>3. CASE EsperarProceso
  <2>1. sem' \in [Semaforos -> Nat]
    BY <1>3, SemTipo DEF EsperarProceso, Semaforos
  <2>2. TipoLp'
    BY <1>3 DEF EsperarProceso, TipoLp, LpConPCB, En
  <2> QED
    BY <1>3, <2>1, <2>2 DEF EsperarProceso
<1>4. CASE TomarGrado
  <2>1. sem' \in [Semaforos -> Nat]
    BY <1>4, SemTipo DEF TomarGrado, Semaforos
  <2>2. TipoLp'
    BY <1>4 DEF TomarGrado, TipoLp, LpConPCB, En
  <2> QED
    BY <1>4, <2>1, <2>2 DEF TomarGrado
<1>5. CASE SacarDeNew
  <2>1. cola_new # <<>> => Head(cola_new) \in PCB
    BY <1>5, ColaPop DEF SacarDeNew, TipoColas
  <2>2. TipoLp'
    BY <1>5, <2>1 DEF SacarDeNew, TipoLp, LpConPCB, En
  <2>3. TipoColas'
    BY <1>5, <2>1, ColaPop DEF SacarDeNew, TipoColas
  <2>4. TipoCarrera'
    BY <1>5, <2>1 DEF SacarDeNew, TipoCarrera
  <2> QED
    BY <1>5, <2>2, <2>3, <2>4 DEF SacarDeNew
<1>6. CASE SacarDeSuspendedReady
  <2>1. cola_suspended_ready # <<>> => Head(cola_suspended_ready) \in PCB
    BY <1>6, ColaPop DEF SacarDeSuspendedReady, TipoColas
  <2>2. TipoLp'
    BY <1>6, <2>1 DEF SacarDeSuspendedReady, TipoLp, LpConPCB, En
  <2>3. TipoColas'
    BY <1>6, <2>1, ColaPop DEF SacarDeSuspendedReady, TipoColas
  <2>4. TipoCarrera'
    BY <1>6, <2>1 DEF SacarDeSuspendedReady, TipoCarrera
  <2> QED
    BY <1>6, <2>2, <2>3, <2>4 DEF SacarDeSuspendedReady
<1>7. CASE PedirTablas
  <2>1. [op |-> "crear", id |-> lp.pcb.id] \in Pedidos
    BY <1>7 DEF PedirTablas, TipoLp, LpConPCB, PCB, Pedidos
  <2>2. sem' \in [Semaforos -> Nat]
    BY <1>7, SemTipo DEF PedirTablas, Semaforos
  <2>3. TipoLp'
    BY <1>7, <2>1 DEF PedirTablas, TipoLp, LpConPCB, En
  <2>4. TipoSockets'
    BY <1>7, <2>1, ColaPush DEF PedirTablas, TipoSockets
  <2> QED
    BY <1>7, <2>2, <2>3, <2>4 DEF PedirTablas
<1>8. CASE RecibirTablas
  <2>1. Head(respuestas) \in Pedidos
    BY <1>8, ColaPop DEF RecibirTablas, TipoSockets
  <2>2. lp'.pcb \in PCB
    BY <1>8, <2>1 DEF RecibirTablas, TipoLp, LpConPCB, PCB, Pedidos, En
  <2>3. sem' \in [Semaforos -> Nat]
    BY <1>8, SemTipo DEF RecibirTablas, Semaforos
  <2>4. TipoLp'
    BY <1>8, <2>1, <2>2 DEF RecibirTablas, TipoLp, LpConPCB, En
  <2>5. TipoSockets'
    BY <1>8, <2>1, <2>2, ColaPop DEF RecibirTablas, TipoSockets
  <2> QED
    BY <1>8, <2>3, <2>4, <2>5 DEF RecibirTablas
<1>9. CASE EncolarReady
  <2>1. lp.pcb \in PCB
    BY <1>9 DEF EncolarReady, TipoLp, LpConPCB
  <2>2. TipoLp'
    BY <1>9, <2>1 DEF EncolarReady, TipoLp, LpConPCB, En
  <2>3. TipoColas'
    BY <1>9, <2>1, ColaPush DEF EncolarReady, TipoColas
  <2> QED
    BY <1>9, <2>2, <2>3 DEF EncolarReady
<1>10. CASE AvisarReady
  <2>1. sem' \in [Semaforos -> Nat]
    BY <1>10, SemTipo DEF AvisarReady, Semaforos
  <2>2. TipoLp'
    BY <1>10 DEF AvisarReady, TipoLp, LpConPCB, En
  <2> QED
    BY <1>10, <2>1, <2>2 DEF AvisarReady
<1>11. CASE RecibirSyscall
  <2>1. Head(syscalls) \in Syscalls
    BY <1>11, ColaPop DEF RecibirSyscall, TipoCpu
  <2>2. Head(syscalls).pcb \in PCB
    BY <1>11, <2>1 DEF RecibirSyscall, Syscalls
  <2>3. TipoSc'
    BY <1>11, <2>1, <2>2 DEF RecibirSyscall, TipoSc, ScConPCB, En
  <2>4. TipoCpu'
    BY <1>11, <2>1, <2>2, ColaPop DEF RecibirSyscall, TipoCpu
  <2> QED
    BY <1>11, <2>3, <2>4 DEF RecibirSyscall
<1>12. CASE BuscarUltimo
  <2>1. TipoSc'
    BY <1>12 DEF BuscarUltimo, TipoSc, ScConPCB, En
  <2>2. TipoCarrera'
    BY <1>12 DEF BuscarUltimo, TipoCarrera
  <2> QED
    BY <1>12, <2>1, <2>2 DEF BuscarUltimo
<1>13. CASE EnlazarBloqueado
  <2>1. sc.pcb \in PCB
    BY <1>13 DEF EnlazarBloqueado, TipoSc, ScConPCB
  <2>2. Append(cola_blocked, sc.pcb) \in Seq(PCB)
    BY <1>13, <2>1, ColaPush DEF EnlazarBloqueado, TipoColas
  <2>3. TipoSc'
    BY <1>13, <2>1, <2>2 DEF EnlazarBloqueado, TipoSc, ScConPCB, En
  <2>4. TipoColas'
    BY <1>13, <2>1, <2>2 DEF EnlazarBloqueado, TipoColas
  <2>5. TipoCarrera'
    BY <1>13, <2>1, <2>2 DEF EnlazarBloqueado, TipoCarrera
  <2> QED
    BY <1>13, <2>3, <2>4, <2>5 DEF EnlazarBloqueado
<1>14. CASE CrearSuspensor
  <2>1. Bloqueo(sc.pcb) \in Bloqueos
    BY <1>14 DEF CrearSuspensor, TipoSc, ScConPCB, PCB, Bloqueo, Bloqueos
  <2>2. TipoSc'
    BY <1>14, <2>1 DEF CrearSuspensor, TipoSc, ScConPCB, En
  <2>3. TipoSuspension'
    BY <1>14, <2>1 DEF CrearSuspensor, TipoSuspension
  <2> QED
    BY <1>14, <2>2, <2>3 DEF CrearSuspensor
<1>15. CASE AvisarIO
  <2>1. sem' \in [Semaforos -> Nat]
    BY <1>15, SemTipo DEF AvisarIO, Semaforos
  <2>2. TipoSc'
    BY <1>15 DEF AvisarIO, TipoSc, ScConPCB, En
  <2> QED
    BY <1>15, <2>1, <2>2 DEF AvisarIO
<1>16. CASE LiberarGrado
  <2>1. sem' \in [Semaforos -> Nat]
    BY <1>16, SemTipo DEF LiberarGrado, Semaforos
  <2>2. TipoSc'
    BY <1>16 DEF LiberarGrado, TipoSc, ScConPCB, En
  <2> QED
    BY <1>16, <2>1, <2>2 DEF LiberarGrado
<1>17. CASE PedirFin
  <2>1. [op |-> "finalizar", id |-> sc.pcb.id] \in Pedidos
    BY <1>17 DEF PedirFin, TipoSc, ScConPCB, PCB, Pedidos
  <2>2. sem' \in [Semaforos -> Nat]
    BY <1>17, SemTipo DEF PedirFin, Semaforos
  <2>3. TipoSc'
    BY <1>17, <2>1 DEF PedirFin, TipoSc, ScConPCB, En
  <2>4. TipoSockets'
    BY <1>17, <2>1, ColaPush DEF PedirFin, TipoSockets
  <2> QED
    BY <1>17, <2>2, <2>3, <2>4 DEF PedirFin
<1>18. CASE RecibirFin
  <2>1. sem' \in [Semaforos -> Nat]
    BY <1>18, SemTipo DEF RecibirFin, Semaforos
  <2>2. TipoSc'
    BY <1>18 DEF RecibirFin, TipoSc, ScConPCB, En
  <2>3. TipoSockets'
    BY <1>18, ColaPop DEF RecibirFin, TipoSockets
  <2> QED
    BY <1>18, <2>1, <2>2, <2>3 DEF RecibirFin
<1>19. CASE ResponderConsola
  <2>1. TipoSc'
    BY <1>19 DEF ResponderConsola, TipoSc, ScConPCB, En
  <2>2. TipoSockets'
    BY <1>19 DEF ResponderConsola, TipoSockets
  <2> QED
    BY <1>19, <2>1, <2>2 DEF ResponderConsola
<1>20. CASE TomarBloqueado
  <2>1. cola_blocked # <<>> => Head(cola_blocked) \in PCB
    BY <1>20, ColaPop DEF TomarBloqueado, TipoColas
  <2>2. sem' \in [Semaforos -> Nat]
    BY <1>20, SemTipo DEF TomarBloqueado, Semaforos
  <2>3. TipoIo'
    BY <1>20, <2>1 DEF TomarBloqueado, TipoIo, IoConPCB, En
  <2>4. TipoColas'
    BY <1>20, <2>1, ColaPop DEF TomarBloqueado, TipoColas
  <2>5. TipoCarrera'
    BY <1>20, <2>1 DEF TomarBloqueado, TipoCarrera
  <2> QED
    BY <1>20, <2>2, <2>3, <2>4, <2>5 DEF TomarBloqueado
<1>21. CASE TerminarIO
  <2>1. sem' \in [Semaforos -> Nat]
    BY <1>21, SemTipo DEF TerminarIO, Semaforos
  <2>2. TipoIo'
    BY <1>21 DEF TerminarIO, TipoIo, IoConPCB, En
  <2> QED
    BY <1>21, <2>1, <2>2 DEF TerminarIO
<1>22. CASE PasarASuspendedReady
  <2>1. io.pcb \in PCB
    BY <1>22 DEF PasarASuspendedReady, TipoIo, IoConPCB
  <2>2. TipoIo'
    BY <1>22, <2>1 DEF PasarASuspendedReady, TipoIo, IoConPCB, En
  <2>3. TipoColas'
    BY <1>22, <2>1, ColaPush DEF PasarASuspendedReady, TipoColas
  <2> QED
    BY <1>22, <2>2, <2>3 DEF PasarASuspendedReady
<1>23. CASE LiberarGradoSuspendido
  <2>1. sem' \in [Semaforos -> Nat]
    BY <1>23, SemTipo DEF LiberarGradoSuspendido, Semaforos
  <2>2. TipoIo'
    BY <1>23 DEF LiberarGradoSuspendido, TipoIo, IoConPCB, En
  <2> QED
    BY <1>23, <2>1, <2>2 DEF LiberarGradoSuspendido
<1>24. CASE AvisarSuspendedReady
  <2>1. sem' \in [Semaforos -> Nat]
    BY <1>24, SemTipo DEF AvisarSuspendedReady, Semaforos
  <2>2. TipoIo'
    BY <1>24 DEF AvisarSuspendedReady, TipoIo, IoConPCB, En
  <2> QED
    BY <1>24, <2>1, <2>2 DEF AvisarSuspendedReady
<1>25. CASE PasarAReady
  <2>1. io.pcb \in PCB
    BY <1>25 DEF PasarAReady, TipoIo, IoConPCB
  <2>2. Bloqueo(io.pcb) \in Bloqueos
    BY <1>25, <2>1 DEF PasarAReady, PCB, Bloqueo, Bloqueos
  <2>3. TipoIo'
    BY <1>25, <2>1, <2>2 DEF PasarAReady, TipoIo, IoConPCB, En
  <2>4. TipoColas'
    BY <1>25, <2>1, <2>2, ColaPush DEF PasarAReady, TipoColas
  <2>5. TipoSuspension'
    BY <1>25, <2>1, <2>2 DEF PasarAReady, TipoSuspension
  <2> QED
    BY <1>25, <2>3, <2>4, <2>5 DEF PasarAReady
<1>26. CASE AvisarReadyIO
  <2>1. sem' \in [Semaforos -> Nat]
    BY <1>26, SemTipo DEF AvisarReadyIO, Semaforos
  <2>2. TipoIo'
    BY <1>26 DEF AvisarReadyIO, TipoIo, IoConPCB, En
  <2> QED
    BY <1>26, <2>1, <2>2 DEF AvisarReadyIO
<1>27. CASE SoltarSuspendiendo
  <2>1. sem' \in [Semaforos -> Nat]
    BY <1>27, SemTipo DEF SoltarSuspendiendo, Semaforos
  <2>2. TipoIo'
    BY <1>27 DEF SoltarSuspendiendo, TipoIo, IoConPCB, En
  <2> QED
    BY <1>27, <2>1, <2>2 DEF SoltarSuspendiendo
<1>28. ASSUME NEW b \in Bloqueos, Despertar(b)
      PROVE  KernelTypeOK'
  <2>1. TipoSuspension'
    BY <1>28 DEF Despertar, TipoSuspension
  <2> QED
    BY <1>28, <2>1 DEF Despertar
<1>29. ASSUME NEW b \in Bloqueos, Cancelar(b)
      PROVE  KernelTypeOK'
  <2>1. TipoSuspension'
    BY <1>29 DEF Cancelar, TipoSuspension
  <2> QED
    BY <1>29, <2>1 DEF Cancelar
<1>30. ASSUME NEW b \in Bloqueos, TomarSuspendiendo(b)
      PROVE  KernelTypeOK'
  <2>1. sem' \in [Semaforos -> Nat]
    BY <1>30, SemTipo DEF TomarSuspendiendo, Semaforos
  <2>2. TipoSuspension'
    BY <1>30 DEF TomarSuspendiendo, TipoSuspension
  <2> QED
    BY <1>30, <2>1, <2>2 DEF TomarSuspendiendo
<1>31. ASSUME NEW b \in Bloqueos, PedirSuspension(b)
      PROVE  KernelTypeOK'
  <2>1. [op |-> "suspender", id |-> b[1]] \in Pedidos
    BY <1>31 DEF PedirSuspension, Bloqueos, Pedidos
  <2>2. sem' \in [Semaforos -> Nat]
    BY <1>31, SemTipo DEF PedirSuspension, Semaforos
  <2>3. TipoSuspension'
    BY <1>31, <2>1 DEF PedirSuspension, TipoSuspension
  <2>4. TipoSockets'
    BY <1>31, <2>1, ColaPush DEF PedirSuspension, TipoSockets
  <2> QED
    BY <1>31, <2>2, <2>3, <2>4 DEF PedirSuspension
<1>32. ASSUME NEW b \in Bloqueos, RecibirSuspension(b)
      PROVE  KernelTypeOK'
  <2>1. sem' \in [Semaforos -> Nat]
    BY <1>32 DEF RecibirSuspension, Semaforos
  <2>2. TipoSuspension'
    BY <1>32 DEF RecibirSuspension, TipoSuspension
  <2>3. TipoSockets'
    BY <1>32, ColaPop DEF RecibirSuspension, TipoSockets
  <2> QED
    BY <1>32, <2>1, <2>2, <2>3 DEF RecibirSuspension
<1>33. CASE AtenderPedido
  <2>1. Head(pedidos) \in Pedidos
    BY <1>33, ColaPop DEF AtenderPedido, TipoSockets
  <2>2. TipoSockets'
    BY <1>33, <2>1, ColaPush, ColaPop DEF AtenderPedido, TipoSockets, Pedidos
  <2> QED
    BY <1>33, <2>2 DEF AtenderPedido
<1> QED
  BY <1>1, <1>2, <1>3, <1>4, <1>5, <1>6, <1>7, <1>8, <1>9, <1>10, <1>11, <1>12, <1>13,
     <1>14, <1>15, <1>16, <1>17, <1>18, <1>19, <1>20, <1>21, <1>22, <1>23, <1>24,
     <1>25, <1>26, <1>27, <1>28, <1>29, <1>30, <1>31, <1>32, <1>33 DEF DelKernel,
     HiloRecibirProcesos, HiloPasarAReady, HiloSyscall, HiloIO, Suspensor

-----------------------------------------------------------------------------
\* Accounting

\* What a step of the kernel preserves: the accounts it keeps whatever the
\* scheduler does, and what it leaves for the scheduler and the CPU to count by.
CuentasDelKernel ==
  /\ CuentaNew /\ HayParaSacar /\ CuentaBlocked /\ UnaSolaRotura
  /\ caido => cola_rota

AvisosDeReady == sem["procesos_en_ready"] + ReadyDeLp + ReadyDeIo - Len(cola_ready)
VueltasDeCpu == sem["fin_de_ejecucion"] + Len(dispatch) + Len(syscalls) + ScAtiende

\* The terms each account adds up.
NatNew ==
  /\ sem["procesos_para_ready"] \in Nat
  /\ NewDeLp \in Nat /\ NewDeRp \in Nat /\ NewDeIo \in Nat
  /\ Len(cola_new) \in Nat /\ Len(cola_suspended_ready) \in Nat

NatReady ==
  /\ sem["procesos_en_ready"] \in Nat
  /\ ReadyDeLp \in Nat /\ ReadyDeIo \in Nat /\ Len(cola_ready) \in Nat

NatBlocked ==
  sem["proceso_en_io"] \in Nat /\ BlockedDeSc \in Nat /\ Len(cola_blocked) \in Nat

NatCPU ==
  /\ sem["fin_de_ejecucion"] \in Nat /\ ScAtiende \in Nat
  /\ Len(dispatch) \in Nat /\ Len(syscalls) \in Nat

NatGrado ==
  /\ sem["grado_multiprogramacion"] \in Nat
  /\ LugarLp \in Nat /\ LugarSc \in Nat /\ LugarIo \in Nat /\ Perdido \in Nat
  /\ Len(cola_ready) \in Nat /\ Len(cola_blocked) \in Nat
  /\ Len(dispatch) \in Nat /\ Len(syscalls) \in Nat

LEMMA Naturales == KernelTypeOK => NatNew /\ NatReady /\ NatBlocked /\ NatCPU /\ NatGrado
<1>1. /\ NewDeLp \in Nat /\ NewDeRp \in Nat /\ NewDeIo \in Nat
      /\ ReadyDeLp \in Nat /\ ReadyDeIo \in Nat /\ BlockedDeSc \in Nat /\ ScAtiende \in Nat
      /\ LugarLp \in Nat /\ LugarSc \in Nat /\ LugarIo \in Nat /\ Perdido \in Nat
  BY DEF NewDeLp, NewDeRp, NewDeIo, ReadyDeLp, ReadyDeIo, BlockedDeSc, ScAtiende,
         LugarLp, LugarSc, LugarIo, Perdido, Uno
<1>2. ASSUME KernelTypeOK
      PROVE  /\ Len(cola_new) \in Nat /\ Len(cola_ready) \in Nat
             /\ Len(cola_blocked) \in Nat /\ Len(cola_suspended_ready) \in Nat
             /\ Len(dispatch) \in Nat /\ Len(syscalls) \in Nat
             /\ \A s \in Semaforos : sem[s] \in Nat
  BY <1>2, ColaLen DEF KernelTypeOK, TipoColas, TipoCpu
<1> QED
  BY <1>1, <1>2 DEF NatNew, NatReady, NatBlocked, NatCPU, NatGrado, Semaforos

LEMMA Vacias ==
  KernelTypeOK =>
    /\ Len(cola_new) = 0 <=> cola_new = <<>>
    /\ Len(cola_ready) = 0 <=> cola_ready = <<>>
    /\ Len(cola_blocked) = 0 <=> cola_blocked = <<>>
    /\ Len(cola_suspended_ready) = 0 <=> cola_suspended_ready = <<>>
    /\ Len(dispatch) = 0 <=> dispatch = <<>>
    /\ Len(syscalls) = 0 <=> syscalls = <<>>
  BY ColaLen DEF KernelTypeOK, TipoColas, TipoCpu

\* What a thread counts for changes only when the thread moves.
LEMMA CuentasEstables ==
  /\ UNCHANGED lp => NewDeLp' = NewDeLp /\ ReadyDeLp' = ReadyDeLp /\ LugarLp' = LugarLp
  /\ UNCHANGED rp => NewDeRp' = NewDeRp
  /\ UNCHANGED sc => /\ ScAtiende' = ScAtiende /\ LugarSc' = LugarSc
                     /\ BlockedDeSc' = BlockedDeSc
  /\ UNCHANGED io => NewDeIo' = NewDeIo /\ ReadyDeIo' = ReadyDeIo /\ LugarIo' = LugarIo
  /\ UNCHANGED cola_rota => Perdido' = Perdido
  BY DEF NewDeLp, NewDeRp, NewDeIo, ReadyDeLp, ReadyDeIo, BlockedDeSc, ScAtiende,
         LugarLp, LugarSc, LugarIo, Perdido

\* What each step has in its hands when it pushes.
LEMMA Cargas ==
  ASSUME KernelTypeOK
  PROVE  /\ \A p \in Procesos : [id |-> p, pc |-> 0, tabla |-> NULO] \in PCB
         /\ lp.en = "encolar" => lp.pcb \in PCB
         /\ sc.en \in ScConPCB => sc.pcb \in PCB
         /\ io.en \in {"suspended_ready", "ready"} => io.pcb \in PCB
<1> USE KernelAssumption, NuloAssumption DEF KernelAssumption, NuloAssumption
<1> USE DEF KernelTypeOK
<1>1. \A p \in Procesos : [id |-> p, pc |-> 0, tabla |-> NULO] \in PCB
  BY DEF PCB
<1>2. lp.en = "encolar" => lp.pcb \in PCB
  BY DEF TipoLp, LpConPCB
<1>3. sc.en \in ScConPCB => sc.pcb \in PCB
  BY DEF TipoSc
<1>4. io.en \in {"suspended_ready", "ready"} => io.pcb \in PCB
  BY DEF TipoIo, IoConPCB
<1> QED
  BY <1>1, <1>2, <1>3, <1>4

\* Every step of a thread of the kernel keeps the accounts.
LEMMA PasoCuentasDelKernel ==
  ASSUME KernelTypeOK, CuentasDelKernel, ~caido, DelKernel
  PROVE  CuentasDelKernel' /\ UNCHANGED <<AvisosDeReady, VueltasDeCpu, PlazasDelKernel>>
<1> DEFINE Meta == /\ CuentasDelKernel'
                   /\ UNCHANGED <<AvisosDeReady, VueltasDeCpu, PlazasDelKernel>>
<1> SUFFICES Meta
  OBVIOUS
<1>new. CuentaNew /\ NatNew
  BY Naturales DEF CuentasDelKernel
<1>ready. NatReady
  BY Naturales
<1>blocked. CuentaBlocked /\ NatBlocked
  BY Naturales DEF CuentasDelKernel
<1>cpu. NatCPU
  BY Naturales
<1>grado. NatGrado
  BY Naturales
<1>resto. HayParaSacar /\ UnaSolaRotura /\ (caido => cola_rota)
  BY DEF CuentasDelKernel
<1>1. ASSUME NEW p \in Procesos, RecibirProceso(p)
      PROVE  Meta
  <2>1. /\ NewDeRp = 0 /\ NewDeRp' = 1
    BY <1>1 DEF RecibirProceso, NewDeRp, Uno, En
  <2>2. Len(cola_new') = Len(cola_new) + 1
    BY <1>1, ColaPush, Cargas DEF RecibirProceso, KernelTypeOK, TipoColas
  <2>3. UNCHANGED <<cola_suspended_ready, cola_ready, cola_blocked, dispatch, syscalls, lp,
                    sc, io, sem, cola_rota, caido>>
    BY <1>1 DEF RecibirProceso, kernel_vars, sockets, cpu_vars, colas, suspension, carrera
  <2>4. UNCHANGED <<NewDeLp, ReadyDeLp, LugarLp, NewDeIo, ReadyDeIo, LugarIo, ScAtiende,
                    LugarSc, BlockedDeSc, Perdido>>
    BY <2>3, CuentasEstables
  <2>5. CuentaNew'
    BY <2>1, <2>2, <2>3, <2>4, <1>new, SMTT(30) DEF CuentaNew, NatNew
  <2>6. HayParaSacar'
    BY <1>1, <2>1, <2>2, <2>3, <2>4, <1>new, <1>resto DEF RecibirProceso, HayParaSacar,
       NatNew, En
  <2>7. /\ (CuentaBlocked /\ UnaSolaRotura /\ (caido => cola_rota))'
        /\ UNCHANGED <<AvisosDeReady, VueltasDeCpu, PlazasDelKernel>>
    BY <2>1, <2>2, <2>3, <2>4 DEF CuentasDelKernel, AvisosDeReady, CuentaBlocked,
       UnaSolaRotura, VueltasDeCpu, PlazasDelKernel
  <2> QED
    BY <2>5, <2>6, <2>7 DEF CuentasDelKernel
<1>2. CASE AvisarNew
  <2>1. /\ NewDeRp = 1 /\ NewDeRp' = 0
    BY <1>2 DEF AvisarNew, NewDeRp, Uno, En
  <2>2. /\ sem'["procesos_para_ready"] = sem["procesos_para_ready"] + 1
        /\ UNCHANGED <<sem["grado_multiprogramacion"], sem["procesos_en_ready"],
                       sem["proceso_en_io"], sem["fin_de_ejecucion"]>>
    BY <1>2 DEF AvisarNew, sem_wait, sem_post, Semaforos, KernelTypeOK
  <2>3. UNCHANGED <<cola_new, cola_suspended_ready, cola_ready, cola_blocked, dispatch,
                    syscalls, lp, sc, io, cola_rota, caido>>
    BY <1>2 DEF AvisarNew, kernel_vars, sockets, cpu_vars, colas, suspension, carrera
  <2>4. UNCHANGED <<NewDeLp, ReadyDeLp, LugarLp, NewDeIo, ReadyDeIo, LugarIo, ScAtiende,
                    LugarSc, BlockedDeSc, Perdido>>
    BY <2>3, CuentasEstables
  <2>5. CuentaNew'
    BY <2>1, <2>2, <2>3, <2>4, <1>new DEF CuentaNew, NatNew
  <2>6. /\ (HayParaSacar /\ CuentaBlocked /\ UnaSolaRotura /\ (caido => cola_rota))'
        /\ UNCHANGED <<AvisosDeReady, VueltasDeCpu, PlazasDelKernel>>
    BY <2>1, <2>2, <2>3, <2>4 DEF CuentasDelKernel, HayParaSacar, AvisosDeReady,
       CuentaBlocked, UnaSolaRotura, VueltasDeCpu, PlazasDelKernel
  <2> QED
    BY <2>5, <2>6 DEF CuentasDelKernel
<1>3. CASE EsperarProceso
  <2>1. /\ NewDeLp = 0 /\ NewDeLp' = 1
    BY <1>3 DEF EsperarProceso, NewDeLp, Uno, En
  <2>2. UNCHANGED <<ReadyDeLp, LugarLp>>
    BY <1>3 DEF EsperarProceso, ReadyDeLp, LugarLp, En
  <2>3. /\ sem["procesos_para_ready"] > 0
        /\ sem'["procesos_para_ready"] = sem["procesos_para_ready"] - 1
        /\ UNCHANGED <<sem["grado_multiprogramacion"], sem["procesos_en_ready"],
                       sem["proceso_en_io"], sem["fin_de_ejecucion"]>>
    BY <1>3 DEF EsperarProceso, sem_wait, sem_post, Semaforos, KernelTypeOK
  <2>4. UNCHANGED <<cola_new, cola_suspended_ready, cola_ready, cola_blocked, dispatch,
                    syscalls, rp, sc, io, cola_rota, caido>>
    BY <1>3 DEF EsperarProceso, kernel_vars, sockets, cpu_vars, colas, suspension, carrera
  <2>5. UNCHANGED <<NewDeRp, NewDeIo, ReadyDeIo, LugarIo, ScAtiende, LugarSc, BlockedDeSc,
                    Perdido>>
    BY <2>4, CuentasEstables
  <2>6. CuentaNew'
    BY <2>1, <2>2, <2>3, <2>4, <2>5, <1>new DEF CuentaNew, NatNew
  <2>7. HayParaSacar'
    BY <1>3, <2>1, <2>2, <2>3, <2>4, <2>5, <1>new, <1>resto DEF EsperarProceso,
       HayParaSacar, NatNew, En
  <2>8. /\ (CuentaBlocked /\ UnaSolaRotura /\ (caido => cola_rota))'
        /\ UNCHANGED <<AvisosDeReady, VueltasDeCpu, PlazasDelKernel>>
    BY <2>1, <2>2, <2>3, <2>4, <2>5 DEF CuentasDelKernel, AvisosDeReady, CuentaBlocked,
       UnaSolaRotura, VueltasDeCpu, PlazasDelKernel
  <2> QED
    BY <2>6, <2>7, <2>8 DEF CuentasDelKernel
<1>4. CASE TomarGrado
  <2>1. /\ LugarLp = 0 /\ LugarLp' = 1
    BY <1>4 DEF TomarGrado, LugarLp, Uno, En
  <2>2. UNCHANGED <<NewDeLp, ReadyDeLp>>
    BY <1>4 DEF TomarGrado, NewDeLp, ReadyDeLp, En
  <2>3. /\ sem["grado_multiprogramacion"] > 0
        /\ sem'["grado_multiprogramacion"] = sem["grado_multiprogramacion"] - 1
        /\ UNCHANGED <<sem["procesos_para_ready"], sem["procesos_en_ready"],
                       sem["proceso_en_io"], sem["fin_de_ejecucion"]>>
    BY <1>4 DEF TomarGrado, sem_wait, sem_post, Semaforos, KernelTypeOK
  <2>4. UNCHANGED <<cola_new, cola_suspended_ready, cola_ready, cola_blocked, dispatch,
                    syscalls, rp, sc, io, cola_rota, caido>>
    BY <1>4 DEF TomarGrado, kernel_vars, sockets, cpu_vars, colas, suspension, carrera
  <2>5. UNCHANGED <<NewDeRp, NewDeIo, ReadyDeIo, LugarIo, ScAtiende, LugarSc, BlockedDeSc,
                    Perdido>>
    BY <2>4, CuentasEstables
  <2>6. Len(cola_new) + Len(cola_suspended_ready) > 0 /\ NewDeLp = 1
    BY <1>4, <1>new DEF TomarGrado, NewDeLp, Uno, CuentaNew, NatNew
  <2>7. HayParaSacar'
    BY <1>4, <2>4, <1>new, <2>6, Vacias DEF TomarGrado, HayParaSacar, NatNew, En
  <2>8. UNCHANGED PlazasDelKernel
    BY <2>1, <2>2, <2>3, <2>4, <2>5, <1>grado DEF PlazasDelKernel, NatGrado
  <2>9. /\ (CuentaNew /\ CuentaBlocked /\ UnaSolaRotura /\ (caido => cola_rota))'
        /\ UNCHANGED <<AvisosDeReady, VueltasDeCpu>>
    BY <2>1, <2>2, <2>3, <2>4, <2>5 DEF CuentasDelKernel, CuentaNew, AvisosDeReady,
       CuentaBlocked, UnaSolaRotura, VueltasDeCpu
  <2> QED
    BY <2>7, <2>8, <2>9 DEF CuentasDelKernel
<1>5. CASE SacarDeNew
  <2>1. cola_new # <<>>
    BY <1>5, <1>new, <1>resto, Vacias DEF SacarDeNew, HayParaSacar, NatNew
  <2>2. /\ NewDeLp = 1 /\ NewDeLp' = 0
    BY <1>5, <2>1 DEF SacarDeNew, NewDeLp, Uno, En
  <2>3. UNCHANGED <<ReadyDeLp, LugarLp>>
    BY <1>5, <2>1 DEF SacarDeNew, ReadyDeLp, LugarLp, En
  <2>4. Len(cola_new') = Len(cola_new) - 1
    BY <1>5, <2>1, ColaPop DEF SacarDeNew, KernelTypeOK, TipoColas
  <2>5. UNCHANGED <<cola_suspended_ready, cola_ready, cola_blocked, dispatch, syscalls, rp,
                    sc, io, sem, cola_rota, caido>>
    BY <1>5, <2>1 DEF SacarDeNew, kernel_vars, sockets, cpu_vars, colas, suspension, carrera
  <2>6. UNCHANGED <<NewDeRp, NewDeIo, ReadyDeIo, LugarIo, ScAtiende, LugarSc, BlockedDeSc,
                    Perdido>>
    BY <2>5, CuentasEstables
  <2>7. CuentaNew'
    BY <2>2, <2>3, <2>4, <2>5, <2>6, <1>new, SMTT(30) DEF CuentaNew, NatNew
  <2>8. HayParaSacar'
    BY <1>5, <2>2, <2>3, <2>4, <2>5, <2>6, <1>new, <1>resto DEF SacarDeNew, HayParaSacar,
       NatNew, En
  <2>9. /\ (CuentaBlocked /\ UnaSolaRotura /\ (caido => cola_rota))'
        /\ UNCHANGED <<AvisosDeReady, VueltasDeCpu, PlazasDelKernel>>
    BY <2>2, <2>3, <2>4, <2>5, <2>6 DEF CuentasDelKernel, AvisosDeReady, CuentaBlocked,
       UnaSolaRotura, VueltasDeCpu, PlazasDelKernel
  <2> QED
    BY <2>7, <2>8, <2>9 DEF CuentasDelKernel
<1>6. CASE SacarDeSuspendedReady
  <2>1. cola_suspended_ready # <<>>
    BY <1>6, <1>new, <1>resto, Vacias DEF SacarDeSuspendedReady, HayParaSacar, NatNew
  <2>2. /\ NewDeLp = 1 /\ NewDeLp' = 0
    BY <1>6, <2>1 DEF SacarDeSuspendedReady, NewDeLp, Uno, En
  <2>3. UNCHANGED <<ReadyDeLp, LugarLp>>
    BY <1>6, <2>1 DEF SacarDeSuspendedReady, ReadyDeLp, LugarLp, En
  <2>4. Len(cola_suspended_ready') = Len(cola_suspended_ready) - 1
    BY <1>6, <2>1, ColaPop DEF SacarDeSuspendedReady, KernelTypeOK, TipoColas
  <2>5. UNCHANGED <<cola_new, cola_ready, cola_blocked, dispatch, syscalls, rp, sc, io, sem,
                    cola_rota, caido>>
    BY <1>6, <2>1 DEF SacarDeSuspendedReady, kernel_vars, sockets, cpu_vars, colas,
       suspension, carrera
  <2>6. UNCHANGED <<NewDeRp, NewDeIo, ReadyDeIo, LugarIo, ScAtiende, LugarSc, BlockedDeSc,
                    Perdido>>
    BY <2>5, CuentasEstables
  <2>7. CuentaNew'
    BY <2>2, <2>3, <2>4, <2>5, <2>6, <1>new, SMTT(30) DEF CuentaNew, NatNew
  <2>8. HayParaSacar'
    BY <1>6, <2>2, <2>3, <2>4, <2>5, <2>6, <1>new, <1>resto DEF SacarDeSuspendedReady,
       HayParaSacar, NatNew, En
  <2>9. /\ (CuentaBlocked /\ UnaSolaRotura /\ (caido => cola_rota))'
        /\ UNCHANGED <<AvisosDeReady, VueltasDeCpu, PlazasDelKernel>>
    BY <2>2, <2>3, <2>4, <2>5, <2>6 DEF CuentasDelKernel, AvisosDeReady, CuentaBlocked,
       UnaSolaRotura, VueltasDeCpu, PlazasDelKernel
  <2> QED
    BY <2>7, <2>8, <2>9 DEF CuentasDelKernel
<1>7. CASE PedirTablas
  <2>1. UNCHANGED <<NewDeLp, ReadyDeLp, LugarLp>>
    BY <1>7 DEF PedirTablas, NewDeLp, ReadyDeLp, LugarLp, En
  <2>2. /\ UNCHANGED <<sem["procesos_para_ready"], sem["grado_multiprogramacion"],
                       sem["procesos_en_ready"], sem["proceso_en_io"],
                       sem["fin_de_ejecucion"]>>
    BY <1>7 DEF PedirTablas, sem_wait, sem_post, Semaforos, KernelTypeOK
  <2>3. UNCHANGED <<cola_new, cola_suspended_ready, cola_ready, cola_blocked, dispatch,
                    syscalls, rp, sc, io, cola_rota, caido>>
    BY <1>7 DEF PedirTablas, kernel_vars, sockets, cpu_vars, colas, suspension, carrera
  <2>4. UNCHANGED <<NewDeRp, NewDeIo, ReadyDeIo, LugarIo, ScAtiende, LugarSc, BlockedDeSc,
                    Perdido>>
    BY <2>3, CuentasEstables
  <2>5. HayParaSacar'
    BY <1>7, <2>1, <2>2, <2>3, <2>4, <1>new, <1>resto DEF PedirTablas, HayParaSacar, NatNew,
       En
  <2>6. /\ (CuentaNew /\ CuentaBlocked /\ UnaSolaRotura /\ (caido => cola_rota))'
        /\ UNCHANGED <<AvisosDeReady, VueltasDeCpu, PlazasDelKernel>>
    BY <2>1, <2>2, <2>3, <2>4 DEF CuentasDelKernel, CuentaNew, AvisosDeReady, CuentaBlocked,
       UnaSolaRotura, VueltasDeCpu, PlazasDelKernel
  <2> QED
    BY <2>5, <2>6 DEF CuentasDelKernel
<1>8. CASE RecibirTablas
  <2>1. UNCHANGED <<NewDeLp, ReadyDeLp, LugarLp>>
    BY <1>8 DEF RecibirTablas, NewDeLp, ReadyDeLp, LugarLp, En
  <2>2. /\ UNCHANGED <<sem["procesos_para_ready"], sem["grado_multiprogramacion"],
                       sem["procesos_en_ready"], sem["proceso_en_io"],
                       sem["fin_de_ejecucion"]>>
    BY <1>8 DEF RecibirTablas, sem_wait, sem_post, Semaforos, KernelTypeOK
  <2>3. UNCHANGED <<cola_new, cola_suspended_ready, cola_ready, cola_blocked, dispatch,
                    syscalls, rp, sc, io, cola_rota, caido>>
    BY <1>8 DEF RecibirTablas, kernel_vars, sockets, cpu_vars, colas, suspension, carrera
  <2>4. UNCHANGED <<NewDeRp, NewDeIo, ReadyDeIo, LugarIo, ScAtiende, LugarSc, BlockedDeSc,
                    Perdido>>
    BY <2>3, CuentasEstables
  <2>5. HayParaSacar'
    BY <1>8, <2>1, <2>2, <2>3, <2>4, <1>new, <1>resto DEF RecibirTablas, HayParaSacar,
       NatNew, En
  <2>6. /\ (CuentaNew /\ CuentaBlocked /\ UnaSolaRotura /\ (caido => cola_rota))'
        /\ UNCHANGED <<AvisosDeReady, VueltasDeCpu, PlazasDelKernel>>
    BY <2>1, <2>2, <2>3, <2>4 DEF CuentasDelKernel, CuentaNew, AvisosDeReady, CuentaBlocked,
       UnaSolaRotura, VueltasDeCpu, PlazasDelKernel
  <2> QED
    BY <2>5, <2>6 DEF CuentasDelKernel
<1>9. CASE EncolarReady
  <2>1. /\ ReadyDeLp = 0 /\ ReadyDeLp' = 1
        /\ LugarLp = 1 /\ LugarLp' = 0
    BY <1>9 DEF EncolarReady, ReadyDeLp, LugarLp, Uno, En
  <2>2. UNCHANGED <<NewDeLp>>
    BY <1>9 DEF EncolarReady, NewDeLp, En
  <2>3. Len(cola_ready') = Len(cola_ready) + 1
    BY <1>9, ColaPush, Cargas DEF EncolarReady, KernelTypeOK, TipoColas
  <2>4. UNCHANGED <<cola_new, cola_suspended_ready, cola_blocked, dispatch, syscalls, rp,
                    sc, io, sem, cola_rota, caido>>
    BY <1>9 DEF EncolarReady, kernel_vars, sockets, cpu_vars, colas, suspension, carrera
  <2>5. UNCHANGED <<NewDeRp, NewDeIo, ReadyDeIo, LugarIo, ScAtiende, LugarSc, BlockedDeSc,
                    Perdido>>
    BY <2>4, CuentasEstables
  <2>6. HayParaSacar'
    BY <1>9, <2>1, <2>2, <2>3, <2>4, <2>5, <1>new, <1>resto DEF EncolarReady, HayParaSacar,
       NatNew, En
  <2>7. UNCHANGED AvisosDeReady
    BY <2>1, <2>2, <2>3, <2>4, <2>5, <1>ready DEF AvisosDeReady, NatReady
  <2>8. UNCHANGED PlazasDelKernel
    BY <2>1, <2>2, <2>3, <2>4, <2>5, <1>grado DEF PlazasDelKernel, NatGrado
  <2>9. /\ (CuentaNew /\ CuentaBlocked /\ UnaSolaRotura /\ (caido => cola_rota))'
        /\ UNCHANGED VueltasDeCpu
    BY <2>1, <2>2, <2>3, <2>4, <2>5 DEF CuentasDelKernel, CuentaNew, CuentaBlocked,
       UnaSolaRotura, VueltasDeCpu
  <2> QED
    BY <2>6, <2>7, <2>8, <2>9 DEF CuentasDelKernel
<1>10. CASE AvisarReady
  <2>1. /\ ReadyDeLp = 1 /\ ReadyDeLp' = 0
    BY <1>10 DEF AvisarReady, ReadyDeLp, Uno, En
  <2>2. UNCHANGED <<NewDeLp, LugarLp>>
    BY <1>10 DEF AvisarReady, NewDeLp, LugarLp, En
  <2>3. /\ sem'["procesos_en_ready"] = sem["procesos_en_ready"] + 1
        /\ UNCHANGED <<sem["procesos_para_ready"], sem["grado_multiprogramacion"],
                       sem["proceso_en_io"], sem["fin_de_ejecucion"]>>
    BY <1>10 DEF AvisarReady, sem_wait, sem_post, Semaforos, KernelTypeOK
  <2>4. UNCHANGED <<cola_new, cola_suspended_ready, cola_ready, cola_blocked, dispatch,
                    syscalls, rp, sc, io, cola_rota, caido>>
    BY <1>10 DEF AvisarReady, kernel_vars, sockets, cpu_vars, colas, suspension, carrera
  <2>5. UNCHANGED <<NewDeRp, NewDeIo, ReadyDeIo, LugarIo, ScAtiende, LugarSc, BlockedDeSc,
                    Perdido>>
    BY <2>4, CuentasEstables
  <2>6. HayParaSacar'
    BY <1>10, <2>1, <2>2, <2>3, <2>4, <2>5, <1>new, <1>resto DEF AvisarReady, HayParaSacar,
       NatNew, En
  <2>7. UNCHANGED AvisosDeReady
    BY <2>1, <2>2, <2>3, <2>4, <2>5, <1>ready DEF AvisosDeReady, NatReady
  <2>8. /\ (CuentaNew /\ CuentaBlocked /\ UnaSolaRotura /\ (caido => cola_rota))'
        /\ UNCHANGED <<VueltasDeCpu, PlazasDelKernel>>
    BY <2>1, <2>2, <2>3, <2>4, <2>5 DEF CuentasDelKernel, CuentaNew, CuentaBlocked,
       UnaSolaRotura, VueltasDeCpu, PlazasDelKernel
  <2> QED
    BY <2>6, <2>7, <2>8 DEF CuentasDelKernel
<1>11. CASE RecibirSyscall
  <2>1. /\ ScAtiende = 0 /\ ScAtiende' = 1
        /\ LugarSc = 0 /\ LugarSc' = 1
    BY <1>11 DEF RecibirSyscall, ScAtiende, LugarSc, Uno, En
  <2>2. UNCHANGED <<BlockedDeSc>>
    BY <1>11 DEF RecibirSyscall, BlockedDeSc, En
  <2>3. Len(syscalls') = Len(syscalls) - 1
    BY <1>11, ColaPop DEF RecibirSyscall, KernelTypeOK, TipoCpu
  <2>4. UNCHANGED <<cola_new, cola_suspended_ready, cola_ready, cola_blocked, dispatch, rp,
                    lp, io, sem, cola_rota, caido>>
    BY <1>11 DEF RecibirSyscall, kernel_vars, sockets, cpu_vars, colas, suspension, carrera
  <2>5. UNCHANGED <<NewDeLp, ReadyDeLp, LugarLp, NewDeRp, NewDeIo, ReadyDeIo, LugarIo,
                    Perdido>>
    BY <2>4, CuentasEstables
  <2>6. UnaSolaRotura'
    BY <1>11, <2>1, <2>2, <2>3, <2>4, <2>5, <1>resto DEF RecibirSyscall, UnaSolaRotura, En
  <2>7. UNCHANGED VueltasDeCpu
    BY <2>1, <2>2, <2>3, <2>4, <2>5, <1>cpu DEF VueltasDeCpu, NatCPU
  <2>8. UNCHANGED PlazasDelKernel
    BY <2>1, <2>2, <2>3, <2>4, <2>5, <1>grado DEF PlazasDelKernel, NatGrado
  <2>9. /\ (CuentaNew /\ HayParaSacar /\ CuentaBlocked /\ (caido => cola_rota))'
        /\ UNCHANGED AvisosDeReady
    BY <2>1, <2>2, <2>3, <2>4, <2>5 DEF CuentasDelKernel, CuentaNew, HayParaSacar,
       AvisosDeReady, CuentaBlocked
  <2> QED
    BY <2>6, <2>7, <2>8, <2>9 DEF CuentasDelKernel
<1>12. CASE BuscarUltimo
  <2>1. UNCHANGED <<ScAtiende, LugarSc, BlockedDeSc>>
    BY <1>12 DEF BuscarUltimo, ScAtiende, LugarSc, BlockedDeSc, En
  <2>2. UNCHANGED <<cola_new, cola_suspended_ready, cola_ready, cola_blocked, dispatch,
                    syscalls, rp, lp, io, sem, cola_rota>>
    BY <1>12 DEF BuscarUltimo, kernel_vars, sockets, cpu_vars, colas, suspension, carrera
  <2>3. UNCHANGED <<NewDeLp, ReadyDeLp, LugarLp, NewDeRp, NewDeIo, ReadyDeIo, LugarIo,
                    Perdido>>
    BY <2>2, CuentasEstables
  <2>4. UnaSolaRotura'
    BY <1>12, <2>1, <2>2, <2>3, <1>resto DEF BuscarUltimo, UnaSolaRotura, En
  <2>5. (caido => cola_rota)'
    BY <1>12, <2>1, <2>2, <2>3, <1>resto DEF BuscarUltimo
  <2>6. /\ (CuentaNew /\ HayParaSacar /\ CuentaBlocked)'
        /\ UNCHANGED <<AvisosDeReady, VueltasDeCpu, PlazasDelKernel>>
    BY <2>1, <2>2, <2>3 DEF CuentasDelKernel, CuentaNew, HayParaSacar, AvisosDeReady,
       CuentaBlocked, VueltasDeCpu, PlazasDelKernel
  <2> QED
    BY <2>4, <2>5, <2>6 DEF CuentasDelKernel
<1>13. CASE EnlazarBloqueado
  <2>1. /\ LugarSc = 1 /\ LugarSc' = 0
        /\ BlockedDeSc = 0 /\ BlockedDeSc' = 1
    BY <1>13 DEF EnlazarBloqueado, LugarSc, BlockedDeSc, Uno
  <2>2. ScAtiende' = ScAtiende
    BY <1>13 DEF EnlazarBloqueado, ScAtiende
  <2>3. UNCHANGED <<cola_new, cola_suspended_ready, cola_ready, dispatch, syscalls, rp, lp,
                    io, sem, caido>>
    BY <1>13 DEF EnlazarBloqueado, sockets, cpu_vars, suspension
  <2>4. UNCHANGED <<NewDeLp, ReadyDeLp, LugarLp, NewDeRp, NewDeIo, ReadyDeIo, LugarIo>>
    BY <2>3, CuentasEstables
  <2>5. ~cola_rota /\ Perdido = 0
    BY <1>13 DEF EnlazarBloqueado, CuentasDelKernel, UnaSolaRotura, Perdido, Uno
  <2>6. \/ Len(cola_blocked') = Len(cola_blocked) + 1 /\ ~cola_rota' /\ Perdido' = 0
        \/ cola_blocked' = cola_blocked /\ cola_rota' /\ Perdido' = 1
    <3>1. CASE cola_blocked' = Append(cola_blocked, sc.pcb) /\ cola_rota' = cola_rota
      <4>1. Len(cola_blocked') = Len(cola_blocked) + 1
        BY <1>13, <3>1, ColaPush, Cargas DEF EnlazarBloqueado, KernelTypeOK, TipoColas
      <4>2. ~cola_rota'
        BY <2>5, <3>1
      <4> QED
        BY <4>1, <4>2 DEF Perdido, Uno
    <3>2. CASE cola_rota' = TRUE /\ cola_blocked' = cola_blocked
      BY <3>2 DEF Perdido, Uno
    <3> QED
      BY <1>13, <3>1, <3>2 DEF EnlazarBloqueado
  <2>7. CuentaBlocked'
    BY <2>1, <2>3, <2>5, <2>6, <1>blocked DEF CuentaBlocked, NatBlocked
  <2>8. UNCHANGED PlazasDelKernel
    BY <2>1, <2>3, <2>4, <2>5, <2>6, <1>grado DEF PlazasDelKernel, NatGrado
  <2>9. UnaSolaRotura'
    BY <1>13 DEF EnlazarBloqueado, UnaSolaRotura
  <2>10. /\ (CuentaNew /\ HayParaSacar)'
         /\ UNCHANGED <<AvisosDeReady, VueltasDeCpu>>
    BY <2>2, <2>3, <2>4 DEF CuentasDelKernel, CuentaNew, HayParaSacar, AvisosDeReady,
       VueltasDeCpu
  <2>11. (caido => cola_rota)'
    BY <2>3
  <2> QED
    BY <2>7, <2>8, <2>9, <2>10, <2>11 DEF CuentasDelKernel
<1>14. CASE CrearSuspensor
  <2>1. UNCHANGED <<ScAtiende, LugarSc, BlockedDeSc>>
    BY <1>14 DEF CrearSuspensor, ScAtiende, LugarSc, BlockedDeSc, En
  <2>2. UNCHANGED <<cola_new, cola_suspended_ready, cola_ready, cola_blocked, dispatch,
                    syscalls, rp, lp, io, sem, cola_rota, caido>>
    BY <1>14 DEF CrearSuspensor, kernel_vars, sockets, cpu_vars, colas, suspension, carrera
  <2>3. UNCHANGED <<NewDeLp, ReadyDeLp, LugarLp, NewDeRp, NewDeIo, ReadyDeIo, LugarIo,
                    Perdido>>
    BY <2>2, CuentasEstables
  <2>4. UnaSolaRotura'
    BY <1>14, <2>1, <2>2, <2>3, <1>resto DEF CrearSuspensor, UnaSolaRotura, En
  <2>5. /\ (CuentaNew /\ HayParaSacar /\ CuentaBlocked /\ (caido => cola_rota))'
        /\ UNCHANGED <<AvisosDeReady, VueltasDeCpu, PlazasDelKernel>>
    BY <2>1, <2>2, <2>3 DEF CuentasDelKernel, CuentaNew, HayParaSacar, AvisosDeReady,
       CuentaBlocked, VueltasDeCpu, PlazasDelKernel
  <2> QED
    BY <2>4, <2>5 DEF CuentasDelKernel
<1>15. CASE AvisarIO
  <2>1. /\ BlockedDeSc = 1 /\ BlockedDeSc' = 0
    BY <1>15 DEF AvisarIO, BlockedDeSc, Uno, En
  <2>2. UNCHANGED <<ScAtiende, LugarSc>>
    BY <1>15 DEF AvisarIO, ScAtiende, LugarSc, En
  <2>3. /\ sem'["proceso_en_io"] = sem["proceso_en_io"] + 1
        /\ UNCHANGED <<sem["procesos_para_ready"], sem["grado_multiprogramacion"],
                       sem["procesos_en_ready"], sem["fin_de_ejecucion"]>>
    BY <1>15 DEF AvisarIO, sem_wait, sem_post, Semaforos, KernelTypeOK
  <2>4. UNCHANGED <<cola_new, cola_suspended_ready, cola_ready, cola_blocked, dispatch,
                    syscalls, rp, lp, io, cola_rota, caido>>
    BY <1>15 DEF AvisarIO, kernel_vars, sockets, cpu_vars, colas, suspension, carrera
  <2>5. UNCHANGED <<NewDeLp, ReadyDeLp, LugarLp, NewDeRp, NewDeIo, ReadyDeIo, LugarIo,
                    Perdido>>
    BY <2>4, CuentasEstables
  <2>6. CuentaBlocked'
    BY <2>1, <2>2, <2>3, <2>4, <2>5, <1>blocked DEF CuentaBlocked, NatBlocked
  <2>7. UnaSolaRotura'
    BY <1>15, <2>1, <2>2, <2>3, <2>4, <2>5, <1>resto DEF AvisarIO, UnaSolaRotura, En
  <2>8. /\ (CuentaNew /\ HayParaSacar /\ (caido => cola_rota))'
        /\ UNCHANGED <<AvisosDeReady, VueltasDeCpu, PlazasDelKernel>>
    BY <2>1, <2>2, <2>3, <2>4, <2>5 DEF CuentasDelKernel, CuentaNew, HayParaSacar,
       AvisosDeReady, VueltasDeCpu, PlazasDelKernel
  <2> QED
    BY <2>6, <2>7, <2>8 DEF CuentasDelKernel
<1>16. CASE LiberarGrado
  <2>1. /\ LugarSc = 1 /\ LugarSc' = 0
    BY <1>16 DEF LiberarGrado, LugarSc, Uno, En
  <2>2. UNCHANGED <<ScAtiende, BlockedDeSc>>
    BY <1>16 DEF LiberarGrado, ScAtiende, BlockedDeSc, En
  <2>3. /\ sem'["grado_multiprogramacion"] = sem["grado_multiprogramacion"] + 1
        /\ UNCHANGED <<sem["procesos_para_ready"], sem["procesos_en_ready"],
                       sem["proceso_en_io"], sem["fin_de_ejecucion"]>>
    BY <1>16 DEF LiberarGrado, sem_wait, sem_post, Semaforos, KernelTypeOK
  <2>4. UNCHANGED <<cola_new, cola_suspended_ready, cola_ready, cola_blocked, dispatch,
                    syscalls, rp, lp, io, cola_rota, caido>>
    BY <1>16 DEF LiberarGrado, kernel_vars, sockets, cpu_vars, colas, suspension, carrera
  <2>5. UNCHANGED <<NewDeLp, ReadyDeLp, LugarLp, NewDeRp, NewDeIo, ReadyDeIo, LugarIo,
                    Perdido>>
    BY <2>4, CuentasEstables
  <2>6. UnaSolaRotura'
    BY <1>16, <2>1, <2>2, <2>3, <2>4, <2>5, <1>resto DEF LiberarGrado, UnaSolaRotura, En
  <2>7. UNCHANGED PlazasDelKernel
    BY <2>1, <2>2, <2>3, <2>4, <2>5, <1>grado DEF PlazasDelKernel, NatGrado
  <2>8. /\ (CuentaNew /\ HayParaSacar /\ CuentaBlocked /\ (caido => cola_rota))'
        /\ UNCHANGED <<AvisosDeReady, VueltasDeCpu>>
    BY <2>1, <2>2, <2>3, <2>4, <2>5 DEF CuentasDelKernel, CuentaNew, HayParaSacar,
       AvisosDeReady, CuentaBlocked, VueltasDeCpu
  <2> QED
    BY <2>6, <2>7, <2>8 DEF CuentasDelKernel
<1>17. CASE PedirFin
  <2>1. UNCHANGED <<ScAtiende, LugarSc, BlockedDeSc>>
    BY <1>17 DEF PedirFin, ScAtiende, LugarSc, BlockedDeSc, En
  <2>2. /\ UNCHANGED <<sem["procesos_para_ready"], sem["grado_multiprogramacion"],
                       sem["procesos_en_ready"], sem["proceso_en_io"],
                       sem["fin_de_ejecucion"]>>
    BY <1>17 DEF PedirFin, sem_wait, sem_post, Semaforos, KernelTypeOK
  <2>3. UNCHANGED <<cola_new, cola_suspended_ready, cola_ready, cola_blocked, dispatch,
                    syscalls, rp, lp, io, cola_rota, caido>>
    BY <1>17 DEF PedirFin, kernel_vars, sockets, cpu_vars, colas, suspension, carrera
  <2>4. UNCHANGED <<NewDeLp, ReadyDeLp, LugarLp, NewDeRp, NewDeIo, ReadyDeIo, LugarIo,
                    Perdido>>
    BY <2>3, CuentasEstables
  <2>5. UnaSolaRotura'
    BY <1>17, <2>1, <2>2, <2>3, <2>4, <1>resto DEF PedirFin, UnaSolaRotura, En
  <2>6. /\ (CuentaNew /\ HayParaSacar /\ CuentaBlocked /\ (caido => cola_rota))'
        /\ UNCHANGED <<AvisosDeReady, VueltasDeCpu, PlazasDelKernel>>
    BY <2>1, <2>2, <2>3, <2>4 DEF CuentasDelKernel, CuentaNew, HayParaSacar, AvisosDeReady,
       CuentaBlocked, VueltasDeCpu, PlazasDelKernel
  <2> QED
    BY <2>5, <2>6 DEF CuentasDelKernel
<1>18. CASE RecibirFin
  <2>1. UNCHANGED <<ScAtiende, LugarSc, BlockedDeSc>>
    BY <1>18 DEF RecibirFin, ScAtiende, LugarSc, BlockedDeSc, En
  <2>2. /\ UNCHANGED <<sem["procesos_para_ready"], sem["grado_multiprogramacion"],
                       sem["procesos_en_ready"], sem["proceso_en_io"],
                       sem["fin_de_ejecucion"]>>
    BY <1>18 DEF RecibirFin, sem_wait, sem_post, Semaforos, KernelTypeOK
  <2>3. UNCHANGED <<cola_new, cola_suspended_ready, cola_ready, cola_blocked, dispatch,
                    syscalls, rp, lp, io, cola_rota, caido>>
    BY <1>18 DEF RecibirFin, kernel_vars, sockets, cpu_vars, colas, suspension, carrera
  <2>4. UNCHANGED <<NewDeLp, ReadyDeLp, LugarLp, NewDeRp, NewDeIo, ReadyDeIo, LugarIo,
                    Perdido>>
    BY <2>3, CuentasEstables
  <2>5. UnaSolaRotura'
    BY <1>18, <2>1, <2>2, <2>3, <2>4, <1>resto DEF RecibirFin, UnaSolaRotura, En
  <2>6. /\ (CuentaNew /\ HayParaSacar /\ CuentaBlocked /\ (caido => cola_rota))'
        /\ UNCHANGED <<AvisosDeReady, VueltasDeCpu, PlazasDelKernel>>
    BY <2>1, <2>2, <2>3, <2>4 DEF CuentasDelKernel, CuentaNew, HayParaSacar, AvisosDeReady,
       CuentaBlocked, VueltasDeCpu, PlazasDelKernel
  <2> QED
    BY <2>5, <2>6 DEF CuentasDelKernel
<1>19. CASE ResponderConsola
  <2>1. UNCHANGED <<ScAtiende, LugarSc, BlockedDeSc>>
    BY <1>19 DEF ResponderConsola, ScAtiende, LugarSc, BlockedDeSc, En
  <2>2. UNCHANGED <<cola_new, cola_suspended_ready, cola_ready, cola_blocked, dispatch,
                    syscalls, rp, lp, io, sem, cola_rota, caido>>
    BY <1>19 DEF ResponderConsola, kernel_vars, sockets, cpu_vars, colas, suspension,
       carrera
  <2>3. UNCHANGED <<NewDeLp, ReadyDeLp, LugarLp, NewDeRp, NewDeIo, ReadyDeIo, LugarIo,
                    Perdido>>
    BY <2>2, CuentasEstables
  <2>4. UnaSolaRotura'
    BY <1>19, <2>1, <2>2, <2>3, <1>resto DEF ResponderConsola, UnaSolaRotura, En
  <2>5. /\ (CuentaNew /\ HayParaSacar /\ CuentaBlocked /\ (caido => cola_rota))'
        /\ UNCHANGED <<AvisosDeReady, VueltasDeCpu, PlazasDelKernel>>
    BY <2>1, <2>2, <2>3 DEF CuentasDelKernel, CuentaNew, HayParaSacar, AvisosDeReady,
       CuentaBlocked, VueltasDeCpu, PlazasDelKernel
  <2> QED
    BY <2>4, <2>5 DEF CuentasDelKernel
<1>20. CASE TomarBloqueado
  <2>1. /\ sem["proceso_en_io"] > 0
        /\ sem'["proceso_en_io"] = sem["proceso_en_io"] - 1
        /\ UNCHANGED <<sem["procesos_para_ready"], sem["grado_multiprogramacion"],
                       sem["procesos_en_ready"], sem["fin_de_ejecucion"]>>
    BY <1>20 DEF TomarBloqueado, sem_wait, Semaforos, KernelTypeOK
  <2>2. UNCHANGED <<cola_new, cola_suspended_ready, cola_ready, dispatch, syscalls, rp, lp,
                    sc, cola_rota>>
    BY <1>20 DEF TomarBloqueado, sockets, cpu_vars, suspension
  <2>3. UNCHANGED <<NewDeLp, ReadyDeLp, LugarLp, NewDeRp, ScAtiende, LugarSc, BlockedDeSc,
                    Perdido>>
    BY <2>2, CuentasEstables
  <2>4. UNCHANGED <<NewDeIo, ReadyDeIo>>
    BY <1>20 DEF TomarBloqueado, NewDeIo, ReadyDeIo, En
  <2>5. \/ Len(cola_blocked') = Len(cola_blocked) - 1 /\ LugarIo = 0 /\ LugarIo' = 1
        \/ cola_rota /\ UNCHANGED <<cola_blocked, LugarIo>>
    <3>1. CASE ~cola_rota
      <4>1. cola_blocked # <<>>
        BY <2>1, <3>1, <1>blocked, Vacias DEF CuentaBlocked, NatBlocked
      <4>2. Len(cola_blocked') = Len(cola_blocked) - 1
        BY <1>20, <3>1, <4>1, ColaPop DEF TomarBloqueado, KernelTypeOK, TipoColas
      <4>3. LugarIo = 0 /\ LugarIo' = 1
        BY <1>20, <3>1, <4>1 DEF TomarBloqueado, LugarIo, Uno, En
      <4> QED
        BY <4>2, <4>3
    <3>2. CASE cola_rota
      BY <1>20, <3>2 DEF TomarBloqueado, LugarIo
    <3> QED
      BY <3>1, <3>2
  <2>6. caido' => cola_rota'
    <3>1. ~cola_rota => cola_blocked # <<>>
      BY <2>1, <1>blocked, Vacias DEF CuentaBlocked, NatBlocked
    <3>2. ~cola_rota => ~caido'
      BY <1>20, <3>1 DEF TomarBloqueado
    <3> QED
      BY <2>2, <3>2
  <2>7. CuentaBlocked'
    BY <2>1, <2>2, <2>3, <2>5, <1>blocked DEF CuentaBlocked, NatBlocked
  <2>8. UNCHANGED PlazasDelKernel
    BY <2>1, <2>2, <2>3, <2>5, <1>grado, SMTT(30) DEF PlazasDelKernel, NatGrado
  <2>9. /\ (CuentaNew /\ HayParaSacar)'
        /\ UNCHANGED <<AvisosDeReady, VueltasDeCpu>>
    BY <2>1, <2>2, <2>3, <2>4 DEF CuentasDelKernel, CuentaNew, HayParaSacar, AvisosDeReady,
       VueltasDeCpu
  <2>10. UnaSolaRotura'
    BY <2>2 DEF CuentasDelKernel, UnaSolaRotura
  <2>11. (caido => cola_rota)'
    BY <2>6
  <2> QED
    BY <2>7, <2>8, <2>9, <2>10, <2>11 DEF CuentasDelKernel
<1>21. CASE TerminarIO
  <2>1. UNCHANGED <<NewDeIo, ReadyDeIo, LugarIo>>
    BY <1>21 DEF TerminarIO, NewDeIo, ReadyDeIo, LugarIo, En
  <2>2. /\ UNCHANGED <<sem["procesos_para_ready"], sem["grado_multiprogramacion"],
                       sem["procesos_en_ready"], sem["proceso_en_io"],
                       sem["fin_de_ejecucion"]>>
    BY <1>21 DEF TerminarIO, sem_wait, sem_post, Semaforos, KernelTypeOK
  <2>3. UNCHANGED <<cola_new, cola_suspended_ready, cola_ready, cola_blocked, dispatch,
                    syscalls, rp, lp, sc, cola_rota, caido>>
    BY <1>21 DEF TerminarIO, kernel_vars, sockets, cpu_vars, colas, suspension, carrera
  <2>4. UNCHANGED <<NewDeLp, ReadyDeLp, LugarLp, NewDeRp, ScAtiende, LugarSc, BlockedDeSc,
                    Perdido>>
    BY <2>3, CuentasEstables
  <2>5. /\ (CuentaNew /\ HayParaSacar /\ CuentaBlocked /\ UnaSolaRotura /\ (caido => cola_rota))'
        /\ UNCHANGED <<AvisosDeReady, VueltasDeCpu, PlazasDelKernel>>
    BY <2>1, <2>2, <2>3, <2>4 DEF CuentasDelKernel, CuentaNew, HayParaSacar, AvisosDeReady,
       CuentaBlocked, UnaSolaRotura, VueltasDeCpu, PlazasDelKernel
  <2> QED
    BY <2>5 DEF CuentasDelKernel
<1>22. CASE PasarASuspendedReady
  <2>1. /\ NewDeIo = 0 /\ NewDeIo' = 1
    BY <1>22 DEF PasarASuspendedReady, NewDeIo, Uno, En
  <2>2. UNCHANGED <<ReadyDeIo, LugarIo>>
    BY <1>22 DEF PasarASuspendedReady, ReadyDeIo, LugarIo, En
  <2>3. Len(cola_suspended_ready') = Len(cola_suspended_ready) + 1
    BY <1>22, ColaPush, Cargas DEF PasarASuspendedReady, KernelTypeOK, TipoColas
  <2>4. UNCHANGED <<cola_new, cola_ready, cola_blocked, dispatch, syscalls, rp, lp, sc, sem,
                    cola_rota, caido>>
    BY <1>22 DEF PasarASuspendedReady, kernel_vars, sockets, cpu_vars, colas, suspension,
       carrera
  <2>5. UNCHANGED <<NewDeLp, ReadyDeLp, LugarLp, NewDeRp, ScAtiende, LugarSc, BlockedDeSc,
                    Perdido>>
    BY <2>4, CuentasEstables
  <2>6. CuentaNew'
    BY <2>1, <2>2, <2>3, <2>4, <2>5, <1>new DEF CuentaNew, NatNew
  <2>7. HayParaSacar'
    BY <1>22, <2>1, <2>2, <2>3, <2>4, <2>5, <1>new, <1>resto DEF PasarASuspendedReady,
       HayParaSacar, NatNew, En
  <2>8. /\ (CuentaBlocked /\ UnaSolaRotura /\ (caido => cola_rota))'
        /\ UNCHANGED <<AvisosDeReady, VueltasDeCpu, PlazasDelKernel>>
    BY <2>1, <2>2, <2>3, <2>4, <2>5 DEF CuentasDelKernel, AvisosDeReady, CuentaBlocked,
       UnaSolaRotura, VueltasDeCpu, PlazasDelKernel
  <2> QED
    BY <2>6, <2>7, <2>8 DEF CuentasDelKernel
<1>23. CASE LiberarGradoSuspendido
  <2>1. /\ LugarIo = 1 /\ LugarIo' = 0
    BY <1>23 DEF LiberarGradoSuspendido, LugarIo, Uno, En
  <2>2. UNCHANGED <<NewDeIo, ReadyDeIo>>
    BY <1>23 DEF LiberarGradoSuspendido, NewDeIo, ReadyDeIo, En
  <2>3. /\ sem'["grado_multiprogramacion"] = sem["grado_multiprogramacion"] + 1
        /\ UNCHANGED <<sem["procesos_para_ready"], sem["procesos_en_ready"],
                       sem["proceso_en_io"], sem["fin_de_ejecucion"]>>
    BY <1>23 DEF LiberarGradoSuspendido, sem_wait, sem_post, Semaforos, KernelTypeOK
  <2>4. UNCHANGED <<cola_new, cola_suspended_ready, cola_ready, cola_blocked, dispatch,
                    syscalls, rp, lp, sc, cola_rota, caido>>
    BY <1>23 DEF LiberarGradoSuspendido, kernel_vars, sockets, cpu_vars, colas, suspension,
       carrera
  <2>5. UNCHANGED <<NewDeLp, ReadyDeLp, LugarLp, NewDeRp, ScAtiende, LugarSc, BlockedDeSc,
                    Perdido>>
    BY <2>4, CuentasEstables
  <2>6. UNCHANGED PlazasDelKernel
    BY <2>1, <2>2, <2>3, <2>4, <2>5, <1>grado DEF PlazasDelKernel, NatGrado
  <2>7. /\ (CuentaNew /\ HayParaSacar /\ CuentaBlocked /\ UnaSolaRotura /\ (caido => cola_rota))'
        /\ UNCHANGED <<AvisosDeReady, VueltasDeCpu>>
    BY <2>1, <2>2, <2>3, <2>4, <2>5 DEF CuentasDelKernel, CuentaNew, HayParaSacar,
       AvisosDeReady, CuentaBlocked, UnaSolaRotura, VueltasDeCpu
  <2> QED
    BY <2>6, <2>7 DEF CuentasDelKernel
<1>24. CASE AvisarSuspendedReady
  <2>1. /\ NewDeIo = 1 /\ NewDeIo' = 0
    BY <1>24 DEF AvisarSuspendedReady, NewDeIo, Uno, En
  <2>2. UNCHANGED <<ReadyDeIo, LugarIo>>
    BY <1>24 DEF AvisarSuspendedReady, ReadyDeIo, LugarIo, En
  <2>3. /\ sem'["procesos_para_ready"] = sem["procesos_para_ready"] + 1
        /\ UNCHANGED <<sem["grado_multiprogramacion"], sem["procesos_en_ready"],
                       sem["proceso_en_io"], sem["fin_de_ejecucion"]>>
    BY <1>24 DEF AvisarSuspendedReady, sem_wait, sem_post, Semaforos, KernelTypeOK
  <2>4. UNCHANGED <<cola_new, cola_suspended_ready, cola_ready, cola_blocked, dispatch,
                    syscalls, rp, lp, sc, cola_rota, caido>>
    BY <1>24 DEF AvisarSuspendedReady, kernel_vars, sockets, cpu_vars, colas, suspension,
       carrera
  <2>5. UNCHANGED <<NewDeLp, ReadyDeLp, LugarLp, NewDeRp, ScAtiende, LugarSc, BlockedDeSc,
                    Perdido>>
    BY <2>4, CuentasEstables
  <2>6. CuentaNew'
    BY <2>1, <2>2, <2>3, <2>4, <2>5, <1>new DEF CuentaNew, NatNew
  <2>7. /\ (HayParaSacar /\ CuentaBlocked /\ UnaSolaRotura /\ (caido => cola_rota))'
        /\ UNCHANGED <<AvisosDeReady, VueltasDeCpu, PlazasDelKernel>>
    BY <2>1, <2>2, <2>3, <2>4, <2>5 DEF CuentasDelKernel, HayParaSacar, AvisosDeReady,
       CuentaBlocked, UnaSolaRotura, VueltasDeCpu, PlazasDelKernel
  <2> QED
    BY <2>6, <2>7 DEF CuentasDelKernel
<1>25. CASE PasarAReady
  <2>1. /\ ReadyDeIo = 0 /\ ReadyDeIo' = 1
        /\ LugarIo = 1 /\ LugarIo' = 0
    BY <1>25 DEF PasarAReady, ReadyDeIo, LugarIo, Uno, En
  <2>2. UNCHANGED <<NewDeIo>>
    BY <1>25 DEF PasarAReady, NewDeIo, En
  <2>3. Len(cola_ready') = Len(cola_ready) + 1
    BY <1>25, ColaPush, Cargas DEF PasarAReady, KernelTypeOK, TipoColas
  <2>4. UNCHANGED <<cola_new, cola_suspended_ready, cola_blocked, dispatch, syscalls, rp,
                    lp, sc, sem, cola_rota, caido>>
    BY <1>25 DEF PasarAReady, kernel_vars, sockets, cpu_vars, colas, suspension, carrera
  <2>5. UNCHANGED <<NewDeLp, ReadyDeLp, LugarLp, NewDeRp, ScAtiende, LugarSc, BlockedDeSc,
                    Perdido>>
    BY <2>4, CuentasEstables
  <2>6. UNCHANGED AvisosDeReady
    BY <2>1, <2>2, <2>3, <2>4, <2>5, <1>ready DEF AvisosDeReady, NatReady
  <2>7. UNCHANGED PlazasDelKernel
    BY <2>1, <2>2, <2>3, <2>4, <2>5, <1>grado DEF PlazasDelKernel, NatGrado
  <2>8. /\ (CuentaNew /\ HayParaSacar /\ CuentaBlocked /\ UnaSolaRotura /\ (caido => cola_rota))'
        /\ UNCHANGED VueltasDeCpu
    BY <2>1, <2>2, <2>3, <2>4, <2>5 DEF CuentasDelKernel, CuentaNew, HayParaSacar,
       CuentaBlocked, UnaSolaRotura, VueltasDeCpu
  <2> QED
    BY <2>6, <2>7, <2>8 DEF CuentasDelKernel
<1>26. CASE AvisarReadyIO
  <2>1. /\ ReadyDeIo = 1 /\ ReadyDeIo' = 0
    BY <1>26 DEF AvisarReadyIO, ReadyDeIo, Uno, En
  <2>2. UNCHANGED <<NewDeIo, LugarIo>>
    BY <1>26 DEF AvisarReadyIO, NewDeIo, LugarIo, En
  <2>3. /\ sem'["procesos_en_ready"] = sem["procesos_en_ready"] + 1
        /\ UNCHANGED <<sem["procesos_para_ready"], sem["grado_multiprogramacion"],
                       sem["proceso_en_io"], sem["fin_de_ejecucion"]>>
    BY <1>26 DEF AvisarReadyIO, sem_wait, sem_post, Semaforos, KernelTypeOK
  <2>4. UNCHANGED <<cola_new, cola_suspended_ready, cola_ready, cola_blocked, dispatch,
                    syscalls, rp, lp, sc, cola_rota, caido>>
    BY <1>26 DEF AvisarReadyIO, kernel_vars, sockets, cpu_vars, colas, suspension, carrera
  <2>5. UNCHANGED <<NewDeLp, ReadyDeLp, LugarLp, NewDeRp, ScAtiende, LugarSc, BlockedDeSc,
                    Perdido>>
    BY <2>4, CuentasEstables
  <2>6. UNCHANGED AvisosDeReady
    BY <2>1, <2>2, <2>3, <2>4, <2>5, <1>ready DEF AvisosDeReady, NatReady
  <2>7. /\ (CuentaNew /\ HayParaSacar /\ CuentaBlocked /\ UnaSolaRotura /\ (caido => cola_rota))'
        /\ UNCHANGED <<VueltasDeCpu, PlazasDelKernel>>
    BY <2>1, <2>2, <2>3, <2>4, <2>5 DEF CuentasDelKernel, CuentaNew, HayParaSacar,
       CuentaBlocked, UnaSolaRotura, VueltasDeCpu, PlazasDelKernel
  <2> QED
    BY <2>6, <2>7 DEF CuentasDelKernel
<1>27. CASE SoltarSuspendiendo
  <2>1. UNCHANGED <<NewDeIo, ReadyDeIo, LugarIo>>
    BY <1>27 DEF SoltarSuspendiendo, NewDeIo, ReadyDeIo, LugarIo, En
  <2>2. /\ UNCHANGED <<sem["procesos_para_ready"], sem["grado_multiprogramacion"],
                       sem["procesos_en_ready"], sem["proceso_en_io"],
                       sem["fin_de_ejecucion"]>>
    BY <1>27 DEF SoltarSuspendiendo, sem_wait, sem_post, Semaforos, KernelTypeOK
  <2>3. UNCHANGED <<cola_new, cola_suspended_ready, cola_ready, cola_blocked, dispatch,
                    syscalls, rp, lp, sc, cola_rota, caido>>
    BY <1>27 DEF SoltarSuspendiendo, kernel_vars, sockets, cpu_vars, colas, suspension,
       carrera
  <2>4. UNCHANGED <<NewDeLp, ReadyDeLp, LugarLp, NewDeRp, ScAtiende, LugarSc, BlockedDeSc,
                    Perdido>>
    BY <2>3, CuentasEstables
  <2>5. /\ (CuentaNew /\ HayParaSacar /\ CuentaBlocked /\ UnaSolaRotura /\ (caido => cola_rota))'
        /\ UNCHANGED <<AvisosDeReady, VueltasDeCpu, PlazasDelKernel>>
    BY <2>1, <2>2, <2>3, <2>4 DEF CuentasDelKernel, CuentaNew, HayParaSacar, AvisosDeReady,
       CuentaBlocked, UnaSolaRotura, VueltasDeCpu, PlazasDelKernel
  <2> QED
    BY <2>5 DEF CuentasDelKernel
<1>neutro. ASSUME UNCHANGED <<cola_new, cola_ready, cola_blocked, cola_suspended_ready,
                              dispatch, syscalls, rp, lp, sc, io, cola_rota, caido>>,
                  UNCHANGED <<sem["procesos_para_ready"], sem["grado_multiprogramacion"],
                              sem["procesos_en_ready"], sem["proceso_en_io"],
                              sem["fin_de_ejecucion"]>>
           PROVE  Meta
  <2>1. UNCHANGED <<NewDeLp, ReadyDeLp, LugarLp, NewDeRp, NewDeIo, ReadyDeIo, LugarIo,
                    ScAtiende, LugarSc, BlockedDeSc, Perdido>>
    BY <1>neutro, CuentasEstables
  <2> QED
    BY <1>neutro, <2>1 DEF CuentasDelKernel, CuentaNew, HayParaSacar, AvisosDeReady,
       CuentaBlocked, UnaSolaRotura, VueltasDeCpu, PlazasDelKernel
<1>s. ASSUME NEW b \in Bloqueos, Suspensor(b)
      PROVE  Meta
  <2>1. UNCHANGED <<cola_new, cola_ready, cola_blocked, cola_suspended_ready, dispatch,
                    syscalls, rp, lp, sc, io, cola_rota, caido>>
    BY <1>s DEF Suspensor, Despertar, Cancelar, TomarSuspendiendo, PedirSuspension,
       RecibirSuspension, colas, cpu_vars, carrera
  <2>2. UNCHANGED <<sem["procesos_para_ready"], sem["grado_multiprogramacion"],
                    sem["procesos_en_ready"], sem["proceso_en_io"],
                    sem["fin_de_ejecucion"]>>
    BY <1>s DEF Suspensor, Despertar, Cancelar, TomarSuspendiendo, PedirSuspension,
       RecibirSuspension, sem_wait, Semaforos, KernelTypeOK
  <2> QED
    BY <1>neutro, <2>1, <2>2
<1>a. CASE AtenderPedido
  <2>1. UNCHANGED <<cola_new, cola_ready, cola_blocked, cola_suspended_ready, dispatch,
                    syscalls, rp, lp, sc, io, cola_rota, caido, sem>>
    BY <1>a DEF AtenderPedido, colas, cpu_vars, carrera
  <2> QED
    BY <1>neutro, <2>1
<1> QED
  BY <1>1, <1>2, <1>3, <1>4, <1>5, <1>6, <1>7, <1>8, <1>9, <1>10, <1>11, <1>12, <1>13,
     <1>14, <1>15, <1>16, <1>17, <1>18, <1>19, <1>20, <1>21, <1>22, <1>23, <1>24,
     <1>25, <1>26, <1>27, <1>s, <1>a DEF DelKernel, HiloRecibirProcesos, HiloPasarAReady,
     HiloSyscall, HiloIO, Suspensor

-----------------------------------------------------------------------------
\* Queues as sets of PCBs

\* A push adds one PCB, and repeats no process that was not in the queue.
LEMMA RangoPush ==
  ASSUME NEW S, NEW s \in Seq(S), NEW x \in S
  PROVE  /\ Range(Append(s, x)) = Range(s) \cup {x}
         /\ Distintos(s) /\ (\A y \in Range(s) : y.id # x.id) => Distintos(Append(s, x))
<1> DEFINE t == Append(s, x)
<1>1. /\ t \in Seq(S) /\ Len(t) = Len(s) + 1
      /\ \A i \in 1..Len(s) : t[i] = s[i]
      /\ t[Len(s) + 1] = x
  BY AppendProperties
<1>2. Len(s) \in Nat /\ DOMAIN s = 1..Len(s) /\ DOMAIN t = 1..(Len(s) + 1)
  BY <1>1, LenProperties
<1> HIDE DEF t
<1>3. Range(t) = Range(s) \cup {x}
  BY <1>1, <1>2 DEF Range
<1>4. Distintos(s) /\ (\A y \in Range(s) : y.id # x.id) => Distintos(t)
  BY <1>1, <1>2 DEF Range, Distintos
<1> QED
  BY <1>3, <1>4 DEF t

\* A pop takes the first PCB away, and leaves the last one unless it is the same.
LEMMA RangoPop ==
  ASSUME NEW S, NEW s \in Seq(S), s # <<>>
  PROVE  /\ Head(s) \in Range(s)
         /\ Distintos(s) => Range(Tail(s)) = Range(s) \ {Head(s)} /\ Distintos(Tail(s))
         /\ Len(s) > 1 => Tail(s) # <<>> /\ Tail(s)[Len(Tail(s))] = s[Len(s)]
<1> DEFINE t == Tail(s)
<1>1. /\ t \in Seq(S) /\ Len(t) = Len(s) - 1
      /\ \A i \in 1..Len(t) : t[i] = s[i + 1]
  BY HeadTailProperties
<1>2. /\ Len(s) \in Nat /\ Len(s) > 0
      /\ DOMAIN s = 1..Len(s) /\ DOMAIN t = 1..(Len(s) - 1)
  BY <1>1, LenProperties, ColaLen
<1>3. Head(s) = s[1]
  BY DEF Head
<1> HIDE DEF t
<1>4. Head(s) \in Range(s)
  BY <1>2, <1>3 DEF Range
<1>5. ASSUME Distintos(s) PROVE Range(t) = Range(s) \ {Head(s)} /\ Distintos(t)
  <2>1. Range(t) \subseteq Range(s) \ {Head(s)}
    BY <1>1, <1>2, <1>3, <1>5 DEF Range, Distintos
  <2>2. ASSUME NEW y \in Range(s), y # Head(s) PROVE y \in Range(t)
    <3>1. PICK i \in 1..Len(s) : y = s[i]
      BY <1>2 DEF Range
    <3>2. i # 1 /\ i - 1 \in 1..Len(t)
      BY <1>1, <1>2, <1>3, <2>2, <3>1
    <3>3. t[i - 1] = s[i]
      BY <1>1, <1>2, <3>2
    <3> QED
      BY <1>1, <1>2, <3>1, <3>2, <3>3 DEF Range
  <2>3. ASSUME NEW i \in DOMAIN t, NEW j \in DOMAIN t, t[i].id = t[j].id PROVE i = j
    <3>1. /\ i + 1 \in DOMAIN s /\ j + 1 \in DOMAIN s
          /\ t[i] = s[i + 1] /\ t[j] = s[j + 1]
      BY <1>1, <1>2
    <3>2. i + 1 = j + 1
      BY <1>5, <2>3, <3>1 DEF Distintos
    <3> QED
      BY <1>2, <3>2
  <2> QED
    BY <2>1, <2>2, <2>3 DEF Distintos
<1>6. Len(s) > 1 => t # <<>> /\ t[Len(t)] = s[Len(s)]
  BY <1>1, <1>2, EmptySeq, ColaLen
<1> QED
  BY <1>4, <1>5, <1>6 DEF t

\* The empty queue holds nothing.
LEMMA Vacio == Range(<<>>) = {} /\ DOMAIN <<>> = {}
  BY DEF Range

\* A queue of one message.
LEMMA UnSoloMensaje ==
  ASSUME NEW S, NEW s \in Seq(S), Len(s) <= 1
  PROVE  s # <<>> => Tail(s) = <<>> /\ Range(s) = {Head(s)} /\ DOMAIN s = {1} /\ s[1] = Head(s)
<1>1. SUFFICES ASSUME s # <<>> PROVE /\ Tail(s) = <<>> /\ Range(s) = {Head(s)}
                                     /\ DOMAIN s = {1} /\ s[1] = Head(s)
  OBVIOUS
<1>2. Len(s) = 1 /\ DOMAIN s = {1}
  <2>1. Len(s) \in Nat /\ Len(s) # 0 /\ DOMAIN s = 1..Len(s)
    BY <1>1, ColaLen, LenProperties
  <2> QED
    BY <2>1
<1>3. Head(s) = s[1]
  BY DEF Head
<1>4. Tail(s) \in Seq(S) /\ Len(Tail(s)) = 0
  BY <1>1, <1>2, HeadTailProperties
<1>5. Tail(s) = <<>>
  BY <1>4, ColaLen
<1> QED
  BY <1>2, <1>3, <1>5 DEF Range

\* The system calls on their way, as a queue of PCBs.
PCBsDe(s) == [i \in DOMAIN s |-> s[i].pcb]

LEMMA ColaDePCBs ==
  ASSUME NEW s \in Seq(Syscalls)
  PROVE  /\ PCBsDe(s) \in Seq(PCB) /\ Range(PCBsDe(s)) = {m.pcb : m \in Range(s)}
         /\ Len(PCBsDe(s)) = Len(s) /\ DOMAIN PCBsDe(s) = DOMAIN s
         /\ Distintos(PCBsDe(s)) <=> \A i, j \in DOMAIN s : s[i].pcb.id = s[j].pcb.id => i = j
         /\ s # <<>> => /\ PCBsDe(s) # <<>> /\ Head(PCBsDe(s)) = Head(s).pcb
                        /\ Tail(PCBsDe(s)) = PCBsDe(Tail(s))
         /\ \A m \in Syscalls : PCBsDe(Append(s, m)) = Append(PCBsDe(s), m.pcb)
<1> DEFINE t == PCBsDe(s)
<1>1. Len(s) \in Nat /\ DOMAIN s = 1..Len(s) /\ \A i \in 1..Len(s) : s[i] \in Syscalls
  BY LenProperties, ElementOfSeq
<1>2. t = [i \in 1..Len(s) |-> s[i].pcb]
  BY <1>1 DEF PCBsDe
<1>3. t \in Seq(PCB) /\ Len(t) = Len(s) /\ DOMAIN t = DOMAIN s
  BY <1>1, <1>2 DEF Syscalls
<1>4. \A i \in DOMAIN s : t[i] = s[i].pcb
  BY <1>1, <1>2
<1> HIDE DEF t
<1>5. Range(t) = {m.pcb : m \in Range(s)}
  BY <1>3, <1>4 DEF Range
<1>6. Distintos(t) <=> \A i, j \in DOMAIN s : s[i].pcb.id = s[j].pcb.id => i = j
  BY <1>3, <1>4 DEF Distintos
<1>7. ASSUME s # <<>>
      PROVE  t # <<>> /\ Head(t) = Head(s).pcb /\ Tail(t) = PCBsDe(Tail(s))
  <2>1. Len(s) > 0 /\ t # <<>>
    BY <1>1, <1>3, <1>7, ColaPop, ColaLen
  <2>2. Head(t) = Head(s).pcb
    BY <1>1, <1>3, <1>4, <2>1 DEF Head
  <2>3. /\ Tail(s) \in Seq(Syscalls) /\ Len(Tail(s)) = Len(s) - 1
        /\ \A i \in 1..Len(Tail(s)) : Tail(s)[i] = s[i + 1]
    BY <1>7, HeadTailProperties
  <2>4. /\ Tail(t) \in Seq(PCB) /\ Len(Tail(t)) = Len(s) - 1
        /\ \A i \in 1..Len(Tail(t)) : Tail(t)[i] = t[i + 1]
    BY <1>3, <2>1, HeadTailProperties
  <2>5. DOMAIN Tail(s) = 1..(Len(s) - 1) /\ DOMAIN Tail(t) = 1..(Len(s) - 1)
    BY <2>3, <2>4, LenProperties
  <2>6. PCBsDe(Tail(s)) = [i \in 1..(Len(s) - 1) |-> Tail(s)[i].pcb]
    BY <2>5 DEF PCBsDe
  <2>7. \A i \in 1..(Len(s) - 1) : Tail(t)[i] = Tail(s)[i].pcb
    BY <1>1, <1>4, <2>3, <2>4
  <2>8. Tail(t) = [i \in 1..(Len(s) - 1) |-> Tail(t)[i]]
    <3> DEFINE u == Tail(t)
    <3>1. u \in Seq(PCB) /\ Len(u) = Len(s) - 1
      BY <2>4
    <3> HIDE DEF u
    <3>2. u = [i \in 1..(Len(s) - 1) |-> u[i]]
      BY <3>1, LenProperties
    <3> QED
      BY <3>2 DEF u
  <2> QED
    BY <2>1, <2>2, <2>6, <2>7, <2>8
<1>8. ASSUME NEW m \in Syscalls PROVE PCBsDe(Append(s, m)) = Append(t, m.pcb)
  <2>1. m.pcb \in PCB
    BY DEF Syscalls
  <2>2. /\ Append(s, m) \in Seq(Syscalls) /\ Len(Append(s, m)) = Len(s) + 1
        /\ \A i \in 1..Len(s) : Append(s, m)[i] = s[i]
        /\ Append(s, m)[Len(s) + 1] = m
    BY AppendProperties
  <2>3. /\ Append(t, m.pcb) \in Seq(PCB) /\ Len(Append(t, m.pcb)) = Len(s) + 1
        /\ \A i \in 1..Len(s) : Append(t, m.pcb)[i] = t[i]
        /\ Append(t, m.pcb)[Len(s) + 1] = m.pcb
    BY <1>3, <2>1, AppendProperties
  <2>4. /\ DOMAIN Append(s, m) = 1..(Len(s) + 1)
        /\ DOMAIN Append(t, m.pcb) = 1..(Len(s) + 1)
    BY <2>2, <2>3, LenProperties
  <2>5. PCBsDe(Append(s, m)) = [i \in 1..(Len(s) + 1) |-> Append(s, m)[i].pcb]
    BY <2>4 DEF PCBsDe
  <2>6. \A i \in 1..(Len(s) + 1) : Append(t, m.pcb)[i] = Append(s, m)[i].pcb
    BY <1>1, <1>4, <2>2, <2>3
  <2>7. Append(t, m.pcb) = [i \in 1..(Len(s) + 1) |-> Append(t, m.pcb)[i]]
    BY <2>3, <2>4
  <2> QED
    BY <2>5, <2>6, <2>7
<1> QED
  BY <1>3, <1>5, <1>6, <1>7, <1>8 DEF t

\* A queue that repeats no process has as many processes as elements.
LEMMA IdsContados ==
  ASSUME NEW s \in Seq(PCB), Distintos(s)
  PROVE  IsFiniteSet(Ids(s)) /\ Cardinality(Ids(s)) = Len(s)
<1> DEFINE f == [i \in 1..Len(s) |-> s[i].id]
<1>1. Len(s) \in Nat /\ DOMAIN s = 1..Len(s)
  BY LenProperties
<1>2. Ids(s) = {s[i].id : i \in 1..Len(s)}
  BY <1>1 DEF Ids
<1>3. f \in Bijection(1..Len(s), Ids(s))
  <2>1. f \in [1..Len(s) -> Ids(s)]
    BY <1>2
  <2>2. \A i, j \in 1..Len(s) : f[i] = f[j] => i = j
    BY <1>1 DEF Distintos
  <2>3. \A t \in Ids(s) : \E i \in 1..Len(s) : f[i] = t
    BY <1>2
  <2> HIDE DEF f
  <2>4. f \in Injection(1..Len(s), Ids(s))
    BY <2>1, <2>2 DEF Injection, IsInjective
  <2>5. f \in Surjection(1..Len(s), Ids(s))
    BY <2>1, <2>3 DEF Surjection
  <2> QED
    BY <2>4, <2>5 DEF Bijection
<1>4. ExistsBijection(1..Len(s), Ids(s))
  BY <1>3 DEF ExistsBijection
<1> QED
  BY <1>1, <1>4, FS_CountingElements, FS_NatBijection

-----------------------------------------------------------------------------
\* A step takes at most one PCB from one place to another

NombresDelKernel == {"new", "ready", "blocked", "suspended_ready", "dispatch", "syscalls",
                     "lp", "io", "sc"}

Solo(condicion, x) == IF condicion THEN {x} ELSE {}

MudaDelKernel(a, x, b, y) == \A l \in NombresDelKernel :
  LugaresDelKernel'[l] = (LugaresDelKernel[l] \ Solo(l = a, x)) \cup Solo(l = b, y)
EntraDelKernel(b, y) == \A l \in NombresDelKernel :
  LugaresDelKernel'[l] = LugaresDelKernel[l] \cup Solo(l = b, y)
SaleDelKernel(a, x) == \A l \in NombresDelKernel :
  LugaresDelKernel'[l] = LugaresDelKernel[l] \ Solo(l = a, x)
QuietoDelKernel == \A l \in NombresDelKernel : LugaresDelKernel'[l] = LugaresDelKernel[l]

\* The places are these nine, before a step and after it.
LEMMA NombradosDelKernel ==
  DOMAIN LugaresDelKernel = NombresDelKernel /\ DOMAIN LugaresDelKernel' = NombresDelKernel
  BY DEF LugaresDelKernel, NombresDelKernel

\* What a pop of a queue gives and leaves, and what a push adds.
LEMMA Pop ==
  ASSUME KernelTypeOK, SinRepetidos,
         NEW cola \in {cola_new, cola_ready, cola_blocked, cola_suspended_ready, dispatch},
         cola # <<>>
  PROVE  /\ Head(cola) \in PCB /\ Head(cola) # NULO /\ Head(cola) \in Range(cola)
         /\ Range(Tail(cola)) = Range(cola) \ {Head(cola)} /\ Distintos(Tail(cola))
         /\ Len(cola) > 1 =>
              Tail(cola) # <<>> /\ Tail(cola)[Len(Tail(cola))] = cola[Len(cola)]
<1>1. cola \in Seq(PCB) /\ Distintos(cola)
  BY DEF KernelTypeOK, TipoColas, TipoCpu, SinRepetidos
<1>2. Head(cola) \in PCB
  BY <1>1, ColaPop
<1> QED
  BY <1>1, <1>2, RangoPop, NuloAssumption DEF NuloAssumption

LEMMA Push ==
  ASSUME KernelTypeOK, SinRepetidos,
         NEW cola \in {cola_new, cola_ready, cola_blocked, cola_suspended_ready, dispatch},
         NEW x \in PCB
  PROVE  /\ Range(Append(cola, x)) = Range(cola) \cup {x}
         /\ (\A y \in Range(cola) : y.id # x.id) => Distintos(Append(cola, x))
<1>1. cola \in Seq(PCB) /\ Distintos(cola)
  BY DEF KernelTypeOK, TipoColas, TipoCpu, SinRepetidos
<1> QED
  BY <1>1, RangoPush

\* Every place holds PCBs.
LEMMA LugaresDelKernelTipo ==
  ASSUME KernelTypeOK
  PROVE  \A l \in NombresDelKernel : LugaresDelKernel[l] \subseteq PCB
<1>1. ASSUME NEW S, NEW s \in Seq(S) PROVE Range(s) \subseteq S
  BY <1>1, RangeOfSeq
<1>2. /\ Range(cola_new) \subseteq PCB /\ Range(cola_ready) \subseteq PCB
      /\ Range(cola_blocked) \subseteq PCB /\ Range(cola_suspended_ready) \subseteq PCB
      /\ Range(dispatch) \subseteq PCB /\ Range(syscalls) \subseteq Syscalls
  BY <1>1 DEF KernelTypeOK, TipoColas, TipoCpu
<1>3. {m.pcb : m \in Range(syscalls)} \subseteq PCB
  BY <1>2 DEF Syscalls
<1>4. /\ {lp.pcb} \ {NULO} \subseteq PCB
      /\ {io.pcb} \ {NULO} \subseteq PCB /\ (sc.en \in ScDuenio => {sc.pcb} \subseteq PCB)
  BY DEF KernelTypeOK, TipoLp, TipoIo, TipoSc, ScConPCB, ScDuenio
<1> QED
  BY <1>2, <1>3, <1>4 DEF LugaresDelKernel, NombresDelKernel

PCBNuevo(p) == [id |-> p, pc |-> 0, tabla |-> NULO]

\* Where each step takes a process.
LEMMA TrasladosDelKernel ==
  ASSUME KernelTypeOK, SinRepetidos, SyscallsDistintas
  PROVE  /\ SacarDeNew /\ cola_new # <<>> =>
           Head(cola_new) \in LugaresDelKernel["new"] /\ MudaDelKernel("new", Head(cola_new), "lp", Head(cola_new))
         /\ SacarDeSuspendedReady /\ cola_suspended_ready # <<>> =>
           Head(cola_suspended_ready) \in LugaresDelKernel["suspended_ready"]
           /\ MudaDelKernel("suspended_ready", Head(cola_suspended_ready), "lp", Head(cola_suspended_ready))
         /\ RecibirTablas =>
           lp.pcb \in LugaresDelKernel["lp"] /\ lp'.pcb.id = lp.pcb.id
             /\ lp'.pcb.pc = lp.pcb.pc /\ MudaDelKernel("lp", lp.pcb, "lp", lp'.pcb)
         /\ EncolarReady =>
           lp.pcb \in LugaresDelKernel["lp"] /\ MudaDelKernel("lp", lp.pcb, "ready", lp.pcb)
         /\ RecibirSyscall =>
           Head(syscalls).pcb \in LugaresDelKernel["syscalls"]
           /\ MudaDelKernel("syscalls", Head(syscalls).pcb, "sc", Head(syscalls).pcb)
         /\ EnlazarBloqueado /\ cola_blocked' = Append(cola_blocked, sc.pcb) =>
           sc.pcb \in LugaresDelKernel["sc"] /\ MudaDelKernel("sc", sc.pcb, "blocked", sc.pcb)
         /\ EnlazarBloqueado /\ cola_blocked' = cola_blocked =>
           sc.pcb \in LugaresDelKernel["sc"] /\ SaleDelKernel("sc", sc.pcb)
         /\ ResponderConsola => sc.pcb \in LugaresDelKernel["sc"] /\ SaleDelKernel("sc", sc.pcb)
         /\ TomarBloqueado /\ ~cola_rota /\ cola_blocked # <<>> =>
           Head(cola_blocked) \in LugaresDelKernel["blocked"]
           /\ MudaDelKernel("blocked", Head(cola_blocked), "io", Head(cola_blocked))
         /\ PasarASuspendedReady =>
           io.pcb \in LugaresDelKernel["io"] /\ MudaDelKernel("io", io.pcb, "suspended_ready", io.pcb)
         /\ PasarAReady =>
           io.pcb \in LugaresDelKernel["io"] /\ MudaDelKernel("io", io.pcb, "ready", io.pcb)
         /\ \A p \in Procesos : RecibirProceso(p) => EntraDelKernel("new", PCBNuevo(p))
<1>1. ASSUME SacarDeNew /\ cola_new # <<>>
      PROVE  /\ Head(cola_new) \in LugaresDelKernel["new"]
             /\ MudaDelKernel("new", Head(cola_new), "lp", Head(cola_new))
  <2>1. /\ Head(cola_new) # NULO /\ Head(cola_new) \in Range(cola_new)
        /\ Range(cola_new') = Range(cola_new) \ {Head(cola_new)}
    BY <1>1, Pop DEF SacarDeNew
  <2>2. lp.pcb = NULO /\ lp'.pcb = Head(cola_new)
    BY <1>1, <2>1 DEF SacarDeNew, En, KernelTypeOK, TipoLp, LpConPCB
  <2>3. UNCHANGED <<cola_ready, cola_blocked, cola_suspended_ready, dispatch, syscalls,
                    io, sc>>
    BY <1>1 DEF SacarDeNew, cpu_vars, colas
  <2> QED
    BY <2>1, <2>2, <2>3 DEF MudaDelKernel, EntraDelKernel,
       SaleDelKernel, Solo, LugaresDelKernel, NombresDelKernel
<1>2. ASSUME SacarDeSuspendedReady /\ cola_suspended_ready # <<>>
      PROVE  Head(cola_suspended_ready) \in LugaresDelKernel["suspended_ready"]
           /\ MudaDelKernel("suspended_ready", Head(cola_suspended_ready), "lp", Head(cola_suspended_ready))
  <2>1. /\ Head(cola_suspended_ready) # NULO
        /\ Head(cola_suspended_ready) \in Range(cola_suspended_ready)
        /\ Range(cola_suspended_ready') = Range(cola_suspended_ready) \ {Head(cola_suspended_ready)}
    BY <1>2, Pop DEF SacarDeSuspendedReady
  <2>2. lp.pcb = NULO /\ lp'.pcb = Head(cola_suspended_ready)
    BY <1>2, <2>1 DEF SacarDeSuspendedReady, En, KernelTypeOK, TipoLp, LpConPCB
  <2>3. UNCHANGED <<cola_new, cola_ready, cola_blocked, dispatch, syscalls, io, sc>>
    BY <1>2 DEF SacarDeSuspendedReady, cpu_vars, colas
  <2> QED
    BY <2>1, <2>2, <2>3 DEF MudaDelKernel, EntraDelKernel,
       SaleDelKernel, Solo, LugaresDelKernel, NombresDelKernel
<1>3. ASSUME RecibirTablas
      PROVE  /\ lp.pcb \in LugaresDelKernel["lp"]
             /\ lp'.pcb.id = lp.pcb.id
             /\ lp'.pcb.pc = lp.pcb.pc /\ MudaDelKernel("lp", lp.pcb, "lp", lp'.pcb)
  <2>1. lp.pcb \in PCB /\ lp.pcb # NULO
    BY <1>3, NuloAssumption DEF RecibirTablas, KernelTypeOK, TipoLp, LpConPCB,
       NuloAssumption
  <2>2. Head(respuestas) \in Pedidos
    BY <1>3, ColaPop DEF RecibirTablas, KernelTypeOK, TipoSockets
  <2>3. lp'.pcb \in PCB /\ lp'.pcb.id = lp.pcb.id /\ lp'.pcb.pc = lp.pcb.pc
    BY <1>3, <2>1, <2>2 DEF RecibirTablas, PCB, En, Pedidos
  <2>4. lp'.pcb # NULO
    BY <2>3, NuloAssumption DEF NuloAssumption
  <2>5. UNCHANGED <<cola_new, cola_ready, cola_blocked, cola_suspended_ready, dispatch,
                    syscalls, io, sc>>
    BY <1>3 DEF RecibirTablas, cpu_vars, colas
  <2> QED
    BY <2>1, <2>3, <2>4, <2>5 DEF MudaDelKernel, EntraDelKernel,
       SaleDelKernel, Solo, LugaresDelKernel, NombresDelKernel
<1>4. ASSUME EncolarReady
      PROVE  /\ lp.pcb \in LugaresDelKernel["lp"]
             /\ MudaDelKernel("lp", lp.pcb, "ready", lp.pcb)
  <2>1. lp.pcb \in PCB /\ lp.pcb # NULO /\ lp'.pcb = NULO
    BY <1>4, NuloAssumption DEF EncolarReady, En, KernelTypeOK, TipoLp, LpConPCB,
       NuloAssumption
  <2>2. Range(cola_ready') = Range(cola_ready) \cup {lp.pcb}
    BY <1>4, <2>1, Push DEF EncolarReady
  <2>3. UNCHANGED <<cola_new, cola_blocked, cola_suspended_ready, dispatch, syscalls,
                    io, sc>>
    BY <1>4 DEF EncolarReady, cpu_vars, colas
  <2> QED
    BY <2>1, <2>2, <2>3 DEF MudaDelKernel, EntraDelKernel,
       SaleDelKernel, Solo, LugaresDelKernel, NombresDelKernel
<1>5. ASSUME RecibirSyscall
      PROVE  /\ Head(syscalls).pcb \in LugaresDelKernel["syscalls"]
             /\ MudaDelKernel("syscalls", Head(syscalls).pcb, "sc", Head(syscalls).pcb)
  <2>1. /\ syscalls \in Seq(Syscalls) /\ syscalls # <<>> /\ Head(syscalls) \in Syscalls
        /\ Tail(syscalls) \in Seq(Syscalls)
    BY <1>5, ColaPop DEF RecibirSyscall, KernelTypeOK, TipoCpu
  <2>2. /\ Head(syscalls).pcb \in {m.pcb : m \in Range(syscalls)}
        /\ {m.pcb : m \in Range(syscalls')} = {m.pcb : m \in Range(syscalls)} \ {Head(syscalls).pcb}
    <3>1. Distintos(PCBsDe(syscalls))
      BY <2>1, ColaDePCBs DEF SyscallsDistintas
    <3>2. /\ PCBsDe(syscalls) \in Seq(PCB) /\ PCBsDe(syscalls) # <<>>
          /\ Head(PCBsDe(syscalls)) = Head(syscalls).pcb
          /\ Tail(PCBsDe(syscalls)) = PCBsDe(Tail(syscalls))
          /\ Range(PCBsDe(syscalls)) = {m.pcb : m \in Range(syscalls)}
          /\ Range(PCBsDe(Tail(syscalls))) = {m.pcb : m \in Range(Tail(syscalls))}
      BY <2>1, ColaDePCBs
    <3>3. /\ Head(PCBsDe(syscalls)) \in Range(PCBsDe(syscalls))
          /\ Range(Tail(PCBsDe(syscalls))) = Range(PCBsDe(syscalls)) \ {Head(PCBsDe(syscalls))}
      BY <3>1, <3>2, RangoPop
    <3>4. syscalls' = Tail(syscalls)
      BY <1>5 DEF RecibirSyscall
    <3> QED
      BY <3>2, <3>3, <3>4
  <2>4. sc.en \notin ScDuenio /\ sc'.en \in ScDuenio /\ sc'.pcb = Head(syscalls).pcb
    BY <1>5 DEF RecibirSyscall, En, ScDuenio
  <2>5. UNCHANGED <<cola_new, cola_ready, cola_blocked, cola_suspended_ready, dispatch,
                    lp, io>>
    BY <1>5 DEF RecibirSyscall, cpu_vars, colas
  <2> QED
    BY <2>2, <2>4, <2>5 DEF MudaDelKernel, EntraDelKernel,
       SaleDelKernel, Solo, LugaresDelKernel, NombresDelKernel
<1>6. ASSUME EnlazarBloqueado /\ cola_blocked' = Append(cola_blocked, sc.pcb)
      PROVE  /\ sc.pcb \in LugaresDelKernel["sc"]
             /\ MudaDelKernel("sc", sc.pcb, "blocked", sc.pcb)
  <2>1. sc.pcb \in PCB /\ sc.en \in ScDuenio /\ sc'.en \notin ScDuenio
    BY <1>6 DEF EnlazarBloqueado, KernelTypeOK, TipoSc, ScConPCB, ScDuenio
  <2>2. Range(cola_blocked') = Range(cola_blocked) \cup {sc.pcb}
    BY <1>6, <2>1, Push DEF EnlazarBloqueado
  <2>3. UNCHANGED <<cola_new, cola_ready, cola_suspended_ready, dispatch, syscalls, lp, io>>
    BY <1>6 DEF EnlazarBloqueado, cpu_vars, colas
  <2> QED
    BY <2>1, <2>2, <2>3 DEF MudaDelKernel, EntraDelKernel,
       SaleDelKernel, Solo, LugaresDelKernel, NombresDelKernel
<1>7. ASSUME EnlazarBloqueado /\ cola_blocked' = cola_blocked
      PROVE  /\ sc.pcb \in LugaresDelKernel["sc"]
             /\ SaleDelKernel("sc", sc.pcb)
  <2>1. sc.en \in ScDuenio /\ sc'.en \notin ScDuenio
    BY <1>7 DEF EnlazarBloqueado, KernelTypeOK, TipoSc, ScConPCB, ScDuenio
  <2>2. UNCHANGED <<cola_new, cola_ready, cola_blocked, cola_suspended_ready, dispatch,
                    syscalls, lp, io>>
    BY <1>7 DEF EnlazarBloqueado, cpu_vars, colas
  <2> QED
    BY <2>1, <2>2 DEF MudaDelKernel, EntraDelKernel,
       SaleDelKernel, Solo, LugaresDelKernel, NombresDelKernel
<1>8. ASSUME ResponderConsola
      PROVE  /\ sc.pcb \in LugaresDelKernel["sc"]
             /\ SaleDelKernel("sc", sc.pcb)
  <2>1. sc.en \in ScDuenio /\ sc'.en \notin ScDuenio
    BY <1>8 DEF ResponderConsola, KernelTypeOK, TipoSc, ScConPCB, ScDuenio
  <2>2. UNCHANGED <<cola_new, cola_ready, cola_blocked, cola_suspended_ready, dispatch,
                    syscalls, lp, io>>
    BY <1>8 DEF ResponderConsola, cpu_vars, colas
  <2> QED
    BY <2>1, <2>2 DEF MudaDelKernel, EntraDelKernel,
       SaleDelKernel, Solo, LugaresDelKernel, NombresDelKernel
<1>9. ASSUME TomarBloqueado /\ ~cola_rota /\ cola_blocked # <<>>
      PROVE  Head(cola_blocked) \in LugaresDelKernel["blocked"]
           /\ MudaDelKernel("blocked", Head(cola_blocked), "io", Head(cola_blocked))
  <2>1. /\ Head(cola_blocked) # NULO /\ Head(cola_blocked) \in Range(cola_blocked)
        /\ Range(cola_blocked') = Range(cola_blocked) \ {Head(cola_blocked)}
    BY <1>9, Pop DEF TomarBloqueado
  <2>2. io.pcb = NULO /\ io'.pcb = Head(cola_blocked)
    BY <1>9, <2>1 DEF TomarBloqueado, En, KernelTypeOK, TipoIo, IoConPCB
  <2>3. UNCHANGED <<cola_new, cola_ready, cola_suspended_ready, dispatch, syscalls, lp, sc>>
    BY <1>9 DEF TomarBloqueado, cpu_vars, colas
  <2> QED
    BY <2>1, <2>2, <2>3 DEF MudaDelKernel, EntraDelKernel,
       SaleDelKernel, Solo, LugaresDelKernel, NombresDelKernel
<1>10. ASSUME PasarASuspendedReady
       PROVE  /\ io.pcb \in LugaresDelKernel["io"]
              /\ MudaDelKernel("io", io.pcb, "suspended_ready", io.pcb)
  <2>1. io.pcb \in PCB /\ io.pcb # NULO /\ io'.pcb = NULO
    BY <1>10, NuloAssumption DEF PasarASuspendedReady, En, KernelTypeOK, TipoIo,
       IoConPCB, NuloAssumption
  <2>2. Range(cola_suspended_ready') = Range(cola_suspended_ready) \cup {io.pcb}
    BY <1>10, <2>1, Push DEF PasarASuspendedReady
  <2>3. UNCHANGED <<cola_new, cola_ready, cola_blocked, dispatch, syscalls, lp, sc>>
    BY <1>10 DEF PasarASuspendedReady, cpu_vars, colas
  <2> QED
    BY <2>1, <2>2, <2>3 DEF MudaDelKernel, EntraDelKernel,
       SaleDelKernel, Solo, LugaresDelKernel, NombresDelKernel
<1>11. ASSUME PasarAReady
       PROVE  /\ io.pcb \in LugaresDelKernel["io"]
              /\ MudaDelKernel("io", io.pcb, "ready", io.pcb)
  <2>1. io.pcb \in PCB /\ io.pcb # NULO /\ io'.pcb = NULO
    BY <1>11, NuloAssumption DEF PasarAReady, En, KernelTypeOK, TipoIo, IoConPCB,
       NuloAssumption
  <2>2. Range(cola_ready') = Range(cola_ready) \cup {io.pcb}
    BY <1>11, <2>1, Push DEF PasarAReady
  <2>3. UNCHANGED <<cola_new, cola_blocked, cola_suspended_ready, dispatch, syscalls,
                    lp, sc>>
    BY <1>11 DEF PasarAReady, cpu_vars, colas
  <2> QED
    BY <2>1, <2>2, <2>3 DEF MudaDelKernel, EntraDelKernel,
       SaleDelKernel, Solo, LugaresDelKernel, NombresDelKernel
<1>12. ASSUME NEW p \in Procesos, RecibirProceso(p)
       PROVE  EntraDelKernel("new", PCBNuevo(p))
  <2>1. PCBNuevo(p) \in PCB
    BY <1>12, KernelAssumption DEF PCBNuevo, PCB, KernelAssumption
  <2>2. Range(cola_new') = Range(cola_new) \cup {PCBNuevo(p)}
    BY <1>12, <2>1, Push DEF RecibirProceso, PCBNuevo
  <2>3. UNCHANGED <<cola_ready, cola_blocked, cola_suspended_ready, dispatch, syscalls,
                    lp, io, sc>>
    BY <1>12 DEF RecibirProceso, cpu_vars, colas
  <2> QED
    BY <2>1, <2>2, <2>3 DEF MudaDelKernel, EntraDelKernel,
       SaleDelKernel, Solo, LugaresDelKernel, NombresDelKernel
<1> QED
  BY <1>1, <1>2, <1>3, <1>4, <1>5, <1>6, <1>7, <1>8, <1>9, <1>10, <1>11, <1>12

\* The other steps take nobody anywhere.
LEMMA QuietosDelKernel ==
  ASSUME KernelTypeOK
  PROVE  /\ ( \/ AvisarNew \/ EsperarProceso \/ TomarGrado \/ PedirTablas
                               \/ AvisarReady \/ BuscarUltimo \/ CrearSuspensor \/ AvisarIO
                               \/ LiberarGrado \/ PedirFin \/ RecibirFin \/ TerminarIO
                               \/ LiberarGradoSuspendido \/ AvisarSuspendedReady
                               \/ AvisarReadyIO \/ SoltarSuspendiendo \/ AtenderPedido
                               \/ \E b \in Bloqueos : Suspensor(b) ) => QuietoDelKernel
         /\ UNCHANGED <<colas, cpu_vars, lp, io, sc>> => QuietoDelKernel
         /\ SacarDeNew /\ cola_new = <<>> => QuietoDelKernel
         /\ SacarDeSuspendedReady /\ cola_suspended_ready = <<>> => QuietoDelKernel
         /\ TomarBloqueado /\ ~caido /\ caido' => QuietoDelKernel
<1>q. ASSUME UNCHANGED <<colas, cpu_vars>>, lp'.pcb = lp.pcb, io'.pcb = io.pcb,
             sc'.pcb = sc.pcb /\ (sc'.en \in ScDuenio <=> sc.en \in ScDuenio)
      PROVE  QuietoDelKernel
  BY <1>q DEF QuietoDelKernel, LugaresDelKernel, NombresDelKernel, colas, cpu_vars
<1> USE DEF En
<1>lp. ASSUME EsperarProceso \/ TomarGrado \/ PedirTablas \/ AvisarReady
       PROVE  QuietoDelKernel
  <2>1. UNCHANGED <<colas, cpu_vars, io, sc>>
    BY <1>lp DEF EsperarProceso, TomarGrado, PedirTablas, AvisarReady
  <2>2. lp'.pcb = lp.pcb
    BY <1>lp DEF EsperarProceso, TomarGrado, PedirTablas, AvisarReady, KernelTypeOK,
       TipoLp, LpConPCB
  <2> QED
    BY <2>1, <2>2, <1>q
<1>sc. ASSUME BuscarUltimo \/ CrearSuspensor \/ AvisarIO \/ LiberarGrado
                              \/ PedirFin \/ RecibirFin
       PROVE  QuietoDelKernel
  <2>1. UNCHANGED <<colas, cpu_vars, lp, io>>
    BY <1>sc DEF BuscarUltimo, CrearSuspensor, AvisarIO, LiberarGrado, PedirFin, RecibirFin
  <2>2. sc'.pcb = sc.pcb /\ (sc'.en \in ScDuenio <=> sc.en \in ScDuenio)
    BY <1>sc DEF BuscarUltimo, CrearSuspensor, AvisarIO, LiberarGrado, PedirFin, RecibirFin,
       ScDuenio, KernelTypeOK, TipoSc
  <2> QED
    BY <2>1, <2>2, <1>q
<1>io. ASSUME TerminarIO \/ LiberarGradoSuspendido \/ AvisarSuspendedReady
                              \/ AvisarReadyIO \/ SoltarSuspendiendo
                              \/ (TomarBloqueado /\ ~caido /\ caido')
       PROVE  QuietoDelKernel
  <2>1. UNCHANGED <<colas, cpu_vars, lp, sc>>
    BY <1>io DEF TerminarIO, LiberarGradoSuspendido, AvisarSuspendedReady, AvisarReadyIO,
       SoltarSuspendiendo, TomarBloqueado, colas
  <2>2. io'.pcb = io.pcb
    BY <1>io DEF TerminarIO, LiberarGradoSuspendido, AvisarSuspendedReady, AvisarReadyIO,
       SoltarSuspendiendo, TomarBloqueado, KernelTypeOK, TipoIo, IoConPCB
  <2> QED
    BY <2>1, <2>2, <1>q
<1>susp. ASSUME \/ AvisarNew \/ AtenderPedido \/ \E b \in Bloqueos : Suspensor(b)
                \/ SacarDeNew /\ cola_new = <<>>
                \/ SacarDeSuspendedReady /\ cola_suspended_ready = <<>>
         PROVE  QuietoDelKernel
  <2>1. UNCHANGED <<colas, cpu_vars, lp, io, sc>>
    BY <1>susp DEF AvisarNew, AtenderPedido, Suspensor, Despertar, Cancelar,
       TomarSuspendiendo, PedirSuspension, RecibirSuspension, SacarDeNew,
       SacarDeSuspendedReady, colas, cpu_vars
  <2> QED
    BY <2>1, <1>q
<1>nada. ASSUME UNCHANGED <<colas, cpu_vars, lp, io, sc>> PROVE QuietoDelKernel
  BY <1>nada, <1>q
<1> QED
  BY <1>lp, <1>sc, <1>io, <1>susp, <1>nada

\* What a step may do to the places.
TrasladadoDelKernel == \E a, b \in NombresDelKernel : \E x \in LugaresDelKernel[a] : \E y \in PCB :
  /\ y.id = x.id /\ y.pc >= x.pc /\ MudaDelKernel(a, x, b, y)
  /\ a \in {"blocked", "io"} => TomarBloqueado \/ PasarASuspendedReady \/ PasarAReady

\* Every step moves one PCB, or leaves all of them where they are, or is one of the
\* three that bring a process in, answer its console or lose its PCB to the race.
LEMMA ClasesDelKernel ==
  ASSUME KernelTypeOK, SinRepetidos, SyscallsDistintas, ~caido, DelKernel
  PROVE  \/ TrasladadoDelKernel /\ UNCHANGED <<consola, cola_rota>>
         \/ QuietoDelKernel /\ UNCHANGED <<consola, cola_rota>>
         \/ \E p \in Procesos : RecibirProceso(p)
         \/ ResponderConsola
         \/ EnlazarBloqueado /\ cola_blocked' = cola_blocked
<1> DEFINE Meta == \/ TrasladadoDelKernel /\ UNCHANGED <<consola, cola_rota>>
                   \/ QuietoDelKernel /\ UNCHANGED <<consola, cola_rota>>
<1>t. ASSUME NEW a \in NombresDelKernel, NEW b \in NombresDelKernel, NEW x \in LugaresDelKernel[a], NEW y,
             y = x \/ (y \in PCB /\ y.id = x.id /\ y.pc >= x.pc), MudaDelKernel(a, x, b, y),
             a \in {"blocked", "io"} => TomarBloqueado \/ PasarASuspendedReady \/ PasarAReady
      PROVE  TrasladadoDelKernel
  <2>1. y \in PCB /\ y.id = x.id /\ y.pc >= x.pc
    BY <1>t, LugaresDelKernelTipo, KernelAssumption DEF PCB, KernelAssumption
  <2> QED
    BY <1>t, <2>1 DEF TrasladadoDelKernel
<1> HIDE DEF Meta
<1>n. /\ "new" \in NombresDelKernel /\ "ready" \in NombresDelKernel /\ "blocked" \in NombresDelKernel
      /\ "suspended_ready" \in NombresDelKernel /\ "dispatch" \in NombresDelKernel /\ "syscalls" \in NombresDelKernel
      /\ "lp" \in NombresDelKernel /\ "io" \in NombresDelKernel /\ "sc" \in NombresDelKernel
  BY DEF NombresDelKernel
<1>1. CASE SacarDeNew
  <2>1. UNCHANGED <<consola, cola_rota>>
    BY <1>1 DEF SacarDeNew, sockets, carrera
  <2>2. TrasladadoDelKernel \/ QuietoDelKernel
    BY <1>1, <1>t, <1>n, TrasladosDelKernel, QuietosDelKernel
  <2> QED
    BY <2>1, <2>2 DEF Meta
<1>2. CASE SacarDeSuspendedReady
  <2>1. UNCHANGED <<consola, cola_rota>>
    BY <1>2 DEF SacarDeSuspendedReady, sockets, carrera
  <2>2. TrasladadoDelKernel \/ QuietoDelKernel
    BY <1>2, <1>t, <1>n, TrasladosDelKernel, QuietosDelKernel
  <2> QED
    BY <2>1, <2>2 DEF Meta
<1>3. CASE RecibirTablas
  <2>1. UNCHANGED <<consola, cola_rota>>
    BY <1>3 DEF RecibirTablas, carrera
  <2>2. lp'.en = "encolar"
    BY <1>3 DEF RecibirTablas, En
  <2>3. lp'.pcb \in PCB
    BY <2>2, DelKernelTypeOK DEF KernelTypeOK, TipoLp, LpConPCB
  <2>4. lp'.pcb.pc = lp.pcb.pc /\ lp.pcb \in PCB
    BY <1>3, TrasladosDelKernel DEF RecibirTablas, KernelTypeOK, TipoLp, LpConPCB
  <2>5. lp'.pcb.pc >= lp.pcb.pc
    BY <2>4, KernelAssumption DEF PCB, KernelAssumption
  <2>6. TrasladadoDelKernel
    BY <1>3, <1>t, <1>n, <2>3, <2>5, TrasladosDelKernel
  <2> QED
    BY <2>1, <2>6 DEF Meta
<1>4. CASE EncolarReady
  <2>1. UNCHANGED <<consola, cola_rota>>
    BY <1>4 DEF EncolarReady, sockets, carrera
  <2>2. TrasladadoDelKernel \/ QuietoDelKernel
    BY <1>4, <1>t, <1>n, TrasladosDelKernel
  <2> QED
    BY <2>1, <2>2 DEF Meta
<1>5. CASE RecibirSyscall
  <2>1. UNCHANGED <<consola, cola_rota>>
    BY <1>5 DEF RecibirSyscall, sockets, carrera
  <2>2. TrasladadoDelKernel \/ QuietoDelKernel
    BY <1>5, <1>t, <1>n, TrasladosDelKernel
  <2> QED
    BY <2>1, <2>2 DEF Meta
<1>6. CASE TomarBloqueado
  <2>1. UNCHANGED <<consola, cola_rota>>
    BY <1>6 DEF TomarBloqueado, sockets, carrera
  <2>2. TrasladadoDelKernel \/ QuietoDelKernel
    BY <1>6, <1>t, <1>n, TrasladosDelKernel, QuietosDelKernel DEF TomarBloqueado
  <2> QED
    BY <2>1, <2>2 DEF Meta
<1>7. CASE PasarASuspendedReady
  <2>1. UNCHANGED <<consola, cola_rota>>
    BY <1>7 DEF PasarASuspendedReady, sockets, carrera
  <2>2. TrasladadoDelKernel \/ QuietoDelKernel
    BY <1>7, <1>t, <1>n, TrasladosDelKernel
  <2> QED
    BY <2>1, <2>2 DEF Meta
<1>8. CASE PasarAReady
  <2>1. UNCHANGED <<consola, cola_rota>>
    BY <1>8 DEF PasarAReady, sockets, carrera
  <2>2. TrasladadoDelKernel \/ QuietoDelKernel
    BY <1>8, <1>t, <1>n, TrasladosDelKernel
  <2> QED
    BY <2>1, <2>2 DEF Meta
<1>9. CASE EnlazarBloqueado /\ cola_blocked' # cola_blocked
  <2>1. cola_blocked' = Append(cola_blocked, sc.pcb) /\ UNCHANGED <<consola, cola_rota>>
    BY <1>9 DEF EnlazarBloqueado, sockets
  <2>2. TrasladadoDelKernel
    BY <1>9, <1>t, <1>n, <2>1, TrasladosDelKernel
  <2> QED
    BY <2>1, <2>2 DEF Meta
<1>10. CASE \/ (AvisarNew \/ EsperarProceso \/ TomarGrado \/ PedirTablas
                              \/ AvisarReady \/ BuscarUltimo \/ CrearSuspensor \/
                              AvisarIO \/ LiberarGrado \/ PedirFin \/ RecibirFin \/
                              TerminarIO \/ LiberarGradoSuspendido \/
                              AvisarSuspendedReady \/ AvisarReadyIO \/
                              SoltarSuspendiendo \/ AtenderPedido
                              \/ \E b \in Bloqueos : Suspensor(b))
  <2>1. UNCHANGED <<consola, cola_rota>>
    BY <1>10 DEF AvisarNew, EsperarProceso, TomarGrado, PedirTablas, AvisarReady, BuscarUltimo,
       CrearSuspensor, AvisarIO, LiberarGrado, PedirFin, RecibirFin, TerminarIO,
       LiberarGradoSuspendido, AvisarSuspendedReady, AvisarReadyIO,
       SoltarSuspendiendo, AtenderPedido, Suspensor, Despertar, Cancelar, TomarSuspendiendo, PedirSuspension,
       RecibirSuspension, sockets, carrera
  <2>2. QuietoDelKernel
    BY <1>10, QuietosDelKernel
  <2> QED
    BY <2>1, <2>2 DEF Meta
<1> QED
  BY <1>1, <1>2, <1>3, <1>4, <1>5, <1>6, <1>7, <1>8, <1>9, <1>10
     DEF Meta, DelKernel, HiloRecibirProcesos, HiloPasarAReady, HiloSyscall, HiloIO

\* Of the threads of the kernel only esperar_syscall touches the sockets of the
\* CPU: it takes the first message.
LEMMA SocketDeSyscalls ==
  ASSUME DelKernel
  PROVE  UNCHANGED dispatch /\ (RecibirSyscall \/ UNCHANGED syscalls)
<1>1. CASE HiloRecibirProcesos \/ HiloPasarAReady
  BY <1>1 DEF HiloRecibirProcesos, RecibirProceso, AvisarNew, HiloPasarAReady,
     EsperarProceso, TomarGrado, SacarDeNew, SacarDeSuspendedReady, PedirTablas,
     RecibirTablas, EncolarReady, AvisarReady, cpu_vars
<1>2. CASE HiloSyscall
  BY <1>2 DEF HiloSyscall, RecibirSyscall, BuscarUltimo, EnlazarBloqueado, CrearSuspensor,
     AvisarIO, LiberarGrado, PedirFin, RecibirFin, ResponderConsola, cpu_vars
<1>3. CASE HiloIO
  BY <1>3 DEF HiloIO, TomarBloqueado, TerminarIO, PasarASuspendedReady,
     LiberarGradoSuspendido, AvisarSuspendedReady, PasarAReady, AvisarReadyIO,
     SoltarSuspendiendo, cpu_vars
<1>4. CASE AtenderPedido \/ \E b \in Bloqueos : Suspensor(b)
  BY <1>4 DEF AtenderPedido, Suspensor, Despertar, Cancelar, TomarSuspendiendo,
     PedirSuspension, RecibirSuspension, cpu_vars
<1> QED
  BY <1>1, <1>2, <1>3, <1>4 DEF DelKernel

\* A push brings a process that was somewhere else.
LEMMA SinRepetidosDelKernel ==
  ASSUME KernelTypeOK, SinRepetidos, SyscallsDistintas, DelKernel,
         \A l, m \in NombresDelKernel :
           \A x \in LugaresDelKernel[l], y \in LugaresDelKernel[m] : x.id = y.id => l = m,
         \A l \in NombresDelKernel : \A x \in LugaresDelKernel[l] :
           consola[x.id] = "esperando"
  PROVE  SinRepetidos' /\ SyscallsDistintas'
<1>0. ASSUME NEW a \in NombresDelKernel, NEW b \in NombresDelKernel, a # b, NEW x \in LugaresDelKernel[a]
      PROVE  \A y \in LugaresDelKernel[b] : y.id # x.id
  BY <1>0
<1>n. /\ "new" \in NombresDelKernel /\ "ready" \in NombresDelKernel /\ "blocked" \in NombresDelKernel
      /\ "suspended_ready" \in NombresDelKernel /\ "dispatch" \in NombresDelKernel
      /\ "lp" \in NombresDelKernel /\ "io" \in NombresDelKernel /\ "sc" \in NombresDelKernel
  BY DEF NombresDelKernel
<1>l. /\ LugaresDelKernel["new"] = Range(cola_new) /\ LugaresDelKernel["ready"] = Range(cola_ready)
      /\ LugaresDelKernel["blocked"] = Range(cola_blocked) /\ LugaresDelKernel["dispatch"] = Range(dispatch)
      /\ LugaresDelKernel["suspended_ready"] = Range(cola_suspended_ready)
  BY DEF LugaresDelKernel
<1>p. ASSUME NEW l \in NombresDelKernel, NEW x \in LugaresDelKernel[l] PROVE x \in PCB
  BY <1>p, LugaresDelKernelTipo
<1>1. ASSUME SacarDeNew PROVE SinRepetidos'
  BY <1>1, Pop DEF SacarDeNew, SinRepetidos, colas, cpu_vars
<1>2. ASSUME SacarDeSuspendedReady PROVE SinRepetidos'
  BY <1>2, Pop DEF SacarDeSuspendedReady, SinRepetidos, colas, cpu_vars
<1>3. ASSUME TomarBloqueado PROVE SinRepetidos'
  BY <1>3, Pop DEF TomarBloqueado, SinRepetidos, colas, cpu_vars
<1>5. ASSUME EncolarReady PROVE SinRepetidos'
  <2>1. lp.pcb \in LugaresDelKernel["lp"]
    BY <1>5, TrasladosDelKernel
  <2>2. \A y \in Range(cola_ready) : y.id # lp.pcb.id
    BY <2>1, <1>0, <1>n, <1>l
  <2>3. Distintos(Append(cola_ready, lp.pcb))
    BY <2>1, <2>2, <1>p, <1>n, Push
  <2> QED
    BY <1>5, <2>3, Pop DEF EncolarReady, SinRepetidos, colas, cpu_vars
<1>6. ASSUME PasarASuspendedReady PROVE SinRepetidos'
  <2>1. io.pcb \in LugaresDelKernel["io"]
    BY <1>6, TrasladosDelKernel
  <2>2. \A y \in Range(cola_suspended_ready) : y.id # io.pcb.id
    BY <2>1, <1>0, <1>n, <1>l
  <2>3. Distintos(Append(cola_suspended_ready, io.pcb))
    BY <2>1, <2>2, <1>p, <1>n, Push
  <2> QED
    BY <1>6, <2>3, Pop DEF PasarASuspendedReady, SinRepetidos, colas, cpu_vars
<1>7. ASSUME PasarAReady PROVE SinRepetidos'
  <2>1. io.pcb \in LugaresDelKernel["io"]
    BY <1>7, TrasladosDelKernel
  <2>2. \A y \in Range(cola_ready) : y.id # io.pcb.id
    BY <2>1, <1>0, <1>n, <1>l
  <2>3. Distintos(Append(cola_ready, io.pcb))
    BY <2>1, <2>2, <1>p, <1>n, Push
  <2> QED
    BY <1>7, <2>3, Pop DEF PasarAReady, SinRepetidos, colas, cpu_vars
<1>4. ASSUME NEW p \in Procesos, RecibirProceso(p) PROVE SinRepetidos'
  <2>1. PCBNuevo(p) \in PCB /\ PCBNuevo(p).id = p
    BY KernelAssumption DEF PCBNuevo, PCB, KernelAssumption
  <2>3. \A y \in Range(cola_new) : y.id # p
    BY <1>4, <1>n, <1>l DEF RecibirProceso
  <2>4. Distintos(Append(cola_new, PCBNuevo(p)))
    BY <2>1, <2>3, Push
  <2> QED
    BY <1>4, <2>4 DEF RecibirProceso, PCBNuevo, SinRepetidos, cpu_vars
<1>8. ASSUME EnlazarBloqueado PROVE SinRepetidos'
  <2>1. ASSUME cola_blocked' # cola_blocked PROVE Distintos(cola_blocked')
    <3>1. cola_blocked' = Append(cola_blocked, sc.pcb)
      BY <1>8, <2>1 DEF EnlazarBloqueado
    <3>2. sc.pcb \in LugaresDelKernel["sc"]
      BY <1>8, <3>1, TrasladosDelKernel
    <3>3. \A y \in Range(cola_blocked) : y.id # sc.pcb.id
      BY <3>2, <1>0, <1>n, <1>l
    <3> QED
      BY <3>1, <3>2, <3>3, <1>p, <1>n, Push
  <2> QED
    BY <1>8, <2>1 DEF EnlazarBloqueado, SinRepetidos, cpu_vars
<1>9. ASSUME \/ AvisarNew \/ EsperarProceso \/ TomarGrado \/ PedirTablas \/ RecibirTablas
             \/ AvisarReady \/ RecibirSyscall \/ BuscarUltimo \/ CrearSuspensor \/ AvisarIO
             \/ LiberarGrado \/ PedirFin \/ RecibirFin \/ ResponderConsola \/ TerminarIO
             \/ LiberarGradoSuspendido \/ AvisarSuspendedReady \/ AvisarReadyIO
             \/ SoltarSuspendiendo \/ AtenderPedido
             \/ \E b \in Bloqueos : Suspensor(b)
      PROVE  SinRepetidos'
  <2>1. UNCHANGED <<colas, dispatch>>
    BY <1>9 DEF AvisarNew, EsperarProceso, TomarGrado, PedirTablas, RecibirTablas, AvisarReady,
       RecibirSyscall, BuscarUltimo, CrearSuspensor, AvisarIO, LiberarGrado, PedirFin,
       RecibirFin, ResponderConsola, TerminarIO, LiberarGradoSuspendido,
       AvisarSuspendedReady, AvisarReadyIO, SoltarSuspendiendo, AtenderPedido,
       Suspensor, Despertar, Cancelar, TomarSuspendiendo, PedirSuspension, RecibirSuspension,
       colas, cpu_vars
  <2> QED
    BY <2>1 DEF SinRepetidos, colas
<1>10. SinRepetidos'
  BY <1>1, <1>2, <1>3, <1>4, <1>5, <1>6, <1>7, <1>8, <1>9
     DEF DelKernel, HiloRecibirProcesos, HiloPasarAReady, HiloSyscall, HiloIO
<1>11. SyscallsDistintas'
  <2>1. CASE UNCHANGED syscalls
    BY <2>1 DEF SyscallsDistintas
  <2>2. CASE RecibirSyscall
    <3>1. /\ syscalls \in Seq(Syscalls) /\ syscalls # <<>>
          /\ syscalls' = Tail(syscalls) /\ Tail(syscalls) \in Seq(Syscalls)
      BY <2>2, ColaPop DEF RecibirSyscall, KernelTypeOK, TipoCpu
    <3>2. Distintos(PCBsDe(syscalls)) /\ PCBsDe(syscalls) \in Seq(PCB)
          /\ PCBsDe(syscalls) # <<>> /\ Tail(PCBsDe(syscalls)) = PCBsDe(Tail(syscalls))
      BY <3>1, ColaDePCBs DEF SyscallsDistintas
    <3>3. Distintos(PCBsDe(Tail(syscalls)))
      BY <3>2, RangoPop
    <3> QED
      BY <3>1, <3>3, ColaDePCBs DEF SyscallsDistintas
  <2> QED
    BY <2>1, <2>2, SocketDeSyscalls
<1> QED
  BY <1>10, <1>11

-----------------------------------------------------------------------------
\* Which thread of the kernel changes what

\* Each variable is changed by the steps named here only.
MarcoDelKernel ==
  /\ consola' = consola \/ (\E p \in Procesos : RecibirProceso(p)) \/ ResponderConsola
  /\ memoria' = memoria \/ AtenderPedido
  /\ cola_new' = cola_new \/ (\E p \in Procesos : RecibirProceso(p)) \/ SacarDeNew
  /\ cola_blocked' = cola_blocked \/ EnlazarBloqueado \/ TomarBloqueado
  /\ cola_suspended_ready' = cola_suspended_ready \/ SacarDeSuspendedReady
       \/ PasarASuspendedReady
  /\ lp' = lp \/ HiloPasarAReady
  /\ sc' = sc \/ HiloSyscall
  /\ io' = io \/ HiloIO
  /\ susp' = susp \/ CrearSuspensor \/ \E b \in Bloqueos : Suspensor(b)
  /\ cancelado' = cancelado \/ PasarAReady
  /\ esta_suspendido' = esta_suspendido \/ \E b \in Bloqueos : PedirSuspension(b)
  /\ respuestas' = respuestas \/ RecibirTablas \/ RecibirFin \/ AtenderPedido
       \/ \E b \in Bloqueos : RecibirSuspension(b)

\* Each step is a step of one thread, and changes what that thread may.
LEMMA DelKernelMarco == DelKernel => MarcoDelKernel
<1>1. CASE HiloRecibirProcesos
  <2>1. UNCHANGED <<memoria, cola_blocked, cola_suspended_ready, lp, sc, io, susp, cancelado,
                    esta_suspendido, respuestas>>
    BY <1>1 DEF RecibirProceso, AvisarNew, HiloRecibirProcesos, sockets, colas, suspension
  <2>2. /\ consola' = consola \/ \E p \in Procesos : RecibirProceso(p)
        /\ cola_new' = cola_new \/ \E p \in Procesos : RecibirProceso(p)
    BY <1>1 DEF RecibirProceso, AvisarNew, HiloRecibirProcesos, sockets, colas
  <2> QED
    BY <1>1, <2>1, <2>2 DEF MarcoDelKernel
<1>2. CASE HiloPasarAReady
  <2>1. UNCHANGED <<consola, memoria, cola_blocked, sc, io, susp, cancelado, esta_suspendido>>
    BY <1>2 DEF EsperarProceso, TomarGrado, SacarDeNew, SacarDeSuspendedReady, PedirTablas,
       RecibirTablas, EncolarReady, AvisarReady, HiloPasarAReady, sockets, colas, suspension
  <2>2. /\ respuestas' = respuestas \/ RecibirTablas
        /\ cola_new' = cola_new \/ SacarDeNew
        /\ cola_suspended_ready' = cola_suspended_ready \/ SacarDeSuspendedReady
    BY <1>2 DEF EsperarProceso, TomarGrado, PedirTablas, SacarDeNew, SacarDeSuspendedReady,
       RecibirTablas, EncolarReady, AvisarReady, HiloPasarAReady, sockets, colas
  <2> QED
    BY <1>2, <2>1, <2>2 DEF MarcoDelKernel
<1>3. CASE HiloSyscall
  <2>1. UNCHANGED <<memoria, cola_new, cola_suspended_ready, lp, io, cancelado, esta_suspendido>>
    BY <1>3 DEF RecibirSyscall, BuscarUltimo, EnlazarBloqueado, CrearSuspensor, AvisarIO,
       LiberarGrado, PedirFin, RecibirFin, ResponderConsola, HiloSyscall,
       sockets, colas, suspension
  <2>2. /\ consola' = consola \/ ResponderConsola
        /\ susp' = susp \/ CrearSuspensor
        /\ respuestas' = respuestas \/ RecibirFin
    BY <1>3 DEF RecibirSyscall, BuscarUltimo, EnlazarBloqueado, CrearSuspensor, AvisarIO,
       LiberarGrado, PedirFin, RecibirFin, ResponderConsola, HiloSyscall,
       sockets, suspension
  <2>3. cola_blocked' = cola_blocked \/ EnlazarBloqueado
    BY <1>3 DEF RecibirSyscall, BuscarUltimo, CrearSuspensor, AvisarIO, LiberarGrado,
       PedirFin, RecibirFin, ResponderConsola, HiloSyscall, colas
  <2> QED
    BY <1>3, <2>1, <2>2, <2>3 DEF MarcoDelKernel
<1>4. CASE HiloIO
  <2>1. UNCHANGED <<consola, memoria, cola_new, lp, sc, susp, esta_suspendido, respuestas>>
    BY <1>4 DEF TomarBloqueado, TerminarIO, PasarASuspendedReady, LiberarGradoSuspendido,
       AvisarSuspendedReady, PasarAReady, AvisarReadyIO, SoltarSuspendiendo, HiloIO,
       sockets, colas, suspension
  <2>2. /\ cancelado' = cancelado \/ PasarAReady
        /\ cola_blocked' = cola_blocked \/ TomarBloqueado
        /\ cola_suspended_ready' = cola_suspended_ready \/ PasarASuspendedReady
    BY <1>4 DEF TomarBloqueado, TerminarIO, PasarASuspendedReady, LiberarGradoSuspendido,
       AvisarSuspendedReady, PasarAReady, AvisarReadyIO, SoltarSuspendiendo, HiloIO,
       colas, suspension
  <2> QED
    BY <1>4, <2>1, <2>2 DEF MarcoDelKernel
<1>5. CASE \E b \in Bloqueos : Suspensor(b)
  <2>1. UNCHANGED <<consola, memoria, colas, lp, sc, io, cancelado>>
    BY <1>5 DEF Despertar, Cancelar, TomarSuspendiendo, PedirSuspension, RecibirSuspension,
       Suspensor, sockets
  <2>2. /\ esta_suspendido' = esta_suspendido \/ \E b \in Bloqueos : PedirSuspension(b)
        /\ respuestas' = respuestas \/ \E b \in Bloqueos : RecibirSuspension(b)
    BY <1>5 DEF Despertar, Cancelar, TomarSuspendiendo, PedirSuspension, RecibirSuspension,
       Suspensor, sockets
  <2> QED
    BY <1>5, <2>1, <2>2 DEF MarcoDelKernel, colas
<1>6. CASE AtenderPedido
  BY <1>6 DEF AtenderPedido, MarcoDelKernel, colas, suspension
<1> QED
  BY <1>1, <1>2, <1>3, <1>4, <1>5, <1>6 DEF DelKernel

-----------------------------------------------------------------------------
\* How many times a process has been blocked

\* The steps of esperar_syscall up to the creation of a suspensor.
LEMMA PasosDeScDelKernel ==
  ASSUME KernelTypeOK, DelKernel, sc'.en \in {"bloquear", "enlazar", "crear_suspensor"}
  PROVE  \/ RecibirSyscall /\ Head(syscalls).instruccion = "IO" /\ sc'.pcb = Head(syscalls).pcb
         \/ sc'.pcb = sc.pcb /\ sc.en \in {"bloquear", "enlazar", "crear_suspensor"}
<1>1. CASE sc' = sc
  BY <1>1
<1>2. CASE HiloSyscall
  BY <1>2 DEF HiloSyscall, RecibirSyscall, BuscarUltimo, EnlazarBloqueado, CrearSuspensor,
     AvisarIO, LiberarGrado, PedirFin, RecibirFin, ResponderConsola, En, KernelTypeOK, TipoSc
<1> QED
  BY <1>1, <1>2, DelKernelMarco DEF MarcoDelKernel

\* Those of pasar_a_ready with a process that is being admitted.
LEMMA PasosDeLpDelKernel ==
  ASSUME KernelTypeOK, DelKernel, lp'.en \in {"crear", "recibir"}
  PROVE  \/ SacarDeNew /\ cola_new # <<>> /\ lp'.pcb = Head(cola_new)
         \/ lp'.pcb = lp.pcb /\ lp.en \in {"crear", "recibir"}
<1>1. CASE lp' = lp
  BY <1>1
<1>2. CASE HiloPasarAReady
  BY <1>2 DEF HiloPasarAReady, EsperarProceso, TomarGrado, SacarDeNew, SacarDeSuspendedReady,
     PedirTablas, RecibirTablas, EncolarReady, AvisarReady, En, KernelTypeOK, TipoLp
<1> QED
  BY <1>1, <1>2, DelKernelMarco DEF MarcoDelKernel

\* And those of hilo_io with the process whose I/O it is doing.
LEMMA PasosDeIoDelKernel ==
  ASSUME KernelTypeOK, DelKernel, io'.en \in IoConPCB
  PROVE  \/ TomarBloqueado /\ cola_blocked # <<>> /\ io'.pcb = Head(cola_blocked)
         \/ io'.pcb = io.pcb /\ io.en \in IoConPCB
<1>1. CASE io' = io
  BY <1>1
<1>2. CASE HiloIO
  BY <1>2 DEF HiloIO, TomarBloqueado, TerminarIO, PasarASuspendedReady,
     LiberarGradoSuspendido, AvisarSuspendedReady, PasarAReady, AvisarReadyIO,
     SoltarSuspendiendo, En, KernelTypeOK, TipoIo, IoConPCB
<1> QED
  BY <1>1, <1>2, DelKernelMarco DEF MarcoDelKernel

\* What is left in the socket of the system calls was there before.
LEMMA SyscallsQueQuedan ==
  ASSUME KernelTypeOK, DelKernel
  PROVE  /\ Range(syscalls') \subseteq Range(syscalls)
         /\ RecibirSyscall => Head(syscalls) \in Range(syscalls)
<1>1. CASE UNCHANGED syscalls
  <2>1. RecibirSyscall => Head(syscalls) \in Range(syscalls)
    BY RangoPop DEF RecibirSyscall, KernelTypeOK, TipoCpu
  <2> QED
    BY <1>1, <2>1
<1>2. CASE RecibirSyscall
  <2>1. syscalls \in Seq(Syscalls) /\ syscalls # <<>> /\ syscalls' = Tail(syscalls)
    BY <1>2 DEF RecibirSyscall, KernelTypeOK, TipoCpu
  <2>2. /\ Len(syscalls) \in Nat /\ DOMAIN syscalls = 1..Len(syscalls)
        /\ Len(Tail(syscalls)) = Len(syscalls) - 1 /\ Tail(syscalls) \in Seq(Syscalls)
    BY <2>1, ColaPop, ColaLen, LenProperties
  <2>3. \A i \in 1..Len(Tail(syscalls)) : Tail(syscalls)[i] = syscalls[i + 1]
    BY <2>1, HeadTailProperties
  <2>4. DOMAIN Tail(syscalls) = 1..(Len(syscalls) - 1)
    BY <2>2, LenProperties
  <2>5. Range(Tail(syscalls)) \subseteq Range(syscalls)
    BY <2>2, <2>3, <2>4 DEF Range
  <2> QED
    BY <2>1, <2>5, RangoPop
<1> QED
  BY <1>1, <1>2, SocketDeSyscalls

\* A PCB in the new queue has never been blocked; one in blocked, in the hands of the
\* I/O thread or in suspended_ready has been.
LEMMA PasoEdadesDelKernel ==
  ASSUME KernelTypeOK, SinRepetidos, Edades, DelKernel
  PROVE  Edades'
<1>m. MarcoDelKernel
  BY DelKernelMarco
<1>t. /\ lp.en \in LpConPCB => lp.pcb \in PCB
      /\ io.en \in IoConPCB => io.pcb \in PCB
      /\ sc.en \in ScConPCB => sc.pcb \in PCB
  BY DEF KernelTypeOK, TipoLp, TipoIo, TipoSc
<1>1. ASSUME NEW x \in Range(cola_new') PROVE x.pc = 0
  <2>1. ASSUME NEW p \in Procesos, RecibirProceso(p) PROVE x.pc = 0
    <3>1. PCBNuevo(p) \in PCB /\ cola_new' = Append(cola_new, PCBNuevo(p))
      BY <2>1, KernelAssumption DEF RecibirProceso, PCBNuevo, PCB, KernelAssumption
    <3>2. Range(Append(cola_new, PCBNuevo(p))) = Range(cola_new) \cup {PCBNuevo(p)}
      BY <3>1, Push
    <3>3. x \in Range(cola_new) \cup {PCBNuevo(p)}
      BY <3>1, <3>2
    <3> QED
      BY <3>3 DEF Edades, PCBNuevo
  <2>2. CASE SacarDeNew
    BY <2>2, Pop DEF SacarDeNew, Edades
  <2> QED
    BY <1>m, <2>1, <2>2 DEF MarcoDelKernel, Edades
<1>2. ASSUME lp'.en \in {"crear", "recibir"} PROVE lp'.pcb.pc = 0
  BY <1>2, PasosDeLpDelKernel, Pop DEF Edades
<1>3. ASSUME NEW x \in Range(cola_suspended_ready') PROVE x.pc > 0
  <2>1. CASE PasarASuspendedReady
    <3>1. /\ io.pcb \in PCB /\ io.pcb.pc > 0
          /\ cola_suspended_ready' = Append(cola_suspended_ready, io.pcb)
      BY <1>t, <2>1 DEF PasarASuspendedReady, IoConPCB, Edades
    <3>2. Range(Append(cola_suspended_ready, io.pcb)) =
            Range(cola_suspended_ready) \cup {io.pcb}
      BY <3>1, Push
    <3>3. x \in Range(cola_suspended_ready) \cup {io.pcb}
      BY <3>1, <3>2
    <3> QED
      BY <3>1, <3>3 DEF Edades
  <2>2. CASE SacarDeSuspendedReady
    BY <2>2, Pop DEF SacarDeSuspendedReady, Edades
  <2> QED
    BY <1>m, <2>1, <2>2 DEF MarcoDelKernel, Edades
<1>4. ASSUME NEW x \in Range(cola_blocked') PROVE x.pc > 0
  <2>1. CASE EnlazarBloqueado
    <3>1. /\ sc.en = "enlazar"
          /\ cola_blocked' = Append(cola_blocked, sc.pcb) \/ cola_blocked' = cola_blocked
      BY <2>1 DEF EnlazarBloqueado
    <3>2. sc.pcb \in PCB /\ sc.pcb.pc > 0
      BY <1>t, <3>1 DEF ScConPCB, Edades
    <3>3. Range(Append(cola_blocked, sc.pcb)) = Range(cola_blocked) \cup {sc.pcb}
      BY <3>2, Push
    <3>4. x \in Range(cola_blocked) \cup {sc.pcb}
      BY <3>1, <3>3
    <3> QED
      BY <3>2, <3>4 DEF Edades
  <2>2. CASE TomarBloqueado
    BY <2>2, Pop DEF TomarBloqueado, Edades
  <2> QED
    BY <1>m, <2>1, <2>2 DEF MarcoDelKernel, Edades
<1>5. ASSUME io'.en \in IoConPCB PROVE io'.pcb.pc > 0
  BY <1>5, PasosDeIoDelKernel, Pop DEF Edades
<1>6. ASSUME NEW m \in Range(syscalls'), m.instruccion = "IO" PROVE m.pcb.pc > 0
  BY <1>6, SyscallsQueQuedan DEF Edades
<1>7. ASSUME sc'.en \in {"bloquear", "enlazar", "crear_suspensor"} PROVE sc'.pcb.pc > 0
  BY <1>7, PasosDeScDelKernel, SyscallsQueQuedan DEF Edades
<1> QED
  BY <1>1, <1>2, <1>3, <1>4, <1>5, <1>6, <1>7 DEF Edades

\* The other steps put a process that has just asked for I/O in the socket, or
\* have esperar_syscall done with it.
LEMMA EdadesAjenas ==
  ASSUME Edades, UNCHANGED <<cola_new, cola_suspended_ready, cola_blocked, lp, io>>,
         sc' = sc \/ sc'.en \notin {"bloquear", "enlazar", "crear_suspensor"},
         \A m \in Range(syscalls') :
           m \in Range(syscalls) \/ (m.instruccion = "IO" => m.pcb.pc > 0)
  PROVE  Edades'
  BY DEF Edades

-----------------------------------------------------------------------------
\* Suspensors

\* They are created by CrearSuspensor only.
LEMMA PasosDeSuspensorDelKernel ==
  ASSUME KernelTypeOK, DelKernel
  PROVE  \A b \in Bloqueos : susp[b] = "no_creado" /\ susp'[b] # "no_creado" =>
           CrearSuspensor /\ b = Bloqueo(sc.pcb)
<1>1. CASE susp' = susp
  BY <1>1
<1>2. CASE CrearSuspensor
  BY <1>2 DEF CrearSuspensor, KernelTypeOK, TipoSuspension
<1>3. ASSUME NEW c \in Bloqueos, Suspensor(c)
      PROVE  \A b \in Bloqueos : susp[b] = "no_creado" => susp'[b] = "no_creado"
  BY <1>3 DEF Suspensor, Despertar, Cancelar, TomarSuspendiendo, PedirSuspension,
     RecibirSuspension, KernelTypeOK, TipoSuspension
<1> QED
  BY <1>1, <1>2, <1>3, DelKernelMarco DEF MarcoDelKernel

\* A step that does not touch suspendiendo.
NoSuspende ==
  /\ sem'["suspendiendo"] = sem["suspendiendo"]
  /\ io'.en \in IoConSuspendiendo <=> io.en \in IoConSuspendiendo
  /\ ConSuspendiendo' \subseteq ConSuspendiendo

\* A semaphore that a step does not use keeps its value.
LEMMA SemAjeno ==
  ASSUME sem \in [Semaforos -> Nat], NEW s \in Semaforos, NEW t \in Semaforos, s # t,
         sem_wait(s) \/ sem_post(s)
  PROVE  sem'[t] = sem[t]
  BY DEF sem_wait, sem_post

\* ... and the four kinds of step that do.
LEMMA PasosConSuspendiendo ==
  ASSUME KernelTypeOK, DelKernel
  PROVE  \/ NoSuspende
         \/ TerminarIO \/ SoltarSuspendiendo
         \/ \E b \in Bloqueos : TomarSuspendiendo(b) \/ RecibirSuspension(b)
<1> DEFINE s == "suspendiendo"
<1> USE SemAjeno DEF En
<1>1. CASE HiloRecibirProcesos \/ HiloPasarAReady \/ HiloSyscall \/ AtenderPedido
  <2>1. sem'[s] = sem[s]
    <3>1. CASE HiloRecibirProcesos \/ HiloPasarAReady
      BY <3>1 DEF HiloRecibirProcesos, RecibirProceso, AvisarNew, HiloPasarAReady,
         EsperarProceso, TomarGrado, SacarDeNew, SacarDeSuspendedReady, PedirTablas,
         RecibirTablas, EncolarReady, AvisarReady, KernelTypeOK, Semaforos
    <3>2. CASE HiloSyscall \/ AtenderPedido
      BY <3>2 DEF HiloSyscall, RecibirSyscall, BuscarUltimo, EnlazarBloqueado,
         CrearSuspensor, AvisarIO, LiberarGrado, PedirFin, RecibirFin, ResponderConsola,
         AtenderPedido, KernelTypeOK, Semaforos
    <3> QED
      BY <1>1, <3>1, <3>2
  <2>2. io' = io /\ (susp' = susp \/ CrearSuspensor)
    BY <1>1 DEF HiloRecibirProcesos, RecibirProceso, AvisarNew, HiloPasarAReady,
       EsperarProceso, TomarGrado, SacarDeNew, SacarDeSuspendedReady, PedirTablas,
       RecibirTablas, EncolarReady, AvisarReady, HiloSyscall, RecibirSyscall, BuscarUltimo,
       EnlazarBloqueado, CrearSuspensor, AvisarIO, LiberarGrado, PedirFin, RecibirFin,
       ResponderConsola, AtenderPedido, suspension
  <2>3. ConSuspendiendo' \subseteq ConSuspendiendo
    BY <2>2 DEF CrearSuspensor, ConSuspendiendo, KernelTypeOK, TipoSuspension
  <2> QED
    BY <2>1, <2>2, <2>3 DEF NoSuspende
<1>2. CASE \/ TomarBloqueado \/ PasarASuspendedReady \/ LiberarGradoSuspendido
           \/ AvisarSuspendedReady \/ PasarAReady \/ AvisarReadyIO
  <2>1. sem'[s] = sem[s] /\ susp' = susp
    BY <1>2 DEF TomarBloqueado, PasarASuspendedReady, LiberarGradoSuspendido,
       AvisarSuspendedReady, PasarAReady, AvisarReadyIO, KernelTypeOK, Semaforos,
       suspension
  <2>2. io'.en \in IoConSuspendiendo <=> io.en \in IoConSuspendiendo
    BY <1>2 DEF TomarBloqueado, PasarASuspendedReady, LiberarGradoSuspendido,
       AvisarSuspendedReady, PasarAReady, AvisarReadyIO, IoConSuspendiendo
  <2> QED
    BY <2>1, <2>2 DEF NoSuspende, ConSuspendiendo
<1>3. ASSUME NEW b \in Bloqueos, Despertar(b) \/ Cancelar(b) \/ PedirSuspension(b)
      PROVE  NoSuspende
  <2>1. sem'[s] = sem[s] /\ io' = io
    BY <1>3 DEF Despertar, Cancelar, PedirSuspension, KernelTypeOK, Semaforos
  <2>2. ConSuspendiendo' \subseteq ConSuspendiendo
    BY <1>3 DEF Despertar, Cancelar, PedirSuspension, ConSuspendiendo, KernelTypeOK,
       TipoSuspension
  <2> QED
    BY <2>1, <2>2 DEF NoSuspende
<1> QED
  BY <1>1, <1>2, <1>3 DEF DelKernel, HiloIO, Suspensor

\* suspendiendo is a mutex between hilo_io and the suspensors.
LEMMA PasoExclusionDelKernel ==
  ASSUME KernelTypeOK, Exclusion, DelKernel
  PROVE  Exclusion'
<1> DEFINE s == "suspendiendo"
<1>0. sem[s] \in Nat /\ s \in DOMAIN sem
  BY DEF KernelTypeOK, Semaforos
<1>1. CASE NoSuspende
  <2>1. Uno(io'.en \in IoConSuspendiendo) = Uno(io.en \in IoConSuspendiendo)
    BY <1>1 DEF NoSuspende, Uno
  <2> QED
    BY <1>1, <2>1 DEF NoSuspende, Exclusion
<1>2. CASE TerminarIO
  <2>1. /\ sem[s] = 1 /\ sem'[s] = 0 /\ io.en \notin IoConSuspendiendo
        /\ io'.en \in IoConSuspendiendo /\ susp' = susp
    BY <1>0, <1>2 DEF TerminarIO, sem_wait, Exclusion, Uno, IoConSuspendiendo, suspension,
       KernelTypeOK, TipoIo
  <2>2. ConSuspendiendo' = {}
    BY <1>0, <2>1 DEF Exclusion, ConSuspendiendo
  <2> QED
    BY <2>1, <2>2 DEF Exclusion, Uno
<1>3. CASE SoltarSuspendiendo
  <2>1. /\ sem[s] = 0 /\ sem'[s] = 1 /\ io'.en \notin IoConSuspendiendo /\ susp' = susp
        /\ io.en \in IoConSuspendiendo
    BY <1>0, <1>3 DEF SoltarSuspendiendo, sem_post, Exclusion, Uno, IoConSuspendiendo,
       suspension, En
  <2>2. ConSuspendiendo' = {}
    BY <1>0, <2>1 DEF Exclusion, ConSuspendiendo
  <2> QED
    BY <2>1, <2>2 DEF Exclusion, Uno
<1>4. ASSUME NEW b \in Bloqueos, TomarSuspendiendo(b) PROVE Exclusion'
  <2>1. sem[s] = 1 /\ sem'[s] = 0 /\ io.en \notin IoConSuspendiendo /\ io' = io
    BY <1>0, <1>4 DEF TomarSuspendiendo, sem_wait, Exclusion, Uno
  <2>2. ConSuspendiendo = {}
    BY <2>1 DEF Exclusion
  <2>3. ConSuspendiendo' \subseteq {b}
    BY <1>4, <2>2 DEF TomarSuspendiendo, ConSuspendiendo, KernelTypeOK, TipoSuspension
  <2> QED
    BY <2>1, <2>3 DEF Exclusion, Uno
<1>5. ASSUME NEW b \in Bloqueos, RecibirSuspension(b) PROVE Exclusion'
  <2>1. b \in ConSuspendiendo
    BY <1>5 DEF RecibirSuspension, ConSuspendiendo
  <2>2. sem[s] = 0 /\ sem'[s] = 1 /\ io.en \notin IoConSuspendiendo /\ io' = io
    BY <1>0, <1>5, <2>1 DEF RecibirSuspension, Exclusion, KernelTypeOK, Semaforos
  <2>3. ConSuspendiendo' = {}
    BY <1>5, <2>1 DEF RecibirSuspension, ConSuspendiendo, Exclusion, KernelTypeOK,
       TipoSuspension
  <2> QED
    BY <2>2, <2>3 DEF Exclusion, Uno
<1> QED
  BY <1>1, <1>2, <1>3, <1>4, <1>5, PasosConSuspendiendo

\* esta_suspendido is the suspensor's answer to hilo_io.
LEMMA PasoEstaSuspendidoDelKernel ==
  ASSUME KernelTypeOK, Exclusion, EstaSuspendidoAlDia, DelKernel,
         CrearSuspensor => susp[Bloqueo(sc.pcb)] = "no_creado"
  PROVE  EstaSuspendidoAlDia'
<1>t. /\ susp \in [Bloqueos -> {"no_creado", "durmiendo", "listo", "con_suspendiendo",
                                 "pidiendo", "terminado"}]
      /\ Pidiendo \subseteq Bloqueos /\ Pidiendo \subseteq ConSuspendiendo
      /\ esta_suspendido \subseteq Bloqueos /\ cancelado \subseteq Bloqueos
  BY DEF KernelTypeOK, TipoSuspension, Pidiendo, ConSuspendiendo
<1>m. MarcoDelKernel
  BY DelKernelMarco
<1>1. ASSUME NEW b \in Pidiendo' PROVE b \in esta_suspendido' /\ b \notin cancelado'
  <2>1. CASE b \in Pidiendo
    <3>1. b \in esta_suspendido /\ b \notin cancelado
      BY <2>1 DEF EstaSuspendidoAlDia
    <3>2. esta_suspendido \subseteq esta_suspendido'
      BY <1>m DEF MarcoDelKernel, PedirSuspension
    <3>3. ~PasarAReady
      BY <1>t, <2>1 DEF PasarAReady, Exclusion, IoConSuspendiendo
    <3> QED
      BY <3>1, <3>2, <3>3, <1>m DEF MarcoDelKernel
  <2>2. CASE b \notin Pidiendo
    <3>1. PedirSuspension(b)
      <4>1. susp' # susp
        BY <2>2 DEF Pidiendo
      <4>2. ~CrearSuspensor
        BY <1>t, <2>2 DEF CrearSuspensor, Pidiendo
      <4>3. PICK c \in Bloqueos : Suspensor(c)
        BY <4>1, <4>2, <1>m DEF MarcoDelKernel
      <4> QED
        BY <1>t, <2>2, <4>3 DEF Suspensor, Despertar, Cancelar, TomarSuspendiendo,
           PedirSuspension, RecibirSuspension, Pidiendo
    <3> QED
      BY <3>1 DEF PedirSuspension
  <2> QED
    BY <2>1, <2>2
<1>2. ASSUME NEW b \in esta_suspendido' PROVE susp'[b] \in {"pidiendo", "terminado"}
  <2>1. CASE b \in esta_suspendido
    <3>1. susp[b] \in {"pidiendo", "terminado"} /\ b \in Bloqueos
      BY <1>t, <2>1 DEF EstaSuspendidoAlDia
    <3>2. CASE CrearSuspensor
      BY <1>t, <3>1, <3>2 DEF CrearSuspensor
    <3>3. ASSUME NEW c \in Bloqueos, Suspensor(c) PROVE susp'[b] \in {"pidiendo", "terminado"}
      BY <1>t, <3>1, <3>3 DEF Suspensor, Despertar, Cancelar, TomarSuspendiendo,
         PedirSuspension, RecibirSuspension
    <3> QED
      BY <3>1, <3>2, <3>3, <1>m DEF MarcoDelKernel
  <2>2. CASE b \notin esta_suspendido
    <3>1. PICK c \in Bloqueos : PedirSuspension(c)
      BY <2>2, <1>m DEF MarcoDelKernel
    <3> QED
      BY <1>t, <2>2, <3>1 DEF PedirSuspension
  <2> QED
    BY <2>1, <2>2
<1>3. /\ io'.en = "suspended_ready" => Bloqueo(io'.pcb) \in esta_suspendido'
      /\ io'.en = "ready" => Bloqueo(io'.pcb) \notin esta_suspendido'
  <2>1. CASE io' = io
    <3>1. io.en = "ready" => esta_suspendido' = esta_suspendido
      <4>1. ASSUME NEW c \in Bloqueos, PedirSuspension(c), io.en = "ready" PROVE FALSE
        BY <4>1 DEF PedirSuspension, Exclusion, ConSuspendiendo, IoConSuspendiendo
      <4> QED
        BY <4>1, <1>m DEF MarcoDelKernel
    <3>2. esta_suspendido \subseteq esta_suspendido'
      BY <1>m DEF MarcoDelKernel, PedirSuspension
    <3> QED
      BY <2>1, <3>1, <3>2 DEF EstaSuspendidoAlDia, Bloqueo
  <2>2. CASE TerminarIO
    <3>1. io'.pcb = io.pcb /\ esta_suspendido' = esta_suspendido
          /\ io'.en = IF Bloqueo(io.pcb) \in esta_suspendido THEN "suspended_ready" ELSE "ready"
      BY <2>2 DEF TerminarIO, suspension, KernelTypeOK, TipoIo
    <3> QED
      BY <3>1 DEF Bloqueo
  <2>3. CASE HiloIO /\ ~TerminarIO
    <3>1. io'.en \notin {"suspended_ready", "ready"} \/ io' = io
      BY <2>3 DEF HiloIO, TomarBloqueado, PasarASuspendedReady, LiberarGradoSuspendido,
         AvisarSuspendedReady, PasarAReady, AvisarReadyIO, SoltarSuspendiendo, En
    <3> QED
      BY <2>1, <3>1
  <2> QED
    BY <2>1, <2>2, <2>3, <1>m DEF MarcoDelKernel
<1> QED
  BY <1>1, <1>2, <1>3 DEF EstaSuspendidoAlDia

\* The other steps touch neither hilo_io nor the suspensors.
LEMMA SuspensionAjena ==
  ASSUME Exclusion, EstaSuspendidoAlDia, UNCHANGED <<io, suspension>>,
         sem'["suspendiendo"] = sem["suspendiendo"]
  PROVE  Exclusion' /\ EstaSuspendidoAlDia'
<1>1. UNCHANGED <<io, susp, cancelado, esta_suspendido>>
  BY DEF suspension
<1> QED
  BY <1>1 DEF Exclusion, EstaSuspendidoAlDia, ConSuspendiendo, Pidiendo, Bloqueo, Uno

-----------------------------------------------------------------------------
\* How many processes a set has

\* A finite set of n elements at most.
Acotado(S, n) == IsFiniteSet(S) /\ Cardinality(S) <= n

\* Two bounded sets are together bounded by the sum of their bounds.
LEMMA Juntos ==
  ASSUME NEW S, NEW T, NEW m \in Nat, NEW n \in Nat, Acotado(S, m), Acotado(T, n)
  PROVE  Acotado(S \cup T, m + n)
<1>1. IsFiniteSet(S) /\ IsFiniteSet(T) /\ Cardinality(S) <= m /\ Cardinality(T) <= n
  BY DEF Acotado
<1>2. IsFiniteSet(S \cap T)
  BY <1>1, FS_Intersection
<1>3. /\ Cardinality(S) \in Nat /\ Cardinality(T) \in Nat /\ Cardinality(S \cap T) \in Nat
  BY <1>1, <1>2, FS_CardinalityType
<1>4. /\ IsFiniteSet(S \cup T)
      /\ Cardinality(S \cup T) = Cardinality(S) + Cardinality(T) - Cardinality(S \cap T)
  BY <1>1, FS_Union
<1>5. Cardinality(S \cup T) <= m + n
  BY <1>1, <1>3, <1>4
<1> QED
  BY <1>4, <1>5 DEF Acotado

\* A set without two different elements has one at most.
LEMMA ALoSumoUno ==
  ASSUME NEW S, NEW n \in {0, 1}, n = 0 => S = {}, \A x, y \in S : x = y
  PROVE  Acotado(S, n)
<1>1. CASE S = {}
  <2>1. IsFiniteSet(S) /\ Cardinality(S) = 0
    BY <1>1, FS_EmptySet
  <2> QED
    BY <2>1 DEF Acotado
<1>2. CASE S # {}
  <2>1. PICK x \in S : S = {x}
    BY <1>2
  <2>2. IsFiniteSet(S) /\ Cardinality(S) = 1
    BY <2>1, FS_Singleton
  <2> QED
    BY <1>2, <2>2 DEF Acotado
<1> QED
  BY <1>1, <1>2
=============================================================================
