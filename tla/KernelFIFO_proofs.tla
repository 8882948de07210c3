------------------------- MODULE KernelFIFO_proofs -------------------------
(***************************************************************************)
(* Theorems about KernelFIFO, for every set of processes, every degree of  *)
(* multiprogramming and every bound on I/O: its types, what its semaphores *)
(* count, and where each process is.                                       *)
(***************************************************************************)
EXTENDS KernelFIFO, Kernel_proofs

-----------------------------------------------------------------------------
\* Types

LEMMA InitTypeOK == Init => TypeOK
  BY KernelInitTypeOK, NuloAssumption DEF Init, TypeOK, NuloAssumption

\* Every step keeps the types.
LEMMA NextTypeOK == TypeOK /\ [Next]_vars => TypeOK'
<1> SUFFICES ASSUME TypeOK, [Next]_vars PROVE TypeOK'
  OBVIOUS
<1>1. CASE DelKernel /\ UNCHANGED <<cp, cpu>>
  BY <1>1, DelKernelTypeOK DEF TypeOK
<1> USE KernelAssumption, NuloAssumption, Estables
    DEF KernelAssumption, NuloAssumption, TypeOK, KernelTypeOK
<1>2. CASE EsperarReady
  <2>1. sem' \in [Semaforos -> Nat]
    BY <1>2, SemTipo DEF EsperarReady, Semaforos
  <2> QED
    BY <1>2, <2>1 DEF EsperarReady
<1>3. CASE EsperarFin
  <2>1. sem' \in [Semaforos -> Nat]
    BY <1>3, SemTipo DEF EsperarFin, Semaforos
  <2> QED
    BY <1>3, <2>1 DEF EsperarFin
<1>4. CASE Despachar
  <2>1. cola_ready # <<>> => Head(cola_ready) \in PCB
    BY <1>4, ColaPop DEF Despachar, TipoColas
  <2>2. cola_ready # <<>> => Append(dispatch, Head(cola_ready)) \in Seq(PCB)
    BY <1>4, <2>1, ColaPush DEF Despachar, TipoCpu
  <2>3. TipoColas'
    BY <1>4, <2>1, <2>2, ColaPop DEF Despachar, TipoColas
  <2>4. TipoCpu'
    BY <1>4, <2>1, <2>2 DEF Despachar, TipoCpu
  <2>5. TipoCarrera'
    BY <1>4, <2>1, <2>2 DEF Despachar, TipoCarrera
  <2> QED
    BY <1>4, <2>3, <2>4, <2>5 DEF Despachar
<1>5. CASE AvisarFin
  <2>1. sem' \in [Semaforos -> Nat]
    BY <1>5, SemTipo DEF AvisarFin, Semaforos
  <2>2. TipoSc'
    BY <1>5 DEF AvisarFin, TipoSc, ScConPCB, En
  <2> QED
    BY <1>5, <2>1, <2>2 DEF AvisarFin
<1>6. CASE CpuRecibir
  <2>1. Head(dispatch) \in PCB
    BY <1>6, ColaPop DEF CpuRecibir, TipoCpu
  <2>2. TipoCpu'
    BY <1>6, <2>1, ColaPop DEF CpuRecibir, TipoCpu
  <2> QED
    BY <1>6, <2>2, <2>1 DEF CpuRecibir
<1>7. CASE CpuAcceder
  <2>1. TipoSockets'
    BY <1>7 DEF CpuAcceder, TipoSockets
  <2> QED
    BY <1>7, <2>1 DEF CpuAcceder
<1>8. CASE CpuIO
  <2>1. [cpu EXCEPT !.pc = @ + 1] \in PCB
    BY <1>8 DEF CpuIO, PCB
  <2>2. [instruccion |-> "IO", pcb |-> [cpu EXCEPT !.pc = @ + 1]] \in Syscalls
    BY <1>8, <2>1 DEF CpuIO, Syscalls
  <2>3. TipoCpu'
    BY <1>8, <2>1, <2>2, ColaPush DEF CpuIO, TipoCpu
  <2> QED
    BY <1>8, <2>3, <2>1, <2>2 DEF CpuIO
<1>9. CASE CpuExit
  <2>1. [instruccion |-> "EXIT", pcb |-> cpu] \in Syscalls
    BY <1>9 DEF CpuExit, Syscalls
  <2>2. TipoCpu'
    BY <1>9, <2>1, ColaPush DEF CpuExit, TipoCpu
  <2> QED
    BY <1>9, <2>2, <2>1 DEF CpuExit
<1>10. CASE UNCHANGED vars
  BY <1>10 DEF vars, kernel_vars
<1> QED
  BY <1>1, <1>2, <1>3, <1>4, <1>5, <1>6, <1>7, <1>8, <1>9, <1>10
     DEF Next, HiloReadyAExecuting, HiloCpu

-----------------------------------------------------------------------------
\* Accounting

\* The terms that the scheduler and the CPU add to each account.
LEMMA NaturalesFIFO == ReadyDeCp \in Nat /\ CpDespacha \in Nat /\ CpuOcupada \in Nat
  BY DEF ReadyDeCp, CpDespacha, CpuOcupada, Uno

LEMMA EstablesFIFO ==
  /\ UNCHANGED cp => CpDespacha' = CpDespacha /\ ReadyDeCp' = ReadyDeCp
  /\ UNCHANGED cpu => CpuOcupada' = CpuOcupada
  BY DEF ReadyDeCp, CpDespacha, CpuOcupada

\* What the kernel keeps by itself, and what it leaves as it is.
LEMMA CuentasPorPartes ==
  TypeOK => (Cuentas <=> /\ CuentasDelKernel
                         /\ AvisosDeReady + ReadyDeCp = 0
                         /\ VueltasDeCpu + CpDespacha + CpuOcupada = 1
                         /\ PlazasDelKernel + CpuOcupada = GRADO_MULTIPROGRAMACION)
<1> SUFFICES ASSUME TypeOK
             PROVE  Cuentas <=> /\ CuentasDelKernel
                                /\ AvisosDeReady + ReadyDeCp = 0
                                /\ VueltasDeCpu + CpDespacha + CpuOcupada = 1
                                /\ PlazasDelKernel + CpuOcupada = GRADO_MULTIPROGRAMACION
  OBVIOUS
<1>1. NatReady /\ NatCPU /\ NatGrado
  BY Naturales DEF TypeOK
<1>2. CuentaReady <=> AvisosDeReady + ReadyDeCp = 0
  BY <1>1, NaturalesFIFO DEF CuentaReady, AvisosDeReady, NatReady
<1>3. UnSoloProcesoEnCPU <=> VueltasDeCpu + CpDespacha + CpuOcupada = 1
  BY <1>1, NaturalesFIFO DEF UnSoloProcesoEnCPU, VueltasDeCpu, NatCPU
<1>4. GradoRespetado <=> PlazasDelKernel + CpuOcupada = GRADO_MULTIPROGRAMACION
  BY <1>1, NaturalesFIFO DEF GradoRespetado, LugaresOcupados, PlazasDelKernel, NatGrado
<1> QED
  BY <1>2, <1>3, <1>4 DEF Cuentas, CuentasDelKernel, CaidaSoloPorCarrera

LEMMA CuentasPorPartesDespues ==
  (TypeOK => (Cuentas <=> /\ CuentasDelKernel
                          /\ AvisosDeReady + ReadyDeCp = 0
                          /\ VueltasDeCpu + CpDespacha + CpuOcupada = 1
                          /\ PlazasDelKernel + CpuOcupada = GRADO_MULTIPROGRAMACION))'
  BY CuentasPorPartes, PTL

\* What the scheduler and the CPU have in their hands when they push.
LEMMA CargasFIFO ==
  ASSUME TypeOK
  PROVE  /\ cola_ready # <<>> => Head(cola_ready) \in PCB
         /\ cpu # NULO => [instruccion |-> "EXIT", pcb |-> cpu] \in Syscalls
         /\ cpu # NULO /\ cpu.pc < MaxIO =>
              [instruccion |-> "IO", pcb |-> [cpu EXCEPT !.pc = @ + 1]] \in Syscalls
<1> USE KernelAssumption, NuloAssumption DEF KernelAssumption, NuloAssumption
<1> USE DEF TypeOK, KernelTypeOK
<1>1. cola_ready # <<>> => Head(cola_ready) \in PCB
  BY ColaPop DEF TipoColas
<1>2. cpu # NULO => [instruccion |-> "EXIT", pcb |-> cpu] \in Syscalls
  BY DEF Syscalls
<1>3. cpu # NULO /\ cpu.pc < MaxIO => [cpu EXCEPT !.pc = @ + 1] \in PCB
  BY DEF PCB
<1>4. cpu # NULO /\ cpu.pc < MaxIO =>
        [instruccion |-> "IO", pcb |-> [cpu EXCEPT !.pc = @ + 1]] \in Syscalls
  BY <1>3 DEF Syscalls
<1> QED
  BY <1>1, <1>2, <1>3, <1>4, <1>1, <1>2, <1>4

LEMMA NextCuentas ==
  ASSUME TypeOK, Cuentas, ~caido, Next
  PROVE  Cuentas'
<1>new. CuentaNew /\ NatNew
  BY Naturales DEF Cuentas, TypeOK
<1>ready. CuentaReady /\ NatReady
  BY Naturales DEF Cuentas, TypeOK
<1>blocked. CuentaBlocked /\ NatBlocked
  BY Naturales DEF Cuentas, TypeOK
<1>cpu. UnSoloProcesoEnCPU /\ NatCPU
  BY Naturales DEF Cuentas, TypeOK
<1>grado. GradoRespetado /\ NatGrado
  BY Naturales DEF Cuentas, TypeOK
<1>resto. HayParaSacar /\ UnaSolaRotura /\ CaidaSoloPorCarrera
  BY DEF Cuentas
<1>1. CASE DelKernel /\ UNCHANGED <<cp, cpu>>
  <2>1. /\ CuentasDelKernel
        /\ AvisosDeReady + ReadyDeCp = 0
        /\ VueltasDeCpu + CpDespacha + CpuOcupada = 1
        /\ PlazasDelKernel + CpuOcupada = GRADO_MULTIPROGRAMACION
    BY CuentasPorPartes
  <2>2. CuentasDelKernel' /\ UNCHANGED <<AvisosDeReady, VueltasDeCpu, PlazasDelKernel>>
    BY <1>1, <2>1, PasoCuentasDelKernel DEF TypeOK
  <2>3. UNCHANGED <<CpDespacha, ReadyDeCp, CpuOcupada>>
    BY <1>1, EstablesFIFO
  <2>4. TypeOK'
    BY NextTypeOK
  <2> QED
    BY <2>1, <2>2, <2>3, <2>4, CuentasPorPartesDespues
<1>2. CASE EsperarReady
  <2>1. /\ ReadyDeCp = 0 /\ ReadyDeCp' = 1
    BY <1>2 DEF EsperarReady, ReadyDeCp, Uno, En
  <2>2. UNCHANGED <<CpDespacha>>
    BY <1>2 DEF EsperarReady, CpDespacha, En
  <2>3. /\ sem["procesos_en_ready"] > 0
        /\ sem'["procesos_en_ready"] = sem["procesos_en_ready"] - 1
        /\ UNCHANGED <<sem["procesos_para_ready"], sem["grado_multiprogramacion"],
                   sem["proceso_en_io"], sem["fin_de_ejecucion"]>>
    BY <1>2 DEF EsperarReady, sem_wait, sem_post, Semaforos, TypeOK, KernelTypeOK
  <2>4. UNCHANGED <<cola_new, cola_suspended_ready, cola_ready, cola_blocked,
                   dispatch, syscalls, rp, lp, sc, io, cpu,
                   cola_rota, caido>>
    BY <1>2 DEF EsperarReady, vars, kernel_vars, sockets, cpu_vars, colas,
       suspension, carrera
  <2>5. UNCHANGED <<NewDeLp, ReadyDeLp, LugarLp, NewDeRp, NewDeIo, ReadyDeIo,
                   LugarIo, ScAtiende, LugarSc, BlockedDeSc,
                   CpuOcupada, Perdido>>
    BY <2>4, CuentasEstables, EstablesFIFO
  <2>6. CuentaReady'
    BY <2>1, <2>2, <2>3, <2>4, <2>5, <1>ready, NaturalesFIFO DEF CuentaReady, NatReady
  <2>7. (CuentaNew /\ HayParaSacar /\ CuentaBlocked /\ UnaSolaRotura
        /\ CaidaSoloPorCarrera /\ UnSoloProcesoEnCPU /\ GradoRespetado)'
    BY <2>1, <2>2, <2>3, <2>4, <2>5 DEF Cuentas, CuentaNew, HayParaSacar,
       CuentaBlocked, UnaSolaRotura, CaidaSoloPorCarrera, UnSoloProcesoEnCPU,
       GradoRespetado, LugaresOcupados
  <2> QED
    BY <2>6, <2>7 DEF Cuentas
<1>3. CASE EsperarFin
  <2>1. /\ CpDespacha = 0 /\ CpDespacha' = 1
    BY <1>3 DEF EsperarFin, CpDespacha, Uno, En
  <2>2. UNCHANGED <<ReadyDeCp>>
    BY <1>3 DEF EsperarFin, ReadyDeCp, En
  <2>3. /\ sem["fin_de_ejecucion"] > 0
        /\ sem'["fin_de_ejecucion"] = sem["fin_de_ejecucion"] - 1
        /\ UNCHANGED <<sem["procesos_para_ready"], sem["grado_multiprogramacion"],
                   sem["procesos_en_ready"],
                   sem["proceso_en_io"]>>
    BY <1>3 DEF EsperarFin, sem_wait, sem_post, Semaforos, TypeOK, KernelTypeOK
  <2>4. UNCHANGED <<cola_new, cola_suspended_ready, cola_ready, cola_blocked,
                   dispatch, syscalls, rp, lp, sc, io, cpu,
                   cola_rota, caido>>
    BY <1>3 DEF EsperarFin, vars, kernel_vars, sockets, cpu_vars, colas, suspension,
       carrera
  <2>5. UNCHANGED <<NewDeLp, ReadyDeLp, LugarLp, NewDeRp, NewDeIo, ReadyDeIo,
                   LugarIo, ScAtiende, LugarSc, BlockedDeSc,
                   CpuOcupada, Perdido>>
    BY <2>4, CuentasEstables, EstablesFIFO
  <2>6. UnSoloProcesoEnCPU'
    BY <2>1, <2>2, <2>3, <2>4, <2>5, <1>cpu, NaturalesFIFO DEF UnSoloProcesoEnCPU, NatCPU
  <2>7. (CuentaNew /\ HayParaSacar /\ CuentaReady /\ CuentaBlocked
        /\ UnaSolaRotura /\ CaidaSoloPorCarrera /\ GradoRespetado)'
    BY <2>1, <2>2, <2>3, <2>4, <2>5 DEF Cuentas, CuentaNew, HayParaSacar,
       CuentaReady, CuentaBlocked, UnaSolaRotura, CaidaSoloPorCarrera, GradoRespetado,
       LugaresOcupados
  <2> QED
    BY <2>6, <2>7 DEF Cuentas
<1>4. CASE Despachar
  <2>1. cola_ready # <<>>
    BY <1>4, <1>ready, NaturalesFIFO, Vacias DEF Despachar, CuentaReady, ReadyDeCp, Uno, NatReady
  <2>2. /\ CpDespacha = 1 /\ CpDespacha' = 0
        /\ ReadyDeCp = 1 /\ ReadyDeCp' = 0
    BY <1>4, <2>1 DEF Despachar, CpDespacha, ReadyDeCp, Uno, En
  <2>3. Len(cola_ready') = Len(cola_ready) - 1
    BY <1>4, <2>1, ColaPop DEF Despachar, TypeOK, KernelTypeOK, TipoColas
  <2>4. Len(dispatch') = Len(dispatch) + 1
    BY <1>4, <2>1, ColaPush, CargasFIFO DEF Despachar, TypeOK, KernelTypeOK, TipoCpu
  <2>5. UNCHANGED <<cola_new, cola_suspended_ready, cola_blocked, syscalls, rp, lp,
                   sc, io, cpu, sem, cola_rota, caido>>
    BY <1>4, <2>1 DEF Despachar, vars, kernel_vars, sockets, cpu_vars, colas,
       suspension, carrera
  <2>6. UNCHANGED <<NewDeLp, ReadyDeLp, LugarLp, NewDeRp, NewDeIo, ReadyDeIo,
                   LugarIo, ScAtiende, LugarSc, BlockedDeSc,
                   CpuOcupada, Perdido>>
    BY <2>5, CuentasEstables, EstablesFIFO
  <2>7. CuentaReady'
    BY <2>2, <2>3, <2>4, <2>5, <2>6, <1>ready, NaturalesFIFO, SMTT(30) DEF CuentaReady, NatReady
  <2>8. UnSoloProcesoEnCPU'
    BY <2>2, <2>4, <2>5, <2>6, <1>cpu, NaturalesFIFO, SMTT(30) DEF UnSoloProcesoEnCPU, NatCPU
  <2>9. GradoRespetado'
    BY <2>2, <2>3, <2>4, <2>5, <2>6, <1>grado, NaturalesFIFO DEF GradoRespetado, NatGrado,
       LugaresOcupados
  <2>10. (CuentaNew /\ HayParaSacar /\ CuentaBlocked /\ UnaSolaRotura
        /\ CaidaSoloPorCarrera)'
    BY <2>2, <2>3, <2>4, <2>5, <2>6 DEF Cuentas, CuentaNew, HayParaSacar,
       CuentaBlocked, UnaSolaRotura, CaidaSoloPorCarrera
  <2> QED
    BY <2>7, <2>8, <2>9, <2>10 DEF Cuentas
<1>5. CASE AvisarFin
  <2>1. /\ ScAtiende = 1 /\ ScAtiende' = 0
    BY <1>5 DEF AvisarFin, ScAtiende, Uno, En
  <2>2. UNCHANGED <<LugarSc, BlockedDeSc>>
    BY <1>5 DEF AvisarFin, LugarSc, BlockedDeSc, En
  <2>3. /\ sem'["fin_de_ejecucion"] = sem["fin_de_ejecucion"] + 1
        /\ UNCHANGED <<sem["procesos_para_ready"], sem["grado_multiprogramacion"],
                   sem["procesos_en_ready"],
                   sem["proceso_en_io"]>>
    BY <1>5 DEF AvisarFin, sem_wait, sem_post, Semaforos, TypeOK, KernelTypeOK
  <2>4. UNCHANGED <<cola_new, cola_suspended_ready, cola_ready, cola_blocked,
                   dispatch, syscalls, rp, lp, io, cp, cpu,
                   cola_rota, caido>>
    BY <1>5 DEF AvisarFin, vars, kernel_vars, sockets, cpu_vars, colas, suspension,
       carrera
  <2>5. UNCHANGED <<NewDeLp, ReadyDeLp, LugarLp, NewDeRp, NewDeIo, ReadyDeIo,
                   LugarIo, CpDespacha, ReadyDeCp, CpuOcupada,
                   Perdido>>
    BY <2>4, CuentasEstables, EstablesFIFO
  <2>6. UnaSolaRotura'
    BY <1>5, <2>1, <2>2, <2>3, <2>4, <2>5, <1>resto DEF AvisarFin, UnaSolaRotura, En
  <2>7. UnSoloProcesoEnCPU'
    BY <2>1, <2>2, <2>3, <2>4, <2>5, <1>cpu, NaturalesFIFO, SMTT(30) DEF UnSoloProcesoEnCPU, NatCPU
  <2>8. (CuentaNew /\ HayParaSacar /\ CuentaReady /\ CuentaBlocked
        /\ CaidaSoloPorCarrera /\ GradoRespetado)'
    BY <2>1, <2>2, <2>3, <2>4, <2>5 DEF Cuentas, CuentaNew, HayParaSacar,
       CuentaReady, CuentaBlocked, CaidaSoloPorCarrera, GradoRespetado,
       LugaresOcupados
  <2> QED
    BY <2>6, <2>7, <2>8 DEF Cuentas
<1>6. CASE CpuRecibir
  <2>1. Head(dispatch) \in PCB
    BY <1>6, ColaPop DEF CpuRecibir, TypeOK, KernelTypeOK, TipoCpu
  <2>2. /\ CpuOcupada = 0 /\ CpuOcupada' = 1
    BY <1>6, <2>1, NuloAssumption DEF CpuRecibir, CpuOcupada, Uno, En, NuloAssumption
  <2>3. Len(dispatch') = Len(dispatch) - 1
    BY <1>6, <2>1, NuloAssumption, ColaPop DEF CpuRecibir, TypeOK, KernelTypeOK,
       TipoCpu
  <2>4. UNCHANGED <<cola_new, cola_suspended_ready, cola_ready, cola_blocked,
                   syscalls, rp, lp, sc, io, cp, sem, cola_rota,
                   caido>>
    BY <1>6, <2>1, NuloAssumption DEF CpuRecibir, vars, kernel_vars, sockets,
       cpu_vars, colas, suspension, carrera
  <2>5. UNCHANGED <<NewDeLp, ReadyDeLp, LugarLp, NewDeRp, NewDeIo, ReadyDeIo,
                   LugarIo, ScAtiende, LugarSc, BlockedDeSc,
                   CpDespacha, ReadyDeCp, Perdido>>
    BY <2>4, CuentasEstables, EstablesFIFO
  <2>6. UnSoloProcesoEnCPU'
    BY <2>2, <2>3, <2>4, <2>5, <1>cpu, NaturalesFIFO DEF UnSoloProcesoEnCPU, NatCPU
  <2>7. GradoRespetado'
    BY <2>2, <2>3, <2>4, <2>5, <1>grado, NaturalesFIFO DEF GradoRespetado, NatGrado, LugaresOcupados
  <2>8. (CuentaNew /\ HayParaSacar /\ CuentaReady /\ CuentaBlocked
        /\ UnaSolaRotura /\ CaidaSoloPorCarrera)'
    BY <2>2, <2>3, <2>4, <2>5 DEF Cuentas, CuentaNew, HayParaSacar, CuentaReady,
       CuentaBlocked, UnaSolaRotura, CaidaSoloPorCarrera
  <2> QED
    BY <2>6, <2>7, <2>8 DEF Cuentas
<1>7. CASE CpuIO
  <2>1. /\ CpuOcupada = 1 /\ CpuOcupada' = 0
    BY <1>7 DEF CpuIO, CpuOcupada, Uno, En
  <2>2. Len(syscalls') = Len(syscalls) + 1
    BY <1>7, ColaPush, CargasFIFO DEF CpuIO, TypeOK, KernelTypeOK, TipoCpu
  <2>3. UNCHANGED <<cola_new, cola_suspended_ready, cola_ready, cola_blocked,
                   dispatch, rp, lp, sc, io, cp, sem, cola_rota,
                   caido>>
    BY <1>7 DEF CpuIO, vars, kernel_vars, sockets, cpu_vars, colas, suspension,
       carrera
  <2>4. UNCHANGED <<NewDeLp, ReadyDeLp, LugarLp, NewDeRp, NewDeIo, ReadyDeIo,
                   LugarIo, ScAtiende, LugarSc, BlockedDeSc,
                   CpDespacha, ReadyDeCp, Perdido>>
    BY <2>3, CuentasEstables, EstablesFIFO
  <2>5. UnSoloProcesoEnCPU'
    BY <2>1, <2>2, <2>3, <2>4, <1>cpu, NaturalesFIFO, SMTT(30) DEF UnSoloProcesoEnCPU, NatCPU
  <2>6. GradoRespetado'
    BY <2>1, <2>2, <2>3, <2>4, <1>grado, NaturalesFIFO DEF GradoRespetado, NatGrado, LugaresOcupados
  <2>7. (CuentaNew /\ HayParaSacar /\ CuentaReady /\ CuentaBlocked
        /\ UnaSolaRotura /\ CaidaSoloPorCarrera)'
    BY <2>1, <2>2, <2>3, <2>4 DEF Cuentas, CuentaNew, HayParaSacar, CuentaReady,
       CuentaBlocked, UnaSolaRotura, CaidaSoloPorCarrera
  <2> QED
    BY <2>5, <2>6, <2>7 DEF Cuentas
<1>8. CASE CpuExit
  <2>1. /\ CpuOcupada = 1 /\ CpuOcupada' = 0
    BY <1>8 DEF CpuExit, CpuOcupada, Uno, En
  <2>2. Len(syscalls') = Len(syscalls) + 1
    BY <1>8, ColaPush, CargasFIFO DEF CpuExit, TypeOK, KernelTypeOK, TipoCpu
  <2>3. UNCHANGED <<cola_new, cola_suspended_ready, cola_ready, cola_blocked,
                   dispatch, rp, lp, sc, io, cp, sem, cola_rota,
                   caido>>
    BY <1>8 DEF CpuExit, vars, kernel_vars, sockets, cpu_vars, colas, suspension,
       carrera
  <2>4. UNCHANGED <<NewDeLp, ReadyDeLp, LugarLp, NewDeRp, NewDeIo, ReadyDeIo,
                   LugarIo, ScAtiende, LugarSc, BlockedDeSc,
                   CpDespacha, ReadyDeCp, Perdido>>
    BY <2>3, CuentasEstables, EstablesFIFO
  <2>5. UnSoloProcesoEnCPU'
    BY <2>1, <2>2, <2>3, <2>4, <1>cpu, NaturalesFIFO, SMTT(30) DEF UnSoloProcesoEnCPU, NatCPU
  <2>6. GradoRespetado'
    BY <2>1, <2>2, <2>3, <2>4, <1>grado, NaturalesFIFO DEF GradoRespetado, NatGrado, LugaresOcupados
  <2>7. (CuentaNew /\ HayParaSacar /\ CuentaReady /\ CuentaBlocked
        /\ UnaSolaRotura /\ CaidaSoloPorCarrera)'
    BY <2>1, <2>2, <2>3, <2>4 DEF Cuentas, CuentaNew, HayParaSacar, CuentaReady,
       CuentaBlocked, UnaSolaRotura, CaidaSoloPorCarrera
  <2> QED
    BY <2>5, <2>6, <2>7 DEF Cuentas
<1>9. CASE CpuAcceder
  <2>1. UNCHANGED <<cola_new, cola_ready, cola_blocked, cola_suspended_ready, dispatch,
                    syscalls, rp, lp, sc, io, cola_rota, caido, cp, cpu, sem>>
    BY <1>9 DEF CpuAcceder, colas, cpu_vars, carrera
  <2>2. UNCHANGED <<NewDeLp, ReadyDeLp, LugarLp, NewDeRp, NewDeIo, ReadyDeIo, LugarIo,
                    ScAtiende, LugarSc, BlockedDeSc, CpDespacha, ReadyDeCp, CpuOcupada,
                    Perdido>>
    BY <2>1, CuentasEstables, EstablesFIFO
  <2> QED
    BY <2>1, <2>2
       DEF Cuentas, CuentaNew, HayParaSacar, CuentaReady, CuentaBlocked, UnaSolaRotura,
           CaidaSoloPorCarrera, UnSoloProcesoEnCPU, GradoRespetado, LugaresOcupados
<1> QED
  BY <1>1, <1>2, <1>3, <1>4, <1>5, <1>6, <1>7, <1>8, <1>9
     DEF Next, HiloReadyAExecuting, HiloCpu

LEMMA InitCuentas == Init => Cuentas
<1> SUFFICES ASSUME Init PROVE Cuentas
  OBVIOUS
<1> USE DEF Init, KernelInit
<1>1. /\ cola_new = <<>> /\ cola_ready = <<>> /\ cola_blocked = <<>>
      /\ cola_suspended_ready = <<>> /\ dispatch = <<>> /\ syscalls = <<>>
      /\ rp = "aceptar" /\ cp = "ready" /\ cpu = NULO
      /\ lp.en = "esperar" /\ sc.en = "esperar" /\ io.en = "esperar"
      /\ cola_rota = FALSE /\ caido = FALSE
  BY DEF En
<1>2. /\ sem["procesos_para_ready"] = 0 /\ sem["procesos_en_ready"] = 0
      /\ sem["proceso_en_io"] = 0 /\ sem["fin_de_ejecucion"] = 1
      /\ sem["grado_multiprogramacion"] = GRADO_MULTIPROGRAMACION
  BY DEF Semaforos
<1>3. CuentaNew
  BY <1>1, <1>2 DEF CuentaNew, NewDeLp, NewDeRp, NewDeIo, Uno
<1>4. CuentaReady
  BY <1>1, <1>2 DEF CuentaReady, ReadyDeCp, ReadyDeLp, ReadyDeIo, Uno
<1>5. CuentaBlocked
  BY <1>1, <1>2 DEF CuentaBlocked, BlockedDeSc, Uno
<1>6. UnSoloProcesoEnCPU
  BY <1>1, <1>2 DEF UnSoloProcesoEnCPU, CpDespacha, CpuOcupada, ScAtiende, Uno
<1>7. GradoRespetado
  BY <1>1, <1>2, KernelAssumption
     DEF KernelAssumption, GradoRespetado, LugaresOcupados, LugarLp, LugarSc, LugarIo,
         CpuOcupada, Perdido, Uno
<1>8. HayParaSacar /\ UnaSolaRotura /\ CaidaSoloPorCarrera
  BY <1>1 DEF HayParaSacar, UnaSolaRotura, CaidaSoloPorCarrera
<1> QED
  BY <1>3, <1>4, <1>5, <1>6, <1>7, <1>8 DEF Cuentas

LEMMA PasoCuentas == TypeOK /\ Cuentas /\ [Next]_vars => Cuentas'
<1>1. ASSUME TypeOK, Cuentas, Next PROVE Cuentas'
  BY <1>1, NextCuentas DEF Next
<1>2. ASSUME Cuentas, UNCHANGED vars PROVE Cuentas'
  BY <1>2, CuentasEstables, EstablesFIFO
     DEF vars, kernel_vars, colas, cpu_vars, carrera, Cuentas, CuentaNew, HayParaSacar,
         CuentaReady, CuentaBlocked, UnaSolaRotura, CaidaSoloPorCarrera,
         UnSoloProcesoEnCPU, GradoRespetado, LugaresOcupados
<1> QED
  BY <1>1, <1>2

-----------------------------------------------------------------------------
\* A step takes at most one PCB from one place to another

Nombres == {"new", "ready", "blocked", "suspended_ready", "dispatch", "syscalls", "cpu",
            "lp", "io", "sc"}

Muda(a, x, b, y) ==
  \A l \in Nombres : Lugares'[l] = (Lugares[l] \ Solo(l = a, x)) \cup Solo(l = b, y)

\* The places are these ten, before a step and after it.
LEMMA Nombrados == DOMAIN Lugares = Nombres /\ DOMAIN Lugares' = Nombres
  BY DEF Lugares, Nombres

\* A process enters, or leaves its place for none.
Entra(b, y) == \A l \in Nombres : Lugares'[l] = Lugares[l] \cup Solo(l = b, y)
Sale(a, x) == \A l \in Nombres : Lugares'[l] = Lugares[l] \ Solo(l = a, x)
Quieto == \A l \in Nombres : Lugares'[l] = Lugares[l]

\* The process that moves is then where it went, and the others are where they were.
LEMMA Mudanza ==
  ASSUME EnUnSoloLugar, NEW a \in Nombres, NEW b \in Nombres, NEW x \in Lugares[a],
         NEW y, y.id = x.id, Muda(a, x, b, y)
  PROVE  /\ EnUnSoloLugar'
         /\ \A p \in Procesos : EnAlgunLugar(p)' <=> EnAlgunLugar(p)
<1> USE Nombrados
<1>1. ASSUME NEW l \in Nombres, NEW m \in Nombres,
             NEW u \in Lugares'[l], NEW v \in Lugares'[m], u.id = v.id
      PROVE  l = m /\ u = v
  BY <1>1 DEF Muda, Solo, EnUnSoloLugar
<1>2. EnUnSoloLugar'
  BY <1>1 DEF EnUnSoloLugar
<1>3. ASSUME NEW p \in Procesos PROVE EnAlgunLugar(p)' <=> EnAlgunLugar(p)
  <2>1. y \in Lugares'[b]
    BY DEF Muda, Solo
  <2>2. ASSUME NEW l \in Nombres, NEW u \in Lugares'[l], u.id = p PROVE EnAlgunLugar(p)
    BY <2>2 DEF Muda, Solo, EnAlgunLugar
  <2>3. ASSUME NEW l \in Nombres, NEW u \in Lugares[l], u.id = p PROVE EnAlgunLugar(p)'
    BY <2>1, <2>3 DEF Muda, Solo, EnAlgunLugar
  <2> QED
    BY <2>2, <2>3 DEF EnAlgunLugar
<1> QED
  BY <1>2, <1>3

\* Nobody but the executing process can be asking for something.
LEMMA UnaSyscall ==
  ASSUME TypeOK, Cuentas
  PROVE  /\ syscalls # <<>> =>
              /\ Tail(syscalls) = <<>> /\ DOMAIN syscalls = {1} /\ syscalls[1] = Head(syscalls)
              /\ Range(syscalls) = {Head(syscalls)} /\ Head(syscalls) \in Syscalls
              /\ sc.en = "esperar" /\ cpu = NULO /\ dispatch = <<>>
         /\ cpu # NULO => syscalls = <<>> /\ dispatch = <<>> /\ sc.en = "esperar"
         /\ dispatch # <<>> => Tail(dispatch) = <<>> /\ sc.en = "esperar"
         /\ cp = "despachar" =>
              syscalls = <<>> /\ cpu = NULO /\ dispatch = <<>> /\ sc.en = "esperar"
<1>1. /\ syscalls \in Seq(Syscalls) /\ dispatch \in Seq(PCB)
      /\ sem["fin_de_ejecucion"] \in Nat
  BY DEF TypeOK, KernelTypeOK, TipoCpu, Semaforos
<1>2. /\ Len(syscalls) \in Nat /\ Len(dispatch) \in Nat
      /\ (Len(syscalls) = 0 <=> syscalls = <<>>) /\ (Len(dispatch) = 0 <=> dispatch = <<>>)
  BY <1>1, ColaLen
<1>3. UnSoloProcesoEnCPU
  BY DEF Cuentas
<1>4. /\ CpDespacha = IF cp = "despachar" THEN 1 ELSE 0
      /\ CpuOcupada = IF cpu # NULO THEN 1 ELSE 0
      /\ ScAtiende = IF sc.en # "esperar" THEN 1 ELSE 0
  BY DEF CpDespacha, CpuOcupada, ScAtiende, Uno
<1>5. Len(syscalls) <= 1 /\ Len(dispatch) <= 1
  BY <1>1, <1>2, <1>3, <1>4 DEF UnSoloProcesoEnCPU
<1>6. syscalls # <<>> => sc.en = "esperar" /\ cpu = NULO /\ Len(dispatch) = 0
  BY <1>1, <1>2, <1>3, <1>4 DEF UnSoloProcesoEnCPU
<1>7. cpu # NULO => Len(syscalls) = 0 /\ Len(dispatch) = 0 /\ sc.en = "esperar"
  BY <1>1, <1>2, <1>3, <1>4 DEF UnSoloProcesoEnCPU
<1>8. dispatch # <<>> => sc.en = "esperar"
  BY <1>1, <1>2, <1>3, <1>4 DEF UnSoloProcesoEnCPU
<1>9. cp = "despachar" =>
        Len(syscalls) = 0 /\ cpu = NULO /\ Len(dispatch) = 0 /\ sc.en = "esperar"
  BY <1>1, <1>2, <1>3, <1>4 DEF UnSoloProcesoEnCPU
<1>10. syscalls # <<>> =>
         /\ Tail(syscalls) = <<>> /\ DOMAIN syscalls = {1} /\ syscalls[1] = Head(syscalls)
         /\ Range(syscalls) = {Head(syscalls)} /\ Head(syscalls) \in Syscalls
  BY <1>1, <1>5, UnSoloMensaje, ColaPop
<1>11. dispatch # <<>> => Tail(dispatch) = <<>>
  BY <1>1, <1>5, UnSoloMensaje
<1> QED
  BY <1>2, <1>6, <1>7, <1>8, <1>9, <1>10, <1>11

\* The threads of the kernel leave the CPU as it is: what they do to the places
\* that do not depend on the scheduler, they do to all.
LEMMA LugaresDeMas ==
  /\ Nombres = NombresDelKernel \cup {"cpu"} /\ "cpu" \notin NombresDelKernel
  /\ \A l \in NombresDelKernel :
       Lugares[l] = LugaresDelKernel[l] /\ Lugares'[l] = LugaresDelKernel'[l]
  /\ Lugares["cpu"] = {cpu} \ {NULO}
  /\ UNCHANGED cpu => Lugares'["cpu"] = Lugares["cpu"]
  BY DEF Nombres, NombresDelKernel, Lugares, LugaresDelKernel

LEMMA DelKernelALugares ==
  ASSUME UNCHANGED cpu
  PROVE  /\ \A a \in NombresDelKernel, b \in NombresDelKernel : \A x, y :
              MudaDelKernel(a, x, b, y) => Muda(a, x, b, y)
         /\ \A b \in NombresDelKernel : \A y : EntraDelKernel(b, y) => Entra(b, y)
         /\ \A a \in NombresDelKernel : \A x : SaleDelKernel(a, x) => Sale(a, x)
         /\ QuietoDelKernel => Quieto
  BY LugaresDeMas DEF Muda, MudaDelKernel, Entra, EntraDelKernel, Sale, SaleDelKernel,
     Quieto, QuietoDelKernel, Solo

\* With one process at a time in the CPU there is one system call at most.
LEMMA UnaSola ==
  ASSUME TypeOK, Cuentas
  PROVE  SyscallsDistintas
<1>1. syscalls = <<>> => DOMAIN syscalls = {}
  BY Vacio
<1> QED
  BY <1>1, UnaSyscall DEF SyscallsDistintas

\* Where each step takes a process.
LEMMA Traslados ==
  ASSUME TypeOK, Cuentas, Ubicados, UNCHANGED cpu
  PROVE  /\ SacarDeNew /\ cola_new # <<>> =>
           Head(cola_new) \in Lugares["new"] /\ Muda("new", Head(cola_new), "lp", Head(cola_new))
         /\ SacarDeSuspendedReady /\ cola_suspended_ready # <<>> =>
           Head(cola_suspended_ready) \in Lugares["suspended_ready"]
           /\ Muda("suspended_ready", Head(cola_suspended_ready), "lp", Head(cola_suspended_ready))
         /\ RecibirTablas =>
           lp.pcb \in Lugares["lp"] /\ lp'.pcb.id = lp.pcb.id
             /\ lp'.pcb.pc = lp.pcb.pc /\ Muda("lp", lp.pcb, "lp", lp'.pcb)
         /\ EncolarReady =>
           lp.pcb \in Lugares["lp"] /\ Muda("lp", lp.pcb, "ready", lp.pcb)
         /\ RecibirSyscall =>
           Head(syscalls).pcb \in Lugares["syscalls"]
           /\ Muda("syscalls", Head(syscalls).pcb, "sc", Head(syscalls).pcb)
         /\ EnlazarBloqueado /\ cola_blocked' = Append(cola_blocked, sc.pcb) =>
           sc.pcb \in Lugares["sc"] /\ Muda("sc", sc.pcb, "blocked", sc.pcb)
         /\ EnlazarBloqueado /\ cola_blocked' = cola_blocked =>
           sc.pcb \in Lugares["sc"] /\ Sale("sc", sc.pcb)
         /\ ResponderConsola => sc.pcb \in Lugares["sc"] /\ Sale("sc", sc.pcb)
         /\ TomarBloqueado /\ ~cola_rota /\ cola_blocked # <<>> =>
           Head(cola_blocked) \in Lugares["blocked"]
           /\ Muda("blocked", Head(cola_blocked), "io", Head(cola_blocked))
         /\ PasarASuspendedReady =>
           io.pcb \in Lugares["io"] /\ Muda("io", io.pcb, "suspended_ready", io.pcb)
         /\ PasarAReady =>
           io.pcb \in Lugares["io"] /\ Muda("io", io.pcb, "ready", io.pcb)
         /\ \A p \in Procesos : RecibirProceso(p) => Entra("new", PCBNuevo(p))
<1>h. KernelTypeOK /\ SinRepetidos /\ SyscallsDistintas
  BY UnaSola DEF TypeOK, Ubicados
<1>n. /\ "new" \in NombresDelKernel /\ "ready" \in NombresDelKernel
      /\ "blocked" \in NombresDelKernel /\ "suspended_ready" \in NombresDelKernel
      /\ "syscalls" \in NombresDelKernel /\ "lp" \in NombresDelKernel
      /\ "io" \in NombresDelKernel /\ "sc" \in NombresDelKernel
  BY DEF NombresDelKernel
<1>l. \A l \in NombresDelKernel : Lugares[l] = LugaresDelKernel[l]
  BY LugaresDeMas
<1> QED
  BY <1>h, <1>n, <1>l, TrasladosDelKernel, DelKernelALugares

\* ... and into the CPU and out of it.
LEMMA TrasladosCpu ==
  ASSUME TypeOK, Cuentas, Ubicados
  PROVE  /\ Despachar /\ cola_ready # <<>> =>
              /\ Head(cola_ready) \in Lugares["ready"]
              /\ Muda("ready", Head(cola_ready), "dispatch", Head(cola_ready))
         /\ CpuRecibir =>
              /\ Head(dispatch) \in Lugares["dispatch"]
              /\ Muda("dispatch", Head(dispatch), "cpu", Head(dispatch))
         /\ CpuIO => /\ cpu \in Lugares["cpu"] /\ [cpu EXCEPT !.pc = @ + 1].id = cpu.id
                     /\ Muda("cpu", cpu, "syscalls", [cpu EXCEPT !.pc = @ + 1])
         /\ CpuExit => cpu \in Lugares["cpu"] /\ Muda("cpu", cpu, "syscalls", cpu)
<1>1. ASSUME Despachar, cola_ready # <<>>
      PROVE  /\ Head(cola_ready) \in Lugares["ready"]
             /\ Muda("ready", Head(cola_ready), "dispatch", Head(cola_ready))
  <2>1. /\ Head(cola_ready) \in Range(cola_ready) /\ Head(cola_ready) \in PCB
        /\ Range(cola_ready') = Range(cola_ready) \ {Head(cola_ready)}
    BY <1>1, Pop DEF TypeOK, Despachar, Ubicados
  <2>2. Range(dispatch') = Range(dispatch) \cup {Head(cola_ready)}
    BY <1>1, <2>1, Push DEF TypeOK, Despachar, Ubicados
  <2>3. UNCHANGED <<cola_new, cola_blocked, cola_suspended_ready, syscalls, cpu, lp, io, sc>>
    BY <1>1 DEF Despachar
  <2> QED
    BY <2>1, <2>2, <2>3 DEF Muda, Solo, Lugares, Nombres
<1>2. ASSUME CpuRecibir
      PROVE  /\ Head(dispatch) \in Lugares["dispatch"]
             /\ Muda("dispatch", Head(dispatch), "cpu", Head(dispatch))
  <2>1. /\ Head(dispatch) \in Range(dispatch) /\ Head(dispatch) # NULO
        /\ Range(dispatch') = Range(dispatch) \ {Head(dispatch)}
    BY <1>2, Pop DEF TypeOK, CpuRecibir, Ubicados
  <2>2. cpu = NULO /\ cpu' = Head(dispatch)
    BY <1>2 DEF CpuRecibir
  <2>3. UNCHANGED <<cola_new, cola_ready, cola_blocked, cola_suspended_ready, syscalls,
                    lp, io, sc>>
    BY <1>2 DEF CpuRecibir, colas
  <2> QED
    BY <2>1, <2>2, <2>3 DEF Muda, Solo, Lugares, Nombres
<1>3. ASSUME NEW i, NEW x \in PCB, cpu # NULO, cpu' = NULO,
             syscalls' = Append(syscalls, [instruccion |-> i, pcb |-> x]),
             UNCHANGED <<dispatch, colas, lp, io, sc>>
      PROVE  cpu \in Lugares["cpu"] /\ Muda("cpu", cpu, "syscalls", x)
  <2>1. syscalls = <<>>
    BY <1>3, UnaSyscall
  <2>2. syscalls' = <<[instruccion |-> i, pcb |-> x]>>
    BY <1>3, <2>1
  <2>3. Range(syscalls') = {[instruccion |-> i, pcb |-> x]} /\ Range(syscalls) = {}
    BY <2>1, <2>2, Vacio DEF Range
  <2>4. UNCHANGED <<cola_new, cola_ready, cola_blocked, cola_suspended_ready, dispatch,
                    lp, io, sc>>
    BY <1>3 DEF colas
  <2> QED
    BY <1>3, <2>3, <2>4 DEF Muda, Solo, Lugares, Nombres
<1>4. ASSUME CpuIO
      PROVE  /\ cpu \in Lugares["cpu"] /\ [cpu EXCEPT !.pc = @ + 1].id = cpu.id
             /\ Muda("cpu", cpu, "syscalls", [cpu EXCEPT !.pc = @ + 1])
  <2>1. cpu \in PCB /\ cpu.pc < MaxIO
    BY <1>4 DEF CpuIO, TypeOK
  <2>2. [cpu EXCEPT !.pc = @ + 1] \in PCB /\ [cpu EXCEPT !.pc = @ + 1].id = cpu.id
    BY <2>1, KernelAssumption DEF PCB, KernelAssumption
  <2> QED
    BY <1>3, <1>4, <2>2 DEF CpuIO
<1>5. ASSUME CpuExit
      PROVE  /\ cpu \in Lugares["cpu"]
             /\ Muda("cpu", cpu, "syscalls", cpu)
  <2>1. cpu \in PCB
    BY <1>5 DEF CpuExit, TypeOK
  <2> QED
    BY <1>3, <1>5, <2>1 DEF CpuExit
<1> QED
  BY <1>1, <1>2, <1>4, <1>5

\* The other steps take nobody anywhere.
LEMMA Quietos ==
  ASSUME TypeOK
  PROVE  /\ UNCHANGED cpu /\ ( \/ AvisarNew \/ EsperarProceso \/ TomarGrado \/ PedirTablas
                               \/ AvisarReady \/ BuscarUltimo \/ CrearSuspensor \/ AvisarIO
                               \/ LiberarGrado \/ PedirFin \/ RecibirFin \/ TerminarIO
                               \/ LiberarGradoSuspendido \/ AvisarSuspendedReady
                               \/ AvisarReadyIO \/ SoltarSuspendiendo \/ AtenderPedido
                               \/ \E b \in Bloqueos : Suspensor(b) ) => Quieto
         /\ EsperarReady \/ EsperarFin \/ AvisarFin \/ CpuAcceder => Quieto
         /\ UNCHANGED vars => Quieto
         /\ UNCHANGED cpu /\ SacarDeNew /\ cola_new = <<>> => Quieto
         /\ UNCHANGED cpu /\ SacarDeSuspendedReady /\ cola_suspended_ready = <<>> => Quieto
         /\ UNCHANGED cpu /\ TomarBloqueado /\ ~caido /\ caido' => Quieto
         /\ Despachar /\ cola_ready = <<>> => Quieto
<1>q. ASSUME UNCHANGED <<colas, cpu_vars, cpu, lp, io>>,
             UNCHANGED sc \/ {sc.en, sc'.en} \cap ScDuenio = {}
      PROVE  Quieto
  BY <1>q DEF Quieto, Lugares, Nombres, colas, cpu_vars
<1>1. ASSUME \/ EsperarReady \/ EsperarFin \/ CpuAcceder \/ UNCHANGED vars
             \/ Despachar /\ cola_ready = <<>>
      PROVE  Quieto
  <2>1. UNCHANGED <<colas, cpu_vars, cpu, lp, io, sc>>
    BY <1>1 DEF EsperarReady, EsperarFin, CpuAcceder, vars, kernel_vars, Despachar,
       colas, cpu_vars
  <2> QED
    BY <2>1, <1>q
<1>2. ASSUME AvisarFin PROVE Quieto
  <2>1. UNCHANGED <<colas, cpu_vars, cpu, lp, io>> /\ {sc.en, sc'.en} \cap ScDuenio = {}
    BY <1>2 DEF AvisarFin, ScDuenio, En
  <2> QED
    BY <2>1, <1>q
<1> QED
  BY <1>1, <1>2, QuietosDelKernel, DelKernelALugares DEF TypeOK

-----------------------------------------------------------------------------
\* Each process in one place

\* Every place holds PCBs.
LEMMA LugaresTipo ==
  ASSUME TypeOK
  PROVE  \A l \in Nombres : Lugares[l] \subseteq PCB
<1>1. {cpu} \ {NULO} \subseteq PCB
  BY DEF TypeOK
<1> QED
  BY <1>1, LugaresDelKernelTipo, LugaresDeMas DEF TypeOK

\* What a step may do to the places.
Trasladado == \E a, b \in Nombres : \E x \in Lugares[a] : \E y \in PCB :
  /\ y.id = x.id /\ y.pc >= x.pc /\ Muda(a, x, b, y)
  /\ a \in {"blocked", "io"} => TomarBloqueado \/ PasarASuspendedReady \/ PasarAReady

\* Every step moves one PCB, or leaves all of them where they are, or is one of the
\* three that bring a process in, answer its console or lose its PCB to the race.
LEMMA Clases ==
  ASSUME TypeOK, Cuentas, Ubicados, Next
  PROVE  \/ Trasladado /\ UNCHANGED <<consola, cola_rota>>
         \/ Quieto /\ UNCHANGED <<consola, cola_rota>>
         \/ \E p \in Procesos : RecibirProceso(p) /\ UNCHANGED cpu
         \/ ResponderConsola /\ UNCHANGED cpu
         \/ EnlazarBloqueado /\ cola_blocked' = cola_blocked /\ UNCHANGED cpu
<1>k. CASE DelKernel /\ UNCHANGED <<cp, cpu>>
  <2>1. ASSUME TrasladadoDelKernel PROVE Trasladado
    <3>1. PICK a \in NombresDelKernel, b \in NombresDelKernel : \E x \in LugaresDelKernel[a] :
            \E y \in PCB :
              /\ y.id = x.id /\ y.pc >= x.pc /\ MudaDelKernel(a, x, b, y)
              /\ a \in {"blocked", "io"} => TomarBloqueado \/ PasarASuspendedReady \/ PasarAReady
      BY <2>1 DEF TrasladadoDelKernel
    <3>2. a \in Nombres /\ b \in Nombres /\ Lugares[a] = LugaresDelKernel[a]
      BY LugaresDeMas
    <3> QED
      BY <1>k, <3>1, <3>2, DelKernelALugares DEF Trasladado
  <2>2. KernelTypeOK /\ SinRepetidos /\ SyscallsDistintas /\ ~caido
    BY UnaSola DEF TypeOK, Ubicados, Next
  <2> QED
    BY <1>k, <2>1, <2>2, ClasesDelKernel, DelKernelALugares
<1> DEFINE Meta == Trasladado \/ Quieto
<1>t. ASSUME NEW a \in Nombres, NEW b \in Nombres, NEW x \in Lugares[a], NEW y,
             y = x \/ (y \in PCB /\ y.id = x.id /\ y.pc >= x.pc), Muda(a, x, b, y),
             a \notin {"blocked", "io"}
      PROVE  Trasladado
  <2>1. y \in PCB /\ y.id = x.id /\ y.pc >= x.pc
    BY <1>t, LugaresTipo, KernelAssumption DEF PCB, KernelAssumption
  <2> QED
    BY <1>t, <2>1 DEF Trasladado
<1>n. "ready" \in Nombres /\ "dispatch" \in Nombres /\ "syscalls" \in Nombres /\ "cpu" \in Nombres
  BY DEF Nombres
<1>1. ASSUME Despachar \/ CpuRecibir PROVE Meta
  BY <1>1, <1>t, <1>n, TrasladosCpu, Quietos
<1>2. ASSUME CpuIO PROVE Meta
  <2>1. [cpu EXCEPT !.pc = @ + 1] \in PCB /\ [cpu EXCEPT !.pc = @ + 1].pc >= cpu.pc
    BY <1>2, KernelAssumption DEF CpuIO, TypeOK, PCB, KernelAssumption
  <2> QED
    BY <1>2, <1>t, <1>n, <2>1, TrasladosCpu
<1>3. ASSUME CpuExit PROVE Meta
  BY <1>3, <1>t, <1>n, TrasladosCpu
<1>4. ASSUME EsperarReady \/ EsperarFin \/ AvisarFin \/ CpuAcceder PROVE Meta
  BY <1>4, Quietos
<1>5. ASSUME \/ Despachar \/ CpuRecibir \/ CpuIO \/ CpuExit
             \/ EsperarReady \/ EsperarFin \/ AvisarFin \/ CpuAcceder
      PROVE  UNCHANGED <<consola, cola_rota>>
  BY <1>5 DEF Despachar, CpuRecibir, CpuIO, CpuExit, EsperarReady, EsperarFin, AvisarFin,
     CpuAcceder, sockets, carrera
<1> QED
  BY <1>k, <1>1, <1>2, <1>3, <1>4, <1>5 DEF Next, HiloReadyAExecuting, HiloCpu

\* A process that was lost stays lost, and only one may be.
LEMMA PasoLugares ==
  ASSUME TypeOK, Cuentas, Ubicados, Next
  PROVE  /\ EnUnSoloLugar' /\ ALoSumoUnExtraviado'
         /\ \A p \in Procesos : Extraviado(p) => Extraviado(p)'
<1> USE DEF Ubicados
<1>1. CASE Trasladado /\ UNCHANGED <<consola, cola_rota>>
  <2>1. EnUnSoloLugar' /\ \A p \in Procesos : EnAlgunLugar(p)' <=> EnAlgunLugar(p)
    BY <1>1, Mudanza DEF Trasladado
  <2> QED
    BY <1>1, <2>1 DEF ALoSumoUnExtraviado, Extraviado
<1>2. CASE Quieto /\ UNCHANGED <<consola, cola_rota>>
  <2>1. EnUnSoloLugar' /\ \A p \in Procesos : EnAlgunLugar(p)' <=> EnAlgunLugar(p)
    BY <1>2, Nombrados DEF Quieto, EnUnSoloLugar, EnAlgunLugar
  <2> QED
    BY <1>2, <2>1 DEF ALoSumoUnExtraviado, Extraviado
<1>3. ASSUME NEW p \in Procesos, RecibirProceso(p), UNCHANGED cpu
      PROVE  /\ EnUnSoloLugar' /\ ALoSumoUnExtraviado'
             /\ \A q \in Procesos : Extraviado(q) => Extraviado(q)'
  <2>1. Entra("new", PCBNuevo(p)) /\ PCBNuevo(p).id = p /\ "new" \in Nombres
    BY <1>3, Traslados DEF PCBNuevo, Nombres
  <2>2. /\ consola[p] = "sin_conectar"
        /\ consola'[p] = "esperando" /\ \A q \in Procesos : q # p => consola'[q] = consola[q]
        /\ cola_rota' = cola_rota
    BY <1>3 DEF RecibirProceso, carrera, TypeOK, KernelTypeOK, TipoSockets
  <2>3. ~EnAlgunLugar(p)
    BY <2>2 DEF ALoSumoUnExtraviado
  <2>4. EnUnSoloLugar'
    BY <2>1, <2>3, Nombrados DEF Entra, Solo, EnUnSoloLugar, EnAlgunLugar
  <2>5. \A q \in Procesos : EnAlgunLugar(q)' <=> EnAlgunLugar(q) \/ q = p
    BY <2>1, Nombrados DEF Entra, Solo, EnAlgunLugar
  <2>6. \A q \in Procesos : Extraviado(q)' <=> Extraviado(q)
    BY <2>2, <2>5 DEF Extraviado
  <2>7. \A q \in Procesos : EnAlgunLugar(q)' => consola'[q] = "esperando"
    BY <2>2, <2>5 DEF ALoSumoUnExtraviado
  <2> QED
    BY <2>2, <2>4, <2>6, <2>7 DEF ALoSumoUnExtraviado
<1>4. ASSUME NEW x \in Lugares["sc"], Sale("sc", x)
      PROVE  /\ EnUnSoloLugar' /\ ~EnAlgunLugar(x.id)' /\ EnAlgunLugar(x.id)
             /\ \A q \in Procesos : q # x.id => (EnAlgunLugar(q)' <=> EnAlgunLugar(q))
  <2>1. "sc" \in Nombres
    BY DEF Nombres
  <2>2. EnUnSoloLugar'
    BY <1>4, Nombrados DEF Sale, Solo, EnUnSoloLugar
  <2>3. \A l \in Nombres : \A u \in Lugares'[l] : u.id # x.id
    BY <1>4, <2>1, Nombrados DEF Sale, Solo, EnUnSoloLugar
  <2>4. ~EnAlgunLugar(x.id)'
    BY <2>3, Nombrados DEF EnAlgunLugar
  <2>5. EnAlgunLugar(x.id)
    BY <1>4, <2>1, Nombrados DEF EnAlgunLugar
  <2>6. \A q \in Procesos : q # x.id => (EnAlgunLugar(q)' <=> EnAlgunLugar(q))
    BY <1>4, <2>1, Nombrados DEF Sale, Solo, EnAlgunLugar
  <2> QED
    BY <2>2, <2>4, <2>5, <2>6
<1>5. CASE ResponderConsola /\ UNCHANGED cpu
  <2>1. PICK x : x = sc.pcb
    OBVIOUS
  <2>2. /\ EnUnSoloLugar' /\ ~EnAlgunLugar(x.id)'
        /\ \A q \in Procesos : q # x.id => (EnAlgunLugar(q)' <=> EnAlgunLugar(q))
    BY <1>4, <1>5, <2>1, Traslados
  <2>3. x.id \in Procesos
    BY <1>5, <2>1 DEF ResponderConsola, TypeOK, KernelTypeOK, TipoSc, ScConPCB, PCB
  <2>4. /\ consola'[x.id] = "finalizada"
        /\ \A q \in Procesos : q # x.id => consola'[q] = consola[q]
        /\ cola_rota' = cola_rota
    BY <1>5, <2>1, <2>3 DEF ResponderConsola, carrera, TypeOK, KernelTypeOK, TipoSockets
  <2>5. EnAlgunLugar(x.id)
    BY <1>4, <1>5, <2>1, Traslados
  <2>6. \A q \in Procesos : Extraviado(q)' <=> Extraviado(q)
    BY <2>2, <2>4, <2>5 DEF Extraviado
  <2>7. \A q \in Procesos : EnAlgunLugar(q)' => consola'[q] = "esperando"
    BY <2>2, <2>4 DEF ALoSumoUnExtraviado
  <2> QED
    BY <2>2, <2>4, <2>6, <2>7 DEF ALoSumoUnExtraviado
<1>6. CASE EnlazarBloqueado /\ cola_blocked' = cola_blocked /\ UNCHANGED cpu
  <2>1. PICK x : x = sc.pcb
    OBVIOUS
  <2>2. /\ EnUnSoloLugar' /\ ~EnAlgunLugar(x.id)' /\ EnAlgunLugar(x.id)
        /\ \A q \in Procesos : q # x.id => (EnAlgunLugar(q)' <=> EnAlgunLugar(q))
    BY <1>4, <1>6, <2>1, Traslados
  <2>3. x.id \in Procesos
    BY <1>6, <2>1 DEF EnlazarBloqueado, TypeOK, KernelTypeOK, TipoSc, ScConPCB, PCB
  <2>4. ~cola_rota /\ cola_rota' /\ consola' = consola
    <3>1. ~cola_rota
      BY <1>6 DEF EnlazarBloqueado, Next, Cuentas, UnaSolaRotura
    <3>2. cola_blocked \in Seq(PCB) /\ sc.pcb \in PCB
      BY <1>6 DEF EnlazarBloqueado, TypeOK, KernelTypeOK, TipoColas, TipoSc, ScConPCB
    <3>3. cola_blocked # Append(cola_blocked, sc.pcb)
      BY <3>2, ColaPush, ColaLen
    <3> QED
      BY <1>6, <3>1, <3>3 DEF EnlazarBloqueado, sockets
  <2>5. \A q \in Procesos : ~Extraviado(q)
    BY <2>4 DEF ALoSumoUnExtraviado
  <2>6. \A q \in Procesos : Extraviado(q)' => q = x.id
    BY <2>2, <2>4, <2>5 DEF Extraviado
  <2>7. \A q \in Procesos : EnAlgunLugar(q)' => consola'[q] = "esperando"
    BY <2>2, <2>4 DEF ALoSumoUnExtraviado
  <2> QED
    BY <2>2, <2>4, <2>5, <2>6, <2>7 DEF ALoSumoUnExtraviado
<1> QED
  BY <1>1, <1>2, <1>3, <1>5, <1>6, Clases

\* A push brings a process that was somewhere else.
LEMMA PasoSinRepetidos ==
  ASSUME TypeOK, Cuentas, Ubicados, Next
  PROVE  SinRepetidos'
<1>1. CASE DelKernel
  <2>1. \A l, m \in NombresDelKernel : \A x \in LugaresDelKernel[l], y \in LugaresDelKernel[m] :
          x.id = y.id => l = m
    BY LugaresDeMas, Nombrados DEF Ubicados, EnUnSoloLugar
  <2>2. ASSUME NEW l \in NombresDelKernel, NEW x \in LugaresDelKernel[l]
        PROVE  consola[x.id] = "esperando"
    <3>1. x.id \in Procesos
      BY LugaresDelKernelTipo DEF TypeOK, PCB
    <3> QED
      BY <3>1, LugaresDeMas, Nombrados DEF Ubicados, ALoSumoUnExtraviado, EnAlgunLugar
  <2> QED
    BY <1>1, <2>1, <2>2, UnaSola, SinRepetidosDelKernel DEF TypeOK, Ubicados
<1> USE DEF Ubicados, TypeOK
<1>2. CASE CpuRecibir
  BY <1>2, Pop DEF CpuRecibir, SinRepetidos, colas, cpu_vars
<1>3. CASE Despachar
  <2>1. ASSUME cola_ready # <<>> PROVE Distintos(Append(dispatch, Head(cola_ready)))
    <3>1. Head(cola_ready) \in Lugares["ready"] /\ Head(cola_ready) \in PCB
      BY <1>3, <2>1, TrasladosCpu, Pop
    <3>2. \A y \in Range(dispatch) : y.id # Head(cola_ready).id
      <4>1. Lugares["dispatch"] = Range(dispatch) /\ {"ready", "dispatch"} \subseteq Nombres
        BY DEF Lugares, Nombres
      <4> QED
        BY <3>1, <4>1, Nombrados DEF EnUnSoloLugar
    <3> QED
      BY <3>1, <3>2, Push
  <2> QED
    BY <1>3, <2>1, Pop DEF Despachar, SinRepetidos
<1>4. CASE EsperarReady \/ EsperarFin \/ AvisarFin \/ CpuAcceder \/ CpuIO \/ CpuExit
  <2>1. UNCHANGED <<colas, dispatch>>
    BY <1>4 DEF EsperarReady, EsperarFin, AvisarFin, CpuAcceder, CpuIO, CpuExit, colas, cpu_vars
  <2> QED
    BY <2>1 DEF SinRepetidos, colas
<1> QED
  BY <1>1, <1>2, <1>3, <1>4 DEF Next, HiloReadyAExecuting, HiloCpu

\* Which steps of esperar_syscall and hilo_io there are around the push on
\* cola_blocked.
LEMMA PasosDeBlocked ==
  ASSUME Next, TypeOK, sc'.en = "crear_suspensor"
  PROVE  \/ EnlazarBloqueado /\ UNCHANGED cpu
         \/ /\ sc' = sc /\ cola_rota' = cola_rota
            /\ cola_blocked' = cola_blocked \/ (TomarBloqueado /\ UNCHANGED cpu)
<1> USE DEF En
<1>1. CASE TomarBloqueado /\ UNCHANGED cpu
  BY <1>1 DEF TomarBloqueado
<1>2. CASE EnlazarBloqueado /\ UNCHANGED cpu
  BY <1>2
<1>3. CASE RecibirSyscall \/ BuscarUltimo \/ CrearSuspensor \/ AvisarIO \/ LiberarGrado
           \/ PedirFin \/ RecibirFin \/ ResponderConsola \/ AvisarFin
  BY <1>3 DEF RecibirSyscall, BuscarUltimo, CrearSuspensor, AvisarIO, LiberarGrado, PedirFin,
     RecibirFin, ResponderConsola, AvisarFin, TypeOK, KernelTypeOK, TipoSc
<1>4. CASE \/ HiloRecibirProcesos \/ HiloPasarAReady \/ AtenderPedido \/ HiloCpu
           \/ HiloReadyAExecuting \/ \E b \in Bloqueos : Suspensor(b)
  <2>1. UNCHANGED <<sc, cola_rota, cola_blocked>>
    BY <1>4 DEF HiloRecibirProcesos, RecibirProceso, AvisarNew, HiloPasarAReady,
       EsperarProceso, TomarGrado, SacarDeNew, SacarDeSuspendedReady, PedirTablas,
       RecibirTablas, EncolarReady, AvisarReady, AtenderPedido, HiloCpu, CpuRecibir,
       CpuAcceder, CpuIO, CpuExit, HiloReadyAExecuting, EsperarReady, EsperarFin,
       Despachar, Suspensor, Despertar, Cancelar, TomarSuspendiendo, PedirSuspension,
       RecibirSuspension, colas, carrera
  <2> QED
    BY <2>1
<1>5. CASE \/ TerminarIO \/ PasarASuspendedReady \/ LiberarGradoSuspendido
           \/ AvisarSuspendedReady \/ PasarAReady \/ AvisarReadyIO \/ SoltarSuspendiendo
  <2>1. UNCHANGED <<sc, cola_rota, cola_blocked>>
    BY <1>5 DEF TerminarIO, PasarASuspendedReady, LiberarGradoSuspendido,
       AvisarSuspendedReady, PasarAReady, AvisarReadyIO, SoltarSuspendiendo, colas, carrera
  <2> QED
    BY <2>1
<1> QED
  BY <1>1, <1>2, <1>3, <1>4, <1>5 DEF Next, DelKernel, HiloSyscall, HiloIO

\* Until the post of its block, hilo_io pops only what was queued before it.
LEMMA PasoPorCrear ==
  ASSUME TypeOK, Cuentas, Ubicados, Next
  PROVE  PorCrearSuspensor'
<1> SUFFICES ASSUME sc'.en = "crear_suspensor"
             PROVE  IF cola_rota' THEN Extraviado(sc.pcb.id)'
                    ELSE cola_blocked' # <<>> /\ cola_blocked'[Len(cola_blocked')] = sc'.pcb
  BY DEF PorCrearSuspensor
<1>0. PICK x : x = sc.pcb
  OBVIOUS
<1>1. CASE EnlazarBloqueado /\ UNCHANGED cpu
  <2>1. /\ sc'.pcb = x /\ x \in PCB /\ cola_blocked \in Seq(PCB) /\ ~cola_rota
    BY <1>0, <1>1 DEF EnlazarBloqueado, TypeOK, KernelTypeOK, TipoSc, TipoColas, ScConPCB,
       Next, Cuentas, UnaSolaRotura
  <2>2. CASE cola_blocked' = Append(cola_blocked, sc.pcb) /\ ~cola_rota'
    <3>1. /\ cola_blocked' # <<>> /\ Len(cola_blocked') = Len(cola_blocked) + 1
          /\ cola_blocked'[Len(cola_blocked) + 1] = x
      BY <1>0, <2>1, <2>2, ColaPush, AppendProperties
    <3> QED
      BY <2>1, <2>2, <3>1
  <2>3. CASE cola_blocked' = cola_blocked /\ cola_rota'
    <3>1. x \in Lugares["sc"] /\ Sale("sc", x) /\ "sc" \in Nombres
      BY <1>0, <1>1, <2>3, Traslados DEF Nombres
    <3>2. EnAlgunLugar(x.id) /\ x.id \in Procesos
      BY <2>1, <3>1, Nombrados DEF EnAlgunLugar, PCB
    <3>3. \A l \in Nombres : \A u \in Lugares'[l] : u.id # x.id
      BY <3>1, Nombrados DEF Sale, Solo, EnUnSoloLugar, Ubicados
    <3>4. ~EnAlgunLugar(x.id)'
      BY <3>3, Nombrados DEF EnAlgunLugar
    <3>5. consola'[x.id] = "esperando"
      BY <1>1, <3>2 DEF EnlazarBloqueado, sockets, Ubicados, ALoSumoUnExtraviado
    <3>6. Extraviado(x.id)'
      BY <3>4, <3>5 DEF Extraviado
    <3>7. Extraviado(sc.pcb.id)'
      BY <2>1, <3>6
    <3> QED
      BY <2>3, <3>7
  <2> QED
    BY <1>1, <2>1, <2>2, <2>3 DEF EnlazarBloqueado
<1>2. CASE sc' = sc /\ cola_rota' = cola_rota /\ cola_rota
  <2>1. Extraviado(x.id) /\ x.id \in Procesos
    BY <1>0, <1>2 DEF Ubicados, PorCrearSuspensor, TypeOK, KernelTypeOK, TipoSc, ScConPCB, PCB
  <2>2. Extraviado(x.id)'
    BY <2>1, PasoLugares
  <2>3. Extraviado(sc.pcb.id)'
    BY <1>0, <1>2, <2>2
  <2> QED
    BY <1>2, <2>3
<1>3. CASE sc' = sc /\ cola_rota' = cola_rota /\ ~cola_rota /\ cola_blocked' = cola_blocked
  BY <1>3 DEF Ubicados, PorCrearSuspensor
<1>4. CASE sc' = sc /\ cola_rota' = cola_rota /\ ~cola_rota /\ TomarBloqueado
           /\ cola_blocked' # cola_blocked
  <2>1. cola_blocked # <<>> /\ cola_blocked' = Tail(cola_blocked)
    BY <1>4 DEF TomarBloqueado
  <2>2. sem["proceso_en_io"] > 0 /\ sem["proceso_en_io"] \in Nat
    BY <1>4 DEF TomarBloqueado, sem_wait, TypeOK, KernelTypeOK, Semaforos
  <2>3. BlockedDeSc = 1
    BY <1>4 DEF BlockedDeSc, Uno
  <2>4. Len(cola_blocked) > 1
    BY <1>4, <2>2, <2>3 DEF Cuentas, CuentaBlocked
  <2>5. cola_blocked[Len(cola_blocked)] = sc.pcb
    BY <1>4 DEF Ubicados, PorCrearSuspensor
  <2>6. cola_blocked' # <<>> /\ cola_blocked'[Len(cola_blocked')] = sc.pcb
    BY <2>1, <2>4, <2>5, Pop DEF TypeOK, Ubicados
  <2> QED
    BY <1>4, <2>6
<1> QED
  BY <1>1, <1>2, <1>3, <1>4, PasosDeBlocked

\* Nobody is evicted under FIFO.
LEMMA PasoDesalojo ==
  ASSUME TypeOK, Cuentas, Ubicados, Next
  PROVE  SinDesalojo'
<1> USE DEF En
<1>1. CASE RecibirSyscall
  <2>1. /\ syscalls' = <<>> /\ Head(syscalls).instruccion \in {"IO", "EXIT"}
    BY <1>1, UnaSyscall DEF RecibirSyscall, Ubicados, SinDesalojo, Syscalls
  <2>2. sc'.en \notin {"desalojar", "avisar_ready"}
    BY <1>1, <2>1 DEF RecibirSyscall
  <2> QED
    BY <2>1, <2>2, Vacio DEF SinDesalojo
<1>2. CASE CpuIO \/ CpuExit
  <2>1. syscalls = <<>> /\ sc' = sc
    BY <1>2, UnaSyscall DEF CpuIO, CpuExit
  <2>2. \E m : syscalls' = <<m>> /\ m.instruccion # "DESALOJO"
    BY <1>2, <2>1 DEF CpuIO, CpuExit
  <2> QED
    BY <2>1, <2>2 DEF SinDesalojo, Ubicados
<1>3. CASE BuscarUltimo \/ EnlazarBloqueado \/ CrearSuspensor \/ AvisarIO \/ LiberarGrado
           \/ PedirFin \/ RecibirFin \/ ResponderConsola \/ AvisarFin
  <2>1. syscalls' = syscalls
    BY <1>3 DEF BuscarUltimo, EnlazarBloqueado, CrearSuspensor, AvisarIO, LiberarGrado,
       PedirFin, RecibirFin, ResponderConsola, AvisarFin, cpu_vars
  <2>2. sc'.en \notin {"desalojar", "avisar_ready"}
    BY <1>3 DEF BuscarUltimo, EnlazarBloqueado, CrearSuspensor, AvisarIO, LiberarGrado,
       PedirFin, RecibirFin, ResponderConsola, AvisarFin, TypeOK, KernelTypeOK, TipoSc
  <2> QED
    BY <2>1, <2>2 DEF SinDesalojo, Ubicados
<1>4. CASE \/ HiloRecibirProcesos \/ HiloPasarAReady \/ AtenderPedido
           \/ HiloReadyAExecuting \/ CpuRecibir \/ CpuAcceder
           \/ \E b \in Bloqueos : Suspensor(b)
  <2>1. UNCHANGED <<sc, syscalls>>
    BY <1>4 DEF HiloRecibirProcesos, RecibirProceso, AvisarNew, HiloPasarAReady,
       EsperarProceso, TomarGrado, SacarDeNew, SacarDeSuspendedReady, PedirTablas,
       RecibirTablas, EncolarReady, AvisarReady, AtenderPedido, CpuRecibir,
       CpuAcceder, HiloReadyAExecuting, EsperarReady, EsperarFin,
       Despachar, Suspensor, Despertar, Cancelar, TomarSuspendiendo, PedirSuspension,
       RecibirSuspension, cpu_vars
  <2> QED
    BY <2>1 DEF SinDesalojo, Ubicados
<1>5. CASE \/ TomarBloqueado \/ TerminarIO \/ PasarASuspendedReady \/ LiberarGradoSuspendido
           \/ AvisarSuspendedReady \/ PasarAReady \/ AvisarReadyIO \/ SoltarSuspendiendo
  <2>1. UNCHANGED <<sc, syscalls>>
    BY <1>5 DEF TomarBloqueado, TerminarIO, PasarASuspendedReady, LiberarGradoSuspendido,
       AvisarSuspendedReady, PasarAReady, AvisarReadyIO, SoltarSuspendiendo, cpu_vars
  <2> QED
    BY <2>1 DEF SinDesalojo, Ubicados
<1> QED
  BY <1>1, <1>2, <1>3, <1>4, <1>5 DEF Next, DelKernel, HiloSyscall, HiloIO, HiloCpu

\* Ubicados is kept by every step, and holds at the start.
LEMMA PasoUbicados == TypeOK /\ Cuentas /\ Ubicados /\ [Next]_vars => Ubicados'
<1>1. ASSUME TypeOK, Cuentas, Ubicados, Next PROVE Ubicados'
  BY <1>1, PasoLugares, PasoSinRepetidos, PasoPorCrear, PasoDesalojo DEF Ubicados
<1>2. ASSUME Ubicados, UNCHANGED vars PROVE Ubicados'
  <2>1. UNCHANGED <<Lugares, consola, cola_rota, cola_new, cola_ready, cola_blocked,
                    cola_suspended_ready, dispatch, syscalls, sc>>
    BY <1>2 DEF vars, kernel_vars, colas, cpu_vars, sockets, carrera, Lugares
  <2>2. EnUnSoloLugar' /\ SinRepetidos' /\ SinDesalojo'
    BY <1>2, <2>1 DEF Ubicados, EnUnSoloLugar, SinRepetidos, SinDesalojo
  <2>3. ALoSumoUnExtraviado' /\ PorCrearSuspensor'
    BY <1>2, <2>1 DEF Ubicados, ALoSumoUnExtraviado, PorCrearSuspensor, Extraviado,
       EnAlgunLugar
  <2> QED
    BY <2>2, <2>3 DEF Ubicados
<1> QED
  BY <1>1, <1>2

LEMMA InitUbicados == Init => Ubicados
<1> SUFFICES ASSUME Init PROVE Ubicados
  OBVIOUS
<1>1. /\ cola_new = <<>> /\ cola_ready = <<>> /\ cola_blocked = <<>>
      /\ cola_suspended_ready = <<>> /\ dispatch = <<>> /\ syscalls = <<>>
      /\ cpu = NULO /\ lp.pcb = NULO /\ io.pcb = NULO /\ sc.en = "esperar"
      /\ \A p \in Procesos : consola[p] = "sin_conectar"
  BY DEF Init, KernelInit, En
<1>2. {m.pcb : m \in Range(syscalls)} = {}
  BY <1>1, Vacio
<1>3. \A l \in Nombres : Lugares[l] = {}
  BY <1>1, <1>2, Vacio DEF Lugares, Nombres, ScDuenio
<1>4. EnUnSoloLugar /\ ALoSumoUnExtraviado
  BY <1>1, <1>3, Nombrados DEF EnUnSoloLugar, ALoSumoUnExtraviado, EnAlgunLugar, Extraviado
<1>5. SinRepetidos /\ PorCrearSuspensor /\ SinDesalojo
  BY <1>1, Vacio DEF SinRepetidos, Distintos, PorCrearSuspensor, SinDesalojo
<1> QED
  BY <1>4, <1>5 DEF Ubicados

-----------------------------------------------------------------------------
\* Theorems

\* Every variable keeps its type: in particular no thread goes on with a PCB
\* that is not one, and no semaphore is taken below zero.
THEOREM TiposCorrectos == Spec => []TypeOK
  BY InitTypeOK, NextTypeOK, PTL DEF Spec

\* The accounts that tie each semaphore to its queue hold in every state.
THEOREM CuentasCorrectas == Spec => []Cuentas
  BY TiposCorrectos, InitCuentas, PasoCuentas, PTL DEF Spec

\* queue_pop never finds new, suspended-ready or ready empty: the kernel
\* crashes, if it does, because of the unguarded cola_blocked.
THEOREM SoloCaePorLaCarrera == Spec => []CaidaSoloPorCarrera
<1>1. Cuentas => CaidaSoloPorCarrera
  BY DEF Cuentas
<1> QED
  BY <1>1, CuentasCorrectas, PTL

\* Under FIFO one process at most is between its dispatch and the end of its
\* system call.
THEOREM CPUExclusiva == Spec => []UnSoloProcesoEnCPU
<1>1. Cuentas => UnSoloProcesoEnCPU
  BY DEF Cuentas
<1> QED
  BY <1>1, CuentasCorrectas, PTL

\* The places taken, the places free and the one the race can lose add up to
\* the degree of multiprogramming, for every degree.
THEOREM GradoSiempreRespetado == Spec => []GradoRespetado
<1>1. Cuentas => GradoRespetado
  BY DEF Cuentas
<1> QED
  BY <1>1, CuentasCorrectas, PTL

\* Where each process is, as the code means it to be, in every state.
THEOREM SiempreUbicados == Spec => []Ubicados
  BY TiposCorrectos, CuentasCorrectas, InitUbicados, PasoUbicados, PTL DEF Spec

\* No process is lost or in two places at once, but for the one block that the
\* race on cola_blocked may drop, whatever the interleaving of the threads.
THEOREM NadieSePierdeNiDuplica == Spec => []NiPerdidoNiDuplicado
<1>1. TypeOK /\ Ubicados => NiPerdidoNiDuplicado
  <2> SUFFICES ASSUME TypeOK, Ubicados PROVE NiPerdidoNiDuplicado
    OBVIOUS
  <2>1. ASSUME NEW p \in Procesos
        PROVE  LET donde == {l \in DOMAIN Lugares : \E x \in Lugares[l] : x.id = p} IN
                 /\ Cardinality(donde) <= 1
                 /\ consola[p] = "esperando" /\ ~cola_rota => Cardinality(donde) = 1
    <3> DEFINE donde == {l \in DOMAIN Lugares : \E x \in Lugares[l] : x.id = p}
    <3>1. \A l, m \in donde : l = m
      BY DEF Ubicados, EnUnSoloLugar
    <3>2. donde = {} \/ \E l : donde = {l}
      BY <3>1
    <3>3. consola[p] = "esperando" /\ ~cola_rota => donde # {}
      BY DEF Ubicados, ALoSumoUnExtraviado, Extraviado, EnAlgunLugar
    <3> HIDE DEF donde
    <3>4. CASE donde = {}
      <4>1. Cardinality(donde) = 0
        BY <3>4, FS_EmptySet
      <4> QED
        BY <3>3, <3>4, <4>1 DEF donde
    <3>5. ASSUME NEW l, donde = {l} PROVE Cardinality(donde) = 1
      BY <3>5, FS_Singleton
    <3>6. CASE donde # {}
      <4>1. Cardinality(donde) = 1
        BY <3>2, <3>5, <3>6
      <4> QED
        BY <4>1 DEF donde
    <3> QED
      BY <3>4, <3>6
  <2>2. ASSUME NEW cola \in {cola_new, cola_ready, cola_blocked, cola_suspended_ready, dispatch}
        PROVE  Cardinality(Ids(cola)) = Len(cola)
    BY IdsContados DEF Ubicados, SinRepetidos, TypeOK, KernelTypeOK, TipoColas, TipoCpu
  <2> QED
    BY <2>1, <2>2 DEF NiPerdidoNiDuplicado
<1> QED
  BY <1>1, TiposCorrectos, SiempreUbicados, PTL
=============================================================================
