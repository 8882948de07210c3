---------------------- MODULE KernelFIFOMemoria_proofs ----------------------
(***************************************************************************)
(* Theorems about KernelFIFO, continued: the suspension of processes, what *)
(* the kernel and the memory module say to each other, what memory has of  *)
(* each process, and the life cycle of processes that KernelFIFO           *)
(* implements: every step of a thread takes at most one process from one   *)
(* state of it to the next.                                                *)
(***************************************************************************)
EXTENDS KernelFIFO_proofs

-----------------------------------------------------------------------------
\* Which thread changes what

\* Each variable is changed by the steps named here only.
Marco ==
  /\ consola' = consola \/ (\E p \in Procesos : RecibirProceso(p)) \/ ResponderConsola
  /\ memoria' = memoria \/ AtenderPedido \/ CpuAcceder
  /\ syscalls' = syscalls \/ RecibirSyscall \/ CpuIO \/ CpuExit
  /\ cpu' = cpu \/ CpuRecibir \/ CpuIO \/ CpuExit
  /\ lp' = lp \/ HiloPasarAReady
  /\ sc' = sc \/ HiloSyscall \/ AvisarFin
  /\ io' = io \/ HiloIO
  /\ susp' = susp \/ CrearSuspensor \/ \E b \in Bloqueos : Suspensor(b)
  /\ cancelado' = cancelado \/ PasarAReady
  /\ esta_suspendido' = esta_suspendido \/ \E b \in Bloqueos : PedirSuspension(b)
  /\ respuestas' = respuestas \/ RecibirTablas \/ RecibirFin \/ AtenderPedido
       \/ \E b \in Bloqueos : RecibirSuspension(b)

\* Each step of the system is a step of one thread, and changes what that thread may.
LEMMA NextMarco == Next => Marco
<1>1. CASE DelKernel /\ UNCHANGED cpu
  BY <1>1, DelKernelMarco, SocketDeSyscalls DEF Marco, MarcoDelKernel
<1>2. CASE AvisarFin
  <2>1. UNCHANGED <<consola, memoria, syscalls, cpu, lp, io, susp, cancelado, esta_suspendido,
                    respuestas>>
    BY <1>2 DEF AvisarFin, sockets, cpu_vars, suspension
  <2> QED
    BY <1>2, <2>1 DEF Marco
<1>3. CASE HiloReadyAExecuting \/ HiloCpu
  <2>1. UNCHANGED <<consola, lp, sc, io, susp, cancelado, esta_suspendido, respuestas>>
    BY <1>3 DEF EsperarReady, EsperarFin, Despachar, CpuRecibir, CpuAcceder, CpuIO, CpuExit,
       HiloReadyAExecuting, HiloCpu, sockets, cpu_vars, suspension
  <2>2. /\ memoria' = memoria \/ CpuAcceder
        /\ syscalls' = syscalls \/ CpuIO \/ CpuExit
        /\ cpu' = cpu \/ CpuRecibir \/ CpuIO \/ CpuExit
    BY <1>3 DEF EsperarReady, EsperarFin, Despachar, CpuRecibir, CpuAcceder, CpuIO, CpuExit,
       HiloReadyAExecuting, HiloCpu, sockets, cpu_vars, suspension
  <2> QED
    BY <1>3, <2>1, <2>2 DEF Marco
<1> QED
  BY <1>1, <1>2, <1>3 DEF Next

\* What the scheduler and the CPU leave to the threads of Kernel.
LEMMA PasosDeLaCpu ==
  ASSUME TypeOK, Next, ~(DelKernel /\ UNCHANGED cpu)
  PROVE  /\ UNCHANGED <<cola_new, cola_suspended_ready, cola_blocked, lp, io, suspension>>
         /\ sem'["suspendiendo"] = sem["suspendiendo"]
         /\ sc' = sc \/ AvisarFin
<1>1. CASE AvisarFin
  BY <1>1, SemAjeno DEF AvisarFin, colas, TypeOK, KernelTypeOK, Semaforos
<1>2. CASE HiloReadyAExecuting \/ HiloCpu
  BY <1>2, SemAjeno DEF EsperarReady, EsperarFin, Despachar, CpuRecibir, CpuAcceder, CpuIO,
     CpuExit, HiloReadyAExecuting, HiloCpu, colas, TypeOK, KernelTypeOK, Semaforos
<1> QED
  BY <1>1, <1>2 DEF Next

\* Who may have come to a place.
Llegada(l, x) ==
  \/ l = "new" /\ \E p \in Procesos : RecibirProceso(p) /\ x = PCBNuevo(p)
  \/ l = "lp" /\ SacarDeNew /\ x \in Lugares["new"] /\ lp' = En("crear", x)
  \/ l = "lp" /\ SacarDeSuspendedReady /\ x \in Lugares["suspended_ready"]
       /\ lp' = En("encolar", x)
  \/ l = "lp" /\ RecibirTablas /\ x = lp'.pcb /\ x.id = lp.pcb.id /\ x.pc = lp.pcb.pc
  \/ l = "ready" /\ EncolarReady /\ x = lp.pcb
  \/ l = "ready" /\ PasarAReady /\ x = io.pcb
  \/ l = "dispatch" /\ Despachar /\ x \in Lugares["ready"]
  \/ l = "cpu" /\ CpuRecibir /\ x \in Lugares["dispatch"]
  \/ l = "syscalls" /\ CpuIO /\ x = [cpu EXCEPT !.pc = @ + 1]
  \/ l = "syscalls" /\ CpuExit /\ x = cpu
  \/ l = "sc" /\ RecibirSyscall /\ x = Head(syscalls).pcb /\ x \in Lugares["syscalls"]
  \/ l = "blocked" /\ EnlazarBloqueado /\ x = sc.pcb
  \/ l = "io" /\ TomarBloqueado /\ x \in Lugares["blocked"] /\ io' = En("durmiendo", x)
  \/ l = "suspended_ready" /\ PasarASuspendedReady /\ x = io.pcb

\* A PCB is where it was, or has just arrived.
LEMMA Llegadas ==
  ASSUME TypeOK, Cuentas, Ubicados, Next,
         NEW l \in Nombres, NEW x \in Lugares'[l], x \notin Lugares[l]
  PROVE  Llegada(l, x)
<1>q. ~Quieto
  BY DEF Quieto
<1>m. ASSUME NEW a \in Nombres, NEW u \in Lugares[a], NEW b \in Nombres, NEW v,
             Muda(a, u, b, v)
      PROVE  l = b /\ x = v
  BY <1>m DEF Muda, Solo
<1>s. ASSUME NEW a \in Nombres, NEW u, Sale(a, u) PROVE FALSE
  BY <1>s DEF Sale, Solo
<1>n. /\ "new" \in Nombres /\ "ready" \in Nombres /\ "blocked" \in Nombres
      /\ "suspended_ready" \in Nombres /\ "dispatch" \in Nombres /\ "syscalls" \in Nombres
      /\ "cpu" \in Nombres /\ "lp" \in Nombres /\ "io" \in Nombres /\ "sc" \in Nombres
  BY DEF Nombres
<1>1. CASE UNCHANGED cpu /\ SacarDeNew
  BY <1>1, <1>q, <1>m, <1>n, Traslados, Quietos DEF SacarDeNew, Llegada
<1>2. CASE UNCHANGED cpu /\ SacarDeSuspendedReady
  BY <1>2, <1>q, <1>m, <1>n, Traslados, Quietos DEF SacarDeSuspendedReady, Llegada
<1>3. CASE UNCHANGED cpu /\ RecibirTablas
  BY <1>3, <1>m, <1>n, Traslados DEF Llegada
<1>4. CASE UNCHANGED cpu /\ EncolarReady
  BY <1>4, <1>m, <1>n, Traslados DEF Llegada
<1>5. CASE UNCHANGED cpu /\ RecibirSyscall
  BY <1>5, <1>m, <1>n, Traslados DEF Llegada
<1>6. CASE UNCHANGED cpu /\ TomarBloqueado
  BY <1>6, <1>q, <1>m, <1>n, Traslados, Quietos DEF TomarBloqueado, Next, Llegada
<1>7. CASE UNCHANGED cpu /\ PasarASuspendedReady
  BY <1>7, <1>m, <1>n, Traslados DEF Llegada
<1>8. CASE UNCHANGED cpu /\ PasarAReady
  BY <1>8, <1>m, <1>n, Traslados DEF Llegada
<1>9. CASE Despachar
  BY <1>9, <1>q, <1>m, <1>n, TrasladosCpu, Quietos DEF Llegada
<1>10. CASE CpuRecibir
  BY <1>10, <1>m, <1>n, TrasladosCpu DEF Llegada
<1>11. CASE CpuIO
  BY <1>11, <1>m, <1>n, TrasladosCpu DEF Llegada
<1>12. CASE CpuExit
  BY <1>12, <1>m, <1>n, TrasladosCpu DEF Llegada
<1>13. CASE UNCHANGED cpu /\ EnlazarBloqueado
  <2>1. cola_blocked' = Append(cola_blocked, sc.pcb) \/ cola_blocked' = cola_blocked
    BY <1>13 DEF EnlazarBloqueado
  <2> QED
    BY <1>13, <2>1, <1>m, <1>s, <1>n, Traslados DEF Llegada
<1>14. CASE UNCHANGED cpu /\ ResponderConsola
  BY <1>14, <1>s, <1>n, Traslados
<1>15. ASSUME NEW p \in Procesos, UNCHANGED cpu, RecibirProceso(p) PROVE Llegada(l, x)
  <2>1. Entra("new", PCBNuevo(p))
    BY <1>15, Traslados
  <2>2. l = "new" /\ x = PCBNuevo(p)
    BY <2>1 DEF Entra, Solo
  <2> QED
    BY <1>15, <2>2 DEF Llegada
<1>16. CASE \/ UNCHANGED cpu /\ (AvisarNew \/ EsperarProceso \/ TomarGrado \/ PedirTablas
                              \/ AvisarReady \/ BuscarUltimo \/ CrearSuspensor
                              \/ AvisarIO \/ LiberarGrado \/ PedirFin \/ RecibirFin
                              \/ TerminarIO \/ LiberarGradoSuspendido
                              \/ AvisarSuspendedReady \/ AvisarReadyIO
                              \/ SoltarSuspendiendo \/ AtenderPedido
                              \/ \E b \in Bloqueos : Suspensor(b))
          \/ EsperarReady \/ EsperarFin \/ AvisarFin \/ CpuAcceder
  BY <1>16, <1>q, Quietos
<1> QED
  BY <1>1, <1>2, <1>3, <1>4, <1>5, <1>6, <1>7, <1>8, <1>9, <1>10, <1>11, <1>12, <1>13,
     <1>14, <1>15, <1>16
     DEF Next, DelKernel, HiloRecibirProcesos, HiloPasarAReady, HiloSyscall, HiloIO,
     HiloReadyAExecuting, HiloCpu

-----------------------------------------------------------------------------
\* How many times a process has been blocked

\* What esperar_syscall receives, and what it does next.
LEMMA SyscallRecibida ==
  ASSUME TypeOK, Cuentas, Ubicados, RecibirSyscall
  PROVE  /\ syscalls' = <<>> /\ 1 \in DOMAIN syscalls /\ syscalls[1] = Head(syscalls)
         /\ \/ Head(syscalls).instruccion = "IO" /\ sc' = En("bloquear", Head(syscalls).pcb)
            \/ /\ Head(syscalls).instruccion = "EXIT"
               /\ sc' = En("liberar_grado", Head(syscalls).pcb)
<1>1. /\ syscalls' = <<>> /\ 1 \in DOMAIN syscalls /\ syscalls[1] = Head(syscalls)
      /\ Head(syscalls) \in Syscalls
  BY UnaSyscall DEF RecibirSyscall
<1>2. Head(syscalls).instruccion \in {"IO", "EXIT"}
  BY <1>1 DEF Ubicados, SinDesalojo, Syscalls
<1> QED
  BY <1>1, <1>2 DEF RecibirSyscall

\* What the CPU leaves in the socket when it gives a process back.
LEMMA SyscallHecha ==
  ASSUME TypeOK, Cuentas, CpuIO \/ CpuExit
  PROVE  /\ DOMAIN syscalls' = {1} /\ cpu \in PCB /\ sc' = sc /\ sc.en = "esperar"
         /\ CpuIO => /\ cpu.pc < MaxIO /\ [cpu EXCEPT !.pc = @ + 1] \in PCB
                     /\ syscalls'[1] = [instruccion |-> "IO",
                                        pcb |-> [cpu EXCEPT !.pc = @ + 1]]
         /\ CpuExit => syscalls'[1] = [instruccion |-> "EXIT", pcb |-> cpu]
<1>1. syscalls = <<>> /\ cpu \in PCB /\ sc' = sc /\ sc.en = "esperar"
  BY UnaSyscall DEF CpuIO, CpuExit, TypeOK
<1>2. CpuIO => cpu.pc < MaxIO /\ [cpu EXCEPT !.pc = @ + 1] \in PCB
  BY <1>1, KernelAssumption DEF CpuIO, PCB, KernelAssumption
<1>3. \A m : Append(<<>>, m) = <<m>> /\ DOMAIN <<m>> = {1} /\ <<m>>[1] = m
  OBVIOUS
<1> QED
  BY <1>1, <1>2, <1>3 DEF CpuIO, CpuExit

\* The steps of esperar_syscall up to the creation of a suspensor.
LEMMA PasosDeSc ==
  ASSUME TypeOK, Next, sc'.en \in {"bloquear", "enlazar", "crear_suspensor"}
  PROVE  \/ RecibirSyscall
         \/ sc'.pcb = sc.pcb /\ sc.en \in {"bloquear", "enlazar", "crear_suspensor"}
<1>1. ~AvisarFin
  BY DEF AvisarFin, En
<1> QED
  BY <1>1, PasosDeScDelKernel, PasosDeLaCpu DEF TypeOK

\* Those of pasar_a_ready with a process that is being admitted.
LEMMA PasosDeLp ==
  ASSUME TypeOK, Next, lp'.en \in {"crear", "recibir"}
  PROVE  \/ SacarDeNew /\ cola_new # <<>>
         \/ lp'.pcb = lp.pcb /\ lp.en \in {"crear", "recibir"}
  BY PasosDeLpDelKernel, PasosDeLaCpu DEF TypeOK

\* A process has been blocked as many times as its pc says, wherever it is.
LEMMA PasoEdades ==
  ASSUME TypeOK, Cuentas, Ubicados, Edades, Next
  PROVE  Edades'
<1>1. CASE DelKernel
  BY <1>1, PasoEdadesDelKernel DEF TypeOK, Ubicados
<1>2. CASE ~DelKernel
  <2>1. sc' = sc \/ sc'.en \notin {"bloquear", "enlazar", "crear_suspensor"}
    BY <1>2, PasosDeLaCpu DEF AvisarFin, En
  <2>2. ASSUME NEW m \in Range(syscalls'), m \notin Range(syscalls), m.instruccion = "IO"
        PROVE  m.pcb.pc > 0
    <3>1. CpuIO \/ CpuExit
      BY <1>2, <2>2, NextMarco DEF Marco, DelKernel, HiloSyscall
    <3>2. m = syscalls'[1]
      BY <2>2, <3>1, SyscallHecha DEF Range
    <3>3. CpuIO /\ cpu \in PCB /\ m.pcb.pc = cpu.pc + 1
      BY <2>2, <3>1, <3>2, SyscallHecha DEF PCB
    <3> QED
      BY <3>3, KernelAssumption DEF PCB, KernelAssumption
  <2> QED
    BY <1>2, <2>1, <2>2, PasosDeLaCpu, EdadesAjenas
<1> QED
  BY <1>1, <1>2

-----------------------------------------------------------------------------
\* Suspensors

\* A block of which nobody has pushed the PCB yet has no suspensor: they are
\* created by CrearSuspensor only.
LEMMA PasosDeSuspensor ==
  ASSUME TypeOK, Next
  PROVE  /\ \A b \in Bloqueos : susp[b] = "no_creado" /\ susp'[b] # "no_creado" =>
              CrearSuspensor /\ b = Bloqueo(sc.pcb)
         /\ \A b \in Bloqueos : Vivo(b)' => Vivo(b) \/ (CrearSuspensor /\ b = Bloqueo(sc.pcb))
<1>1. CASE susp' = susp
  <2>1. cancelado \subseteq cancelado'
    BY NextMarco DEF Marco, PasarAReady
  <2> QED
    BY <1>1, <2>1 DEF Vivo
<1>2. CASE CrearSuspensor
  <2>1. cancelado' = cancelado /\ sc.pcb \in PCB
    BY <1>2 DEF CrearSuspensor, TypeOK, KernelTypeOK, TipoSc, ScConPCB
  <2>2. \A b \in Bloqueos : b # Bloqueo(sc.pcb) => susp'[b] = susp[b]
    BY <1>2 DEF CrearSuspensor, TypeOK, KernelTypeOK, TipoSuspension
  <2> QED
    BY <1>2, <2>1, <2>2 DEF Vivo
<1>3. ASSUME NEW c \in Bloqueos, Suspensor(c)
      PROVE  \A b \in Bloqueos : /\ susp[b] = "no_creado" => susp'[b] = "no_creado"
                                 /\ Vivo(b)' => Vivo(b)
  <2>1. cancelado' = cancelado
    BY <1>3 DEF Suspensor, Despertar, Cancelar, TomarSuspendiendo, PedirSuspension,
       RecibirSuspension, suspension
  <2>2. \A b \in Bloqueos : b # c => susp'[b] = susp[b]
    BY <1>3 DEF Suspensor, Despertar, Cancelar, TomarSuspendiendo, PedirSuspension,
       RecibirSuspension, TypeOK, KernelTypeOK, TipoSuspension
  <2>3. susp[c] \notin {"no_creado", "terminado"}
    BY <1>3 DEF Suspensor, Despertar, Cancelar, TomarSuspendiendo, PedirSuspension,
       RecibirSuspension
  <2> QED
    BY <2>1, <2>2, <2>3 DEF Vivo
<1> QED
  BY <1>1, <1>2, <1>3, NextMarco DEF Marco

\* The process whose suspensor is to be created is in cola_blocked or lost.
LEMMA DondeEstaElNuevo ==
  ASSUME TypeOK, Cuentas, Ubicados, CrearSuspensor
  PROVE  /\ sc.pcb \in PCB /\ consola[sc.pcb.id] = "esperando"
         /\ \A l \in Nombres : \A x \in Lugares[l] :
              x.id = sc.pcb.id => l = "blocked" /\ x = sc.pcb
<1>1. sc.en = "crear_suspensor" /\ sc.pcb \in PCB /\ sc.pcb.id \in Procesos
  BY DEF CrearSuspensor, TypeOK, KernelTypeOK, TipoSc, ScConPCB, PCB
<1>2. CASE cola_rota
  BY <1>1, <1>2, Nombrados DEF Ubicados, PorCrearSuspensor, Extraviado, EnAlgunLugar
<1>3. CASE ~cola_rota
  <2>1. cola_blocked # <<>> /\ cola_blocked[Len(cola_blocked)] = sc.pcb
    BY <1>1, <1>3 DEF Ubicados, PorCrearSuspensor
  <2>2. cola_blocked \in Seq(PCB)
    BY DEF TypeOK, KernelTypeOK, TipoColas
  <2>3. Len(cola_blocked) \in DOMAIN cola_blocked
    <3>1. Len(cola_blocked) \in Nat /\ Len(cola_blocked) # 0
      BY <2>1, <2>2, ColaLen
    <3>2. DOMAIN cola_blocked = 1..Len(cola_blocked)
      BY <2>2, LenProperties
    <3> QED
      BY <3>1, <3>2
  <2>4. sc.pcb \in Lugares["blocked"] /\ "blocked" \in Nombres
    BY <2>1, <2>3 DEF Lugares, Range, Nombres
  <2>5. consola[sc.pcb.id] = "esperando"
    BY <1>1, <2>4, Nombrados DEF Ubicados, ALoSumoUnExtraviado, EnAlgunLugar
  <2> QED
    BY <1>1, <2>4, <2>5, Nombrados DEF Ubicados, EnUnSoloLugar
<1> QED
  BY <1>2, <1>3

\* Places hold PCBs, after a step too.
LugaresDePCB == \A l \in Nombres : Lugares[l] \subseteq PCB

LEMMA TipoDeLugares == TypeOK => LugaresDePCB
  BY LugaresTipo DEF LugaresDePCB

\* The same, of the state after a step.
LEMMA TipoDeLugaresPrima == TypeOK' => LugaresDePCB'
  BY TipoDeLugares, PTL

\* A suspensor is created once for each block, and not before it.
LEMMA PasoSinSuspensorAun ==
  ASSUME TypeOK, Cuentas, Ubicados, SinSuspensorAun, Next
  PROVE  SinSuspensorAun'
<1> USE Nombrados
<1>1. ASSUME NEW b \in Bloqueos, consola'[b[1]] = "sin_conectar" PROVE susp'[b] = "no_creado"
  <2>0. b[1] \in Procesos
    BY DEF Bloqueos
  <2>1. consola[b[1]] = "sin_conectar"
    BY <1>1, <2>0, NextMarco
       DEF Marco, RecibirProceso, ResponderConsola, TypeOK, KernelTypeOK, TipoSockets
  <2>2. ~(CrearSuspensor /\ b = Bloqueo(sc.pcb))
    BY <2>1, DondeEstaElNuevo DEF Bloqueo
  <2> QED
    BY <2>1, <2>2, PasosDeSuspensor DEF SinSuspensorAun
<1>2. ASSUME NEW l \in Nombres, NEW x \in Lugares'[l], NEW b \in Bloqueos,
             b[1] = x.id, b[2] > x.pc
      PROVE  susp'[b] = "no_creado"
  <2>0. x \in PCB /\ x.pc \in Nat /\ b[2] \in Nat
    <3>1. x \in PCB
      BY NextTypeOK, TipoDeLugaresPrima DEF LugaresDePCB
    <3> QED
      BY <3>1, KernelAssumption DEF PCB, Bloqueos, KernelAssumption
  <2>1. ASSUME NEW m \in Nombres, NEW y \in Lugares[m], y.id = x.id, y.pc <= x.pc
        PROVE  susp'[b] = "no_creado"
    <3>1. y \in PCB /\ y.pc \in Nat
      BY <2>1, LugaresTipo, KernelAssumption DEF PCB, KernelAssumption
    <3>2. b[2] > y.pc
      BY <1>2, <2>0, <2>1, <3>1
    <3>3. susp[b] = "no_creado"
      BY <1>2, <2>1, <3>2 DEF SinSuspensorAun
    <3>4. ~(CrearSuspensor /\ b = Bloqueo(sc.pcb))
      <4>1. ASSUME CrearSuspensor, b = Bloqueo(sc.pcb) PROVE FALSE
        <5>1. y.id = sc.pcb.id /\ b[2] = sc.pcb.pc
          BY <1>2, <2>1, <4>1 DEF Bloqueo
        <5>2. y = sc.pcb
          BY <2>1, <4>1, <5>1, DondeEstaElNuevo
        <5> QED
          BY <2>0, <3>2, <5>1, <5>2
      <4> QED
        BY <4>1
    <3> QED
      BY <3>3, <3>4, PasosDeSuspensor
  <2>2. CASE x \in Lugares[l]
    BY <2>0, <2>1, <2>2
  <2>3. CASE Trasladado
    <3>0. PICK a \in Nombres, c \in Nombres :
            \E u \in Lugares[a], v \in PCB : v.id = u.id /\ v.pc >= u.pc /\ Muda(a, u, c, v)
      BY <2>3 DEF Trasladado
    <3>1. PICK u \in Lugares[a], v \in PCB : v.id = u.id /\ v.pc >= u.pc /\ Muda(a, u, c, v)
      BY <3>0
    <3>2. x \in Lugares[l] \/ x = v
      BY <3>1 DEF Muda, Solo
    <3>3. u.pc \in Nat /\ v.pc \in Nat
      BY <3>1, LugaresTipo, KernelAssumption DEF PCB, KernelAssumption
    <3>4. x = v => u.id = x.id /\ u.pc <= x.pc
      BY <3>1, <3>3
    <3> QED
      BY <2>1, <2>2, <3>1, <3>2, <3>4
  <2>4. ASSUME NEW p \in Procesos, RecibirProceso(p), UNCHANGED cpu
        PROVE  susp'[b] = "no_creado"
    <3>1. x \in Lugares[l] \/ x = PCBNuevo(p)
      BY <2>4, Traslados DEF Entra, Solo
    <3>2. consola[p] = "sin_conectar" /\ sc'.en = sc.en
      BY <2>4 DEF RecibirProceso
    <3>3. CASE x = PCBNuevo(p)
      <4>1. b[1] = p
        BY <1>2, <3>3 DEF PCBNuevo
      <4>2. susp[b] = "no_creado"
        BY <3>2, <4>1 DEF SinSuspensorAun
      <4>3. ~(CrearSuspensor /\ b = Bloqueo(sc.pcb))
        BY <3>2, <4>1, DondeEstaElNuevo DEF Bloqueo
      <4> QED
        BY <4>2, <4>3, PasosDeSuspensor
    <3> QED
      BY <2>2, <3>1, <3>3
  <2>5. CASE Quieto
    BY <2>2, <2>5 DEF Quieto
  <2>6. CASE /\ UNCHANGED cpu
             /\ ResponderConsola \/ (EnlazarBloqueado /\ cola_blocked' = cola_blocked)
    BY <2>2, <2>6, Traslados DEF Sale
  <2> QED
    BY <2>2, <2>3, <2>4, <2>5, <2>6, Clases
<1>3. ASSUME NEW i \in DOMAIN syscalls', syscalls'[i].instruccion = "IO"
      PROVE  susp'[Bloqueo(syscalls'[i].pcb)] = "no_creado"
  <2>1. CASE syscalls' = syscalls
    <3>1. syscalls # <<>> /\ syscalls[i] \in Syscalls
      BY <1>3, <2>1, Vacio, ElementOfSeq, LenProperties DEF TypeOK, KernelTypeOK, TipoCpu
    <3>2. Bloqueo(syscalls[i].pcb) \in Bloqueos
      BY <3>1 DEF Syscalls, PCB, Bloqueo, Bloqueos
    <3>3. ~CrearSuspensor
      BY <3>1, UnaSyscall DEF CrearSuspensor
    <3> QED
      BY <1>3, <2>1, <3>2, <3>3, PasosDeSuspensor DEF SinSuspensorAun
  <2>2. CASE RecibirSyscall
    BY <1>3, <2>2, SyscallRecibida, Vacio
  <2>3. CASE CpuIO
    <3>1. PICK y : y = [cpu EXCEPT !.pc = @ + 1]
      OBVIOUS
    <3>2. /\ syscalls'[i].pcb = y /\ y \in PCB /\ cpu \in PCB
          /\ y.id = cpu.id /\ y.pc = cpu.pc + 1 /\ sc.en = "esperar"
      BY <1>3, <2>3, <3>1, SyscallHecha DEF PCB
    <3>3. Bloqueo(y) \in Bloqueos /\ Bloqueo(y)[1] = cpu.id /\ Bloqueo(y)[2] > cpu.pc
      BY <3>2, KernelAssumption DEF Bloqueo, Bloqueos, PCB, KernelAssumption
    <3>4. cpu \in Lugares["cpu"] /\ "cpu" \in Nombres
      BY <2>3, TrasladosCpu DEF Nombres
    <3>5. susp[Bloqueo(y)] = "no_creado"
      BY <3>3, <3>4 DEF SinSuspensorAun
    <3>6. ~CrearSuspensor
      BY <3>2 DEF CrearSuspensor
    <3> QED
      BY <3>2, <3>3, <3>5, <3>6, PasosDeSuspensor DEF Bloqueo
  <2>4. CASE CpuExit
    BY <1>3, <2>4, SyscallHecha
  <2> QED
    BY <2>1, <2>2, <2>3, <2>4, NextMarco DEF Marco
<1>4. ASSUME sc'.en \in {"bloquear", "enlazar", "crear_suspensor"}
      PROVE  susp'[Bloqueo(sc'.pcb)] = "no_creado"
  <2>0. PICK y : y = sc'.pcb
    OBVIOUS
  <2>1. y \in PCB /\ Bloqueo(y) \in Bloqueos
    BY <1>4, <2>0, NextTypeOK
       DEF TypeOK, KernelTypeOK, TipoSc, ScConPCB, PCB, Bloqueo, Bloqueos
  <2>2. susp[Bloqueo(y)] = "no_creado"
    <3>1. CASE RecibirSyscall
      BY <1>4, <2>0, <3>1, SyscallRecibida DEF En, SinSuspensorAun
    <3> QED
      BY <1>4, <2>0, <3>1, PasosDeSc DEF SinSuspensorAun
  <2>3. ~CrearSuspensor
    BY <1>4 DEF CrearSuspensor, TypeOK, KernelTypeOK, TipoSc
  <2>4. susp'[Bloqueo(y)] = "no_creado"
    BY <2>1, <2>2, <2>3, PasosDeSuspensor
  <2> QED
    BY <2>0, <2>4 DEF Bloqueo
<1> QED
  BY <1>1, <1>2, <1>3, <1>4 DEF SinSuspensorAun

\* suspendiendo is a mutex between hilo_io and the suspensors.
LEMMA PasoExclusion ==
  ASSUME TypeOK, Exclusion, EstaSuspendidoAlDia, Next
  PROVE  Exclusion'
  BY PasoExclusionDelKernel, PasosDeLaCpu, SuspensionAjena DEF TypeOK

\* While memory is asked to suspend a process, that process is blocked.
LEMMA PasoSuspensorAlDia ==
  ASSUME TypeOK, Cuentas, Ubicados, Suspensores, Next
  PROVE  SuspensorAlDia'
<1> USE Nombrados
<1>1. EstaSuspendidoAlDia'
  <2>1. CrearSuspensor => susp[Bloqueo(sc.pcb)] = "no_creado"
    BY DEF CrearSuspensor, Suspensores, SinSuspensorAun
  <2> QED
    BY <2>1, PasoEstaSuspendidoDelKernel, PasosDeLaCpu, SuspensionAjena
       DEF TypeOK, Suspensores, SuspensorAlDia
<1>m. /\ "new" \in Nombres /\ "ready" \in Nombres /\ "blocked" \in Nombres
      /\ "suspended_ready" \in Nombres /\ "dispatch" \in Nombres /\ "syscalls" \in Nombres
      /\ "cpu" \in Nombres /\ "lp" \in Nombres /\ "io" \in Nombres /\ "sc" \in Nombres
  BY DEF Nombres
<1>4. ASSUME NEW b \in Bloqueos, Vivo(b)', NEW l \in Nombres, NEW x \in Lugares'[l], x.id = b[1]
      PROVE  l \in {"blocked", "io"} /\ x.pc = b[2]
  <2>1. CASE CrearSuspensor /\ b = Bloqueo(sc.pcb)
    <3>1. cpu' = cpu
      BY <2>1, NextMarco DEF Marco, CrearSuspensor, CpuRecibir, CpuIO, CpuExit, TypeOK,
         KernelTypeOK, TipoSc
    <3>2. x \in Lugares[l]
      BY <2>1, <3>1, Quietos DEF Quieto
    <3> QED
      BY <1>4, <2>1, <3>2, DondeEstaElNuevo DEF Bloqueo
  <2>2. CASE Vivo(b)
    <3>1. ASSUME NEW m \in Nombres, NEW y \in Lugares[m], y.id = x.id
          PROVE  m \in {"blocked", "io"} /\ y.pc = b[2]
      BY <1>4, <2>2, <3>1 DEF Suspensores, SuspensorAlDia
    <3>2. CASE x \in Lugares[l]
      BY <3>1, <3>2
    <3>3. CASE \/ SacarDeNew /\ x \in Lugares["new"]
               \/ SacarDeSuspendedReady /\ x \in Lugares["suspended_ready"]
               \/ Despachar /\ x \in Lugares["ready"]
               \/ CpuRecibir /\ x \in Lugares["dispatch"]
               \/ RecibirSyscall /\ x \in Lugares["syscalls"]
      BY <1>m, <3>1, <3>3
    <3>4. CASE (RecibirTablas /\ x.id = lp.pcb.id) \/ (EncolarReady /\ x = lp.pcb)
      <4>1. lp.pcb \in Lugares["lp"]
        BY <3>4, NuloAssumption DEF RecibirTablas, EncolarReady, Lugares, TypeOK,
           KernelTypeOK, TipoLp, LpConPCB, NuloAssumption
      <4> QED
        BY <1>m, <3>1, <3>4, <4>1
    <3>5. CASE (CpuIO /\ x = [cpu EXCEPT !.pc = @ + 1]) \/ (CpuExit /\ x = cpu)
      <4>1. cpu \in Lugares["cpu"] /\ x.id = cpu.id
        BY <3>5, TrasladosCpu
      <4> QED
        BY <1>m, <3>1, <4>1
    <3>6. CASE EnlazarBloqueado /\ x = sc.pcb
      <4>1. sc.pcb \in Lugares["sc"]
        BY <3>6 DEF EnlazarBloqueado, Lugares, ScDuenio
      <4> QED
        BY <1>m, <3>1, <3>6, <4>1
    <3>7. CASE l = "io" /\ TomarBloqueado /\ x \in Lugares["blocked"]
      BY <1>m, <3>1, <3>7
    <3>8. ASSUME io.en \in {"suspended_ready", "ready"}, x = io.pcb
          PROVE  b = Bloqueo(io.pcb)
      <4>1. io.pcb \in Lugares["io"]
        BY <3>8, NuloAssumption DEF Lugares, TypeOK, KernelTypeOK, TipoIo, IoConPCB,
           NuloAssumption
      <4>2. b[1] = io.pcb.id /\ b[2] = io.pcb.pc
        BY <1>4, <1>m, <3>1, <3>8, <4>1
      <4> QED
        BY <4>2 DEF Bloqueos, Bloqueo
    <3>9. CASE PasarASuspendedReady /\ x = io.pcb
      <4>1. io.en = "suspended_ready" /\ b = Bloqueo(io.pcb)
        BY <3>8, <3>9 DEF PasarASuspendedReady
      <4>2. susp[b] = "pidiendo"
        BY <2>2, <4>1 DEF Vivo, Suspensores, SuspensorAlDia, EstaSuspendidoAlDia
      <4> QED
        BY <4>1, <4>2 DEF Suspensores, Exclusion, ConSuspendiendo, IoConSuspendiendo
    <3>10. CASE PasarAReady /\ x = io.pcb
      <4>1. b = Bloqueo(io.pcb)
        BY <3>8, <3>10 DEF PasarAReady
      <4> QED
        BY <1>4, <3>10, <4>1 DEF PasarAReady, Vivo
    <3>11. ASSUME NEW p \in Procesos, RecibirProceso(p), x = PCBNuevo(p)
           PROVE  FALSE
      BY <1>4, <2>2, <3>11 DEF RecibirProceso, PCBNuevo, Vivo, Suspensores, SinSuspensorAun
    <3> QED
      BY <3>2, <3>3, <3>4, <3>5, <3>6, <3>7, <3>9, <3>10, <3>11, Llegadas DEF Llegada
  <2> QED
    BY <1>4, <2>1, <2>2, PasosDeSuspensor
<1>5. ASSUME NEW b \in Bloqueos, Vivo(b)' PROVE consola'[b[1]] = "esperando"
  <2>0. b[1] \in Procesos
    BY DEF Bloqueos
  <2>1. consola[b[1]] = "esperando"
    BY <1>5, PasosDeSuspensor, DondeEstaElNuevo
       DEF Suspensores, SuspensorAlDia, Bloqueo
  <2>2. ASSUME ResponderConsola, sc.pcb.id = b[1] PROVE FALSE
    <3>1. sc.pcb \in Lugares["sc"]
      BY <2>2 DEF ResponderConsola, Lugares, ScDuenio
    <3>2. ~Vivo(b)
      BY <1>m, <2>2, <3>1 DEF Suspensores, SuspensorAlDia
    <3>3. ~CrearSuspensor
      BY <2>2 DEF ResponderConsola, CrearSuspensor
    <3> QED
      BY <1>5, <3>2, <3>3, PasosDeSuspensor
  <2> QED
    BY <2>0, <2>1, <2>2, NextMarco
       DEF Marco, RecibirProceso, ResponderConsola, TypeOK, KernelTypeOK, TipoSockets
<1> QED
  BY <1>1, <1>4, <1>5 DEF SuspensorAlDia

\* Suspensores is kept by every step, and holds at the start.
LEMMA PasoSuspensores ==
  TypeOK /\ Cuentas /\ Ubicados /\ Suspensores /\ [Next]_vars => Suspensores'
<1>1. ASSUME TypeOK, Cuentas, Ubicados, Suspensores, Next PROVE Suspensores'
  BY <1>1, PasoEdades, PasoSinSuspensorAun, PasoExclusion, PasoSuspensorAlDia
     DEF Suspensores, SuspensorAlDia
<1>2. ASSUME Suspensores, UNCHANGED vars PROVE Suspensores'
  <2>1. UNCHANGED <<Lugares, consola, cola_new, cola_suspended_ready, cola_blocked, lp, sc, io,
                    syscalls, sem, susp, cancelado, esta_suspendido>>
    BY <1>2 DEF vars, kernel_vars, colas, cpu_vars, sockets, suspension, Lugares
  <2>2. Edades' /\ SinSuspensorAun'
    BY <1>2, <2>1 DEF Suspensores, Edades, SinSuspensorAun, Bloqueo
  <2>3. Exclusion' /\ SuspensorAlDia'
    BY <1>2, <2>1 DEF Suspensores, Exclusion, SuspensorAlDia, EstaSuspendidoAlDia,
       ConSuspendiendo, Pidiendo, Vivo, Bloqueo, Uno
  <2> QED
    BY <2>2, <2>3 DEF Suspensores
<1> QED
  BY <1>1, <1>2

LEMMA InitSuspensores == Init => Suspensores
<1> SUFFICES ASSUME Init PROVE Suspensores
  OBVIOUS
<1>1. /\ syscalls = <<>> /\ lp.en = "esperar" /\ io.en = "esperar" /\ sc.en = "esperar"
      /\ \A b \in Bloqueos : susp[b] = "no_creado"
      /\ cancelado = {} /\ esta_suspendido = {} /\ sem["suspendiendo"] = 1
  BY DEF Init, KernelInit, En, Semaforos
<1>2. \A l \in Nombres : Lugares[l] = {}
  <2>1. {m.pcb : m \in Range(syscalls)} = {}
    BY <1>1, Vacio
  <2> QED
    BY <2>1, Vacio DEF Init, KernelInit, En, Lugares, Nombres, ScDuenio
<1>3. /\ cola_new = <<>> /\ cola_suspended_ready = <<>> /\ cola_blocked = <<>>
      /\ io.en \notin IoConPCB
  BY <1>1 DEF Init, KernelInit, IoConPCB
<1>4. ConSuspendiendo = {} /\ Pidiendo = {} /\ \A b \in Bloqueos : ~Vivo(b)
  BY <1>1 DEF ConSuspendiendo, Pidiendo, Vivo
<1>5. Edades /\ SinSuspensorAun
  BY <1>1, <1>2, <1>3, Vacio, Nombrados DEF Edades, SinSuspensorAun
<1>6. Exclusion /\ SuspensorAlDia
  BY <1>1, <1>4 DEF Exclusion, SuspensorAlDia, EstaSuspendidoAlDia, Uno, IoConSuspendiendo
<1> QED
  BY <1>5, <1>6 DEF Suspensores

-----------------------------------------------------------------------------
\* One request to memory at a time

\* A step that says nothing to memory and reads nothing from it.
NoHabla ==
  /\ UNCHANGED <<pedidos, respuestas>>
  /\ sem'["esperando_respuesta_memoria"] = sem["esperando_respuesta_memoria"]
  /\ lp'.en = "recibir" <=> lp.en = "recibir"
  /\ lp.en = "recibir" => lp'.pcb = lp.pcb
  /\ sc'.en = "recibir" <=> sc.en = "recibir"
  /\ sc.en = "recibir" => sc'.pcb = sc.pcb
  /\ Pidiendo' = Pidiendo

\* ... and the steps that do.
LEMMA PasosDelSocket ==
  ASSUME TypeOK, Cuentas, Ubicados, Suspensores, Next
  PROVE  \/ NoHabla
         \/ PedirTablas \/ RecibirTablas \/ PedirFin \/ RecibirFin \/ AtenderPedido
         \/ \E b \in Bloqueos : PedirSuspension(b) \/ RecibirSuspension(b)
<1> DEFINE E == "esperando_respuesta_memoria"
<1> USE DEF En
<1>1. CASE \/ HiloRecibirProcesos \/ TomarGrado \/ EsperarProceso \/ SacarDeNew
           \/ SacarDeSuspendedReady \/ EncolarReady \/ AvisarReady
  <2>1. UNCHANGED <<pedidos, respuestas, sc, susp>>
    BY <1>1 DEF HiloRecibirProcesos, RecibirProceso, AvisarNew, TomarGrado, EsperarProceso,
       SacarDeNew, SacarDeSuspendedReady, EncolarReady, AvisarReady, sockets, suspension
  <2>2. sem'[E] = sem[E]
    BY <1>1, SemAjeno DEF HiloRecibirProcesos, RecibirProceso, AvisarNew, TomarGrado,
       EsperarProceso, SacarDeNew, SacarDeSuspendedReady, EncolarReady, AvisarReady, TypeOK,
       KernelTypeOK, Semaforos
  <2>3. lp' = lp \/ (lp.en # "recibir" /\ lp'.en # "recibir")
    <3>1. CASE HiloRecibirProcesos
      BY <3>1 DEF HiloRecibirProcesos, RecibirProceso, AvisarNew
    <3>2. CASE \/ TomarGrado \/ EsperarProceso \/ SacarDeNew \/ SacarDeSuspendedReady
               \/ EncolarReady \/ AvisarReady
      BY <3>2 DEF TomarGrado, EsperarProceso, SacarDeNew, SacarDeSuspendedReady, EncolarReady,
         AvisarReady
    <3> QED
      BY <1>1, <3>1, <3>2
  <2> QED
    BY <2>1, <2>2, <2>3 DEF NoHabla, Pidiendo
<1>2. CASE \/ RecibirSyscall \/ BuscarUltimo \/ EnlazarBloqueado \/ AvisarIO
           \/ LiberarGrado \/ ResponderConsola \/ AvisarFin
  <2>1. UNCHANGED <<pedidos, respuestas, lp, susp>>
    BY <1>2 DEF RecibirSyscall, BuscarUltimo, EnlazarBloqueado, AvisarIO, LiberarGrado,
       ResponderConsola, AvisarFin, sockets, suspension
  <2>2. sem'[E] = sem[E]
    BY <1>2, SemAjeno DEF RecibirSyscall, BuscarUltimo, EnlazarBloqueado, AvisarIO, LiberarGrado,
       ResponderConsola, AvisarFin, TypeOK, KernelTypeOK, Semaforos
  <2>3. sc.en # "recibir" /\ sc'.en # "recibir"
    BY <1>2 DEF RecibirSyscall, BuscarUltimo, EnlazarBloqueado, AvisarIO, LiberarGrado,
       ResponderConsola, AvisarFin, TypeOK, KernelTypeOK, TipoSc
  <2> QED
    BY <2>1, <2>2, <2>3 DEF NoHabla, Pidiendo
<1>3. CASE HiloIO \/ HiloReadyAExecuting \/ HiloCpu
  <2>1. UNCHANGED <<pedidos, respuestas, lp, sc, susp>>
    BY <1>3 DEF HiloIO, TomarBloqueado, TerminarIO, PasarASuspendedReady,
       LiberarGradoSuspendido, AvisarSuspendedReady, PasarAReady, AvisarReadyIO,
       SoltarSuspendiendo, HiloReadyAExecuting, EsperarReady, EsperarFin, Despachar,
       HiloCpu, CpuRecibir, CpuAcceder, CpuIO, CpuExit, sockets, suspension
  <2>2. sem'[E] = sem[E]
    BY <1>3, SemAjeno DEF HiloIO, TomarBloqueado, TerminarIO, PasarASuspendedReady,
       LiberarGradoSuspendido, AvisarSuspendedReady, PasarAReady, AvisarReadyIO,
       SoltarSuspendiendo, HiloReadyAExecuting, EsperarReady, EsperarFin, Despachar,
       HiloCpu, CpuRecibir, CpuAcceder, CpuIO, CpuExit, TypeOK, KernelTypeOK, Semaforos
  <2> QED
    BY <2>1, <2>2 DEF NoHabla, Pidiendo
<1>4. CASE CrearSuspensor
  <2>1. /\ UNCHANGED <<pedidos, respuestas, sem, lp>>
        /\ sc.en # "recibir" /\ sc'.en # "recibir"
    BY <1>4 DEF CrearSuspensor, sockets, TypeOK, KernelTypeOK, TipoSc
  <2>2. Bloqueo(sc.pcb) \in Bloqueos /\ susp[Bloqueo(sc.pcb)] = "no_creado"
    BY <1>4, DondeEstaElNuevo
       DEF CrearSuspensor, Suspensores, SinSuspensorAun, Bloqueo, Bloqueos, PCB
  <2>3. Pidiendo' = Pidiendo
    BY <1>4, <2>2 DEF CrearSuspensor, Pidiendo, TypeOK, KernelTypeOK, TipoSuspension
  <2> QED
    BY <2>1, <2>3 DEF NoHabla
<1>5. ASSUME NEW b \in Bloqueos, Despertar(b) \/ Cancelar(b) \/ TomarSuspendiendo(b)
      PROVE  NoHabla
  <2>1. UNCHANGED <<pedidos, respuestas, lp, sc>>
    BY <1>5 DEF Despertar, Cancelar, TomarSuspendiendo, sockets
  <2>2. sem'[E] = sem[E]
    BY <1>5, SemAjeno DEF Despertar, Cancelar, TomarSuspendiendo, TypeOK, KernelTypeOK, Semaforos
  <2>3. Pidiendo' = Pidiendo
    BY <1>5 DEF Despertar, Cancelar, TomarSuspendiendo, Pidiendo, TypeOK, KernelTypeOK,
       TipoSuspension
  <2> QED
    BY <2>1, <2>2, <2>3 DEF NoHabla
<1> QED
  BY <1>1, <1>2, <1>3, <1>4, <1>5
     DEF Next, DelKernel, HiloPasarAReady, HiloSyscall, Suspensor

\* As long as somebody may take the semaphore of the socket, nobody waits for an answer
\* and nothing is on its way.
LEMMA SocketEnSilencio ==
  ASSUME TypeOK, UnPedidoPorVez, sem["esperando_respuesta_memoria"] > 0
  PROVE  /\ sem["esperando_respuesta_memoria"] = 1 /\ pedidos = <<>> /\ respuestas = <<>>
         /\ lp.en # "recibir" /\ sc.en # "recibir" /\ Pidiendo = {}
<1> DEFINE E == "esperando_respuesta_memoria"
<1>0. sem[E] \in Nat
  BY DEF TypeOK, KernelTypeOK, Semaforos
<1>1. sem[E] = 1 /\ sem[E] # 0
  BY <1>0 DEF UnPedidoPorVez
<1>2. lp.en # "recibir" /\ sc.en # "recibir" /\ Pidiendo = {}
  BY <1>1 DEF UnPedidoPorVez
<1> QED
  BY <1>1, <1>2 DEF UnPedidoPorVez

\* Who reads an answer is who sent the request, and nobody else has sent one.
LEMMA PasoUnPedido ==
  ASSUME TypeOK, Cuentas, Ubicados, Suspensores, UnPedidoPorVez, Next
  PROVE  UnPedidoPorVez'
<1> DEFINE E == "esperando_respuesta_memoria"
<1>0. sem[E] \in Nat /\ E \in DOMAIN sem
  BY DEF TypeOK, KernelTypeOK, Semaforos
<1>t. susp \in [Bloqueos -> {"no_creado", "durmiendo", "listo", "con_suspendiendo",
                             "pidiendo", "terminado"}]
  BY DEF TypeOK, KernelTypeOK, TipoSuspension
<1>c. \A m : Append(<<>>, m) = <<m>> /\ Head(<<m>>) = m /\ Tail(<<m>>) = <<>> /\ <<m>> # <<>>
  OBVIOUS
<1>s. sem[E] > 0 => /\ sem[E] = 1 /\ pedidos = <<>> /\ respuestas = <<>>
                    /\ lp.en # "recibir" /\ sc.en # "recibir" /\ Pidiendo = {}
  BY SocketEnSilencio
\* An answer that is read was the only thing in the socket.
<1>r. ASSUME NEW m, EnCurso(m), respuestas # <<>>
      PROVE  pedidos = <<>> /\ Tail(respuestas) = <<>>
  BY <1>c, <1>r DEF EnCurso
<1>1. CASE NoHabla
  <2>1. /\ UNCHANGED <<pedidos, respuestas, Pidiendo>> /\ sem'[E] = sem[E]
        /\ lp'.en = "recibir" <=> lp.en = "recibir"
        /\ sc'.en = "recibir" <=> sc.en = "recibir"
        /\ lp.en = "recibir" => lp'.pcb = lp.pcb
        /\ sc.en = "recibir" => sc'.pcb = sc.pcb
    BY <1>1 DEF NoHabla
  <2>2. \A r : EnCurso(r)' <=> EnCurso(r)
    BY <2>1 DEF EnCurso
  <2> QED
    BY <2>1 DEF UnPedidoPorVez, EnCurso
<1>2. CASE PedirTablas
  <2>1. /\ sem[E] = 1 /\ sem'[E] = 0
        /\ pedidos' = <<[op |-> "crear", id |-> lp.pcb.id]>> /\ respuestas' = <<>>
        /\ lp'.en = "recibir" /\ lp'.pcb = lp.pcb /\ sc' = sc /\ susp' = susp
    BY <1>0, <1>c, <1>s, <1>2 DEF PedirTablas, sem_wait, suspension, TypeOK, KernelTypeOK, TipoLp
  <2> QED
    BY <1>s, <2>1 DEF UnPedidoPorVez, EnCurso, Pidiendo
<1>3. CASE PedirFin
  <2>1. /\ sem[E] = 1 /\ sem'[E] = 0
        /\ pedidos' = <<[op |-> "finalizar", id |-> sc.pcb.id]>> /\ respuestas' = <<>>
        /\ sc'.en = "recibir" /\ sc'.pcb = sc.pcb /\ lp' = lp /\ susp' = susp
    BY <1>0, <1>c, <1>s, <1>3 DEF PedirFin, sem_wait, suspension, TypeOK, KernelTypeOK, TipoSc
  <2> QED
    BY <1>s, <2>1 DEF UnPedidoPorVez, EnCurso, Pidiendo
<1>4. ASSUME NEW b \in Bloqueos, PedirSuspension(b) PROVE UnPedidoPorVez'
  <2>1. /\ sem[E] = 1 /\ sem'[E] = 0
        /\ pedidos' = <<[op |-> "suspender", id |-> b[1]]>> /\ respuestas' = <<>>
        /\ lp' = lp /\ sc' = sc
    BY <1>0, <1>c, <1>s, <1>4 DEF PedirSuspension, sem_wait
  <2>2. Pidiendo' = {b}
    BY <1>t, <1>s, <1>4, <2>1 DEF PedirSuspension, Pidiendo
  <2> QED
    BY <1>s, <2>1, <2>2 DEF UnPedidoPorVez, EnCurso
<1>5. CASE RecibirTablas
  <2>1. lp.en = "recibir" /\ respuestas # <<>>
    BY <1>5 DEF RecibirTablas
  <2>2. /\ sem[E] = 0 /\ sc.en # "recibir" /\ Pidiendo = {}
        /\ EnCurso([op |-> "crear", id |-> lp.pcb.id])
    BY <2>1 DEF UnPedidoPorVez
  <2>3. pedidos = <<>> /\ Tail(respuestas) = <<>>
    BY <2>1, <2>2, <1>r
  <2>4. /\ sem'[E] = 1 /\ pedidos' = <<>> /\ respuestas' = <<>>
        /\ lp'.en # "recibir" /\ sc' = sc /\ susp' = susp
    BY <1>0, <1>5, <2>2, <2>3 DEF RecibirTablas, sem_post, suspension, En
  <2> QED
    BY <2>2, <2>4 DEF UnPedidoPorVez, Pidiendo
<1>6. CASE RecibirFin
  <2>1. sc.en = "recibir" /\ respuestas # <<>>
    BY <1>6 DEF RecibirFin
  <2>2. /\ sem[E] = 0 /\ lp.en # "recibir" /\ Pidiendo = {}
        /\ EnCurso([op |-> "finalizar", id |-> sc.pcb.id])
    BY <2>1 DEF UnPedidoPorVez
  <2>3. pedidos = <<>> /\ Tail(respuestas) = <<>>
    BY <2>1, <2>2, <1>r
  <2>4. /\ sem'[E] = 1 /\ pedidos' = <<>> /\ respuestas' = <<>>
        /\ sc'.en # "recibir" /\ lp' = lp /\ susp' = susp
    BY <1>0, <1>6, <2>2, <2>3 DEF RecibirFin, sem_post, suspension, TypeOK, KernelTypeOK, TipoSc
  <2> QED
    BY <2>2, <2>4 DEF UnPedidoPorVez, Pidiendo
<1>7. ASSUME NEW b \in Bloqueos, RecibirSuspension(b) PROVE UnPedidoPorVez'
  <2>0. b \in Pidiendo
    BY <1>7 DEF RecibirSuspension, Pidiendo
  <2>1. /\ sem[E] = 0 /\ lp.en # "recibir" /\ sc.en # "recibir"
        /\ EnCurso([op |-> "suspender", id |-> b[1]]) /\ \A c \in Pidiendo : c = b
    BY <2>0 DEF UnPedidoPorVez
  <2>r. pedidos = <<>> /\ Tail(respuestas) = <<>>
    BY <1>7, <2>1, <1>r DEF RecibirSuspension
  <2>2. /\ sem'[E] = 1 /\ pedidos' = <<>> /\ respuestas' = <<>> /\ lp' = lp /\ sc' = sc
    BY <1>7, <2>1, <2>r DEF RecibirSuspension, TypeOK, KernelTypeOK, Semaforos
  <2>3. Pidiendo' = {}
    BY <1>t, <1>7, <2>1 DEF RecibirSuspension, Pidiendo
  <2> QED
    BY <2>1, <2>2, <2>3 DEF UnPedidoPorVez
<1>8. CASE AtenderPedido
  <2>1. UNCHANGED <<lp, sc, sem, susp>> /\ pedidos # <<>>
    BY <1>8 DEF AtenderPedido, suspension
  <2>2. \A r : EnCurso(r) => pedidos' = <<>> /\ respuestas' = <<r>>
    BY <1>8, <1>c, <2>1 DEF AtenderPedido, EnCurso
  <2> QED
    BY <2>1, <2>2 DEF UnPedidoPorVez, EnCurso, Pidiendo
<1> QED
  BY <1>1, <1>2, <1>3, <1>4, <1>5, <1>6, <1>7, <1>8, PasosDelSocket

\* At the start nobody has asked memory for anything.
LEMMA InitUnPedido == Init => UnPedidoPorVez
  BY DEF Init, KernelInit, En, Semaforos, UnPedidoPorVez, Pidiendo

-----------------------------------------------------------------------------
\* What memory has of each process

\* A PCB in the hands of a thread is in a place of its own.
LEMMA EnManos ==
  ASSUME TypeOK
  PROVE  /\ lp.en \in LpConPCB => lp.pcb \in Lugares["lp"]
         /\ io.en \in IoConPCB => io.pcb \in Lugares["io"]
         /\ sc.en \in ScDuenio => sc.pcb \in Lugares["sc"]
         /\ cpu # NULO => cpu \in Lugares["cpu"]
  BY NuloAssumption DEF NuloAssumption, Lugares, TypeOK, KernelTypeOK, TipoLp, TipoIo

\* The places by name.
LEMMA Sitios ==
  /\ "new" \in Nombres /\ "ready" \in Nombres /\ "blocked" \in Nombres
  /\ "suspended_ready" \in Nombres /\ "dispatch" \in Nombres /\ "syscalls" \in Nombres
  /\ "cpu" \in Nombres /\ "lp" \in Nombres /\ "io" \in Nombres /\ "sc" \in Nombres
  BY DEF Nombres

\* Of the processes in two different places none is the same.
LEMMA Distinto ==
  ASSUME Ubicados, NEW a \in Nombres, NEW b \in Nombres, a # b,
         NEW x \in Lugares[a], NEW y \in Lugares[b]
  PROVE  x.id # y.id
  BY Nombrados DEF Ubicados, EnUnSoloLugar

\* Nothing reaches or leaves the socket while a thread waits for its answer, but
\* that answer.
LEMMA RespuestasEstables ==
  ASSUME TypeOK, UnPedidoPorVez, Next, ~AtenderPedido
  PROVE  /\ lp.en = "recibir" /\ lp'.en = "recibir" => respuestas' = respuestas
         /\ sc.en = "recibir" /\ sc'.en = "recibir" => respuestas' = respuestas
         /\ \A b \in Pidiendo : b \in Pidiendo' => respuestas' = respuestas
<1>1. CASE respuestas' = respuestas
  BY <1>1
<1>2. CASE RecibirTablas
  BY <1>2 DEF RecibirTablas, En, UnPedidoPorVez
<1>3. CASE RecibirFin
  BY <1>3 DEF RecibirFin, UnPedidoPorVez, TypeOK, KernelTypeOK, TipoSc
<1>4. ASSUME NEW c \in Bloqueos, RecibirSuspension(c)
      PROVE  /\ lp.en # "recibir" /\ sc.en # "recibir" /\ Pidiendo = {c} /\ c \notin Pidiendo'
  <2>1. c \in Pidiendo /\ c \notin Pidiendo'
    BY <1>4 DEF RecibirSuspension, Pidiendo, TypeOK, KernelTypeOK, TipoSuspension
  <2> QED
    BY <2>1 DEF UnPedidoPorVez
<1> QED
  BY <1>1, <1>2, <1>3, <1>4, NextMarco DEF Marco

\* Memory has no table of a process before its admission asks for one, nor once its end
\* has been answered. AtenderPedido, which creates and ends them, has a lemma below.
LEMMA PasoSinTabla ==
  ASSUME TypeOK, Cuentas, Ubicados, UnPedidoPorVez, Memorias, Next,
         memoria' = memoria, ~AtenderPedido
  PROVE  SinTabla'
<1> DEFINE E == "esperando_respuesta_memoria"
<1> USE EnManos, Sitios, Nombrados
<1>1. ASSUME NEW p \in Procesos, consola'[p] # "esperando" PROVE memoria'[p] = "sin_tabla"
  <2>1. CASE consola[p] # "esperando"
    BY <2>1 DEF Memorias, SinTabla
  <2>2. CASE consola[p] = "esperando"
    <3>1. ResponderConsola /\ sc.pcb.id = p
      BY <1>1, <2>2, NextMarco
         DEF Marco, RecibirProceso, ResponderConsola, TypeOK, KernelTypeOK, TipoSockets
    <3> QED
      BY <3>1 DEF ResponderConsola, Memorias, SinTabla
  <2> QED
    BY <2>1, <2>2
<1>2. ASSUME NEW x \in Lugares'["new"] PROVE memoria'[x.id] = "sin_tabla"
  <2>1. ASSUME NEW p \in Procesos, RecibirProceso(p), x = PCBNuevo(p)
        PROVE  memoria[x.id] = "sin_tabla"
    BY <2>1 DEF RecibirProceso, PCBNuevo, Memorias, SinTabla
  <2> QED
    BY <2>1, Llegadas DEF Llegada, Memorias, SinTabla
<1>3. ASSUME lp'.en = "crear" PROVE memoria'[lp'.pcb.id] = "sin_tabla"
  <2>1. CASE SacarDeNew /\ cola_new # <<>>
    <3>1. Head(cola_new) \in Lugares["new"] /\ lp'.pcb = Head(cola_new)
      BY <2>1, Pop DEF TypeOK, Ubicados, Lugares, SacarDeNew, En
    <3> QED
      BY <3>1 DEF Memorias, SinTabla
  <2>2. CASE lp' = lp
    BY <1>3, <2>2 DEF Memorias, SinTabla
  <2>3. CASE HiloPasarAReady /\ lp' # lp /\ ~(SacarDeNew /\ cola_new # <<>>)
    BY <1>3, <2>3 DEF HiloPasarAReady, EsperarProceso, TomarGrado, SacarDeNew,
       SacarDeSuspendedReady, PedirTablas, RecibirTablas, EncolarReady, AvisarReady, En,
       TypeOK, KernelTypeOK, TipoLp
  <2> QED
    BY <2>1, <2>2, <2>3, NextMarco DEF Marco
<1>4. ASSUME lp'.en = "recibir"
      PROVE  memoria'[lp'.pcb.id] = IF respuestas' = <<>> THEN "sin_tabla" ELSE "residente"
  <2>1. CASE PedirTablas
    <3>1. sem[E] > 0 /\ lp.en = "crear" /\ lp'.pcb = lp.pcb /\ respuestas' = respuestas
      BY <2>1 DEF PedirTablas, sem_wait, TypeOK, KernelTypeOK, TipoLp
    <3>2. respuestas = <<>>
      BY <3>1, SocketEnSilencio
    <3>3. memoria[lp.pcb.id] = "sin_tabla"
      BY <3>1 DEF Memorias, SinTabla
    <3>4. respuestas' = <<>>
      BY <3>1, <3>2
    <3>5. memoria'[lp'.pcb.id] = "sin_tabla"
      BY <3>1, <3>3
    <3> QED
      BY <3>4, <3>5
  <2>2. CASE lp' = lp
    BY <1>4, <2>2, RespuestasEstables DEF Memorias, SinTabla
  <2>3. CASE HiloPasarAReady /\ lp' # lp /\ ~PedirTablas
    BY <1>4, <2>3 DEF HiloPasarAReady, EsperarProceso, TomarGrado, SacarDeNew,
       SacarDeSuspendedReady, RecibirTablas, EncolarReady, AvisarReady, En,
       TypeOK, KernelTypeOK, TipoLp
  <2> QED
    BY <2>1, <2>2, <2>3, NextMarco DEF Marco
<1>5. ASSUME sc'.en = "recibir"
      PROVE  memoria'[sc'.pcb.id] = "sin_tabla" <=> respuestas' # <<>>
  <2>1. CASE PedirFin
    <3>1. sem[E] > 0 /\ sc.en = "finalizar" /\ sc'.pcb = sc.pcb /\ respuestas' = respuestas
      BY <2>1 DEF PedirFin, sem_wait, TypeOK, KernelTypeOK, TipoSc
    <3>2. respuestas = <<>>
      BY <3>1, SocketEnSilencio
    <3>3. memoria[sc.pcb.id] # "sin_tabla"
      BY <3>1 DEF Memorias, ConTabla
    <3>4. respuestas' = <<>>
      BY <3>1, <3>2
    <3>5. memoria'[sc'.pcb.id] # "sin_tabla"
      BY <3>1, <3>3
    <3> QED
      BY <3>4, <3>5
  <2>2. CASE sc' = sc
    BY <1>5, <2>2, RespuestasEstables DEF Memorias, SinTabla
  <2>3. CASE (HiloSyscall \/ AvisarFin) /\ ~PedirFin
    BY <1>5, <2>3 DEF HiloSyscall, RecibirSyscall, BuscarUltimo, EnlazarBloqueado,
       CrearSuspensor, AvisarIO, LiberarGrado, RecibirFin, ResponderConsola, AvisarFin,
       En, TypeOK, KernelTypeOK, TipoSc
  <2> QED
    BY <2>1, <2>2, <2>3, NextMarco DEF Marco
<1>6. ASSUME sc'.en = "responder" PROVE memoria'[sc'.pcb.id] = "sin_tabla"
  <2>1. CASE RecibirFin
    <3>1. sc.en = "recibir" /\ respuestas # <<>> /\ sc'.pcb = sc.pcb
      BY <2>1 DEF RecibirFin, TypeOK, KernelTypeOK, TipoSc
    <3> QED
      BY <3>1 DEF Memorias, SinTabla
  <2>2. CASE sc' = sc
    BY <1>6, <2>2 DEF Memorias, SinTabla
  <2>3. CASE (HiloSyscall \/ AvisarFin) /\ ~RecibirFin
    BY <1>6, <2>3 DEF HiloSyscall, RecibirSyscall, BuscarUltimo, EnlazarBloqueado,
       CrearSuspensor, AvisarIO, LiberarGrado, PedirFin, ResponderConsola, AvisarFin,
       En, TypeOK, KernelTypeOK, TipoSc
  <2> QED
    BY <2>1, <2>2, <2>3, NextMarco DEF Marco
<1> QED
  BY <1>1, <1>2, <1>3, <1>4, <1>5, <1>6 DEF SinTabla

ConTablaSiempre ==
  {"ready", "blocked", "suspended_ready", "dispatch", "syscalls", "cpu", "io"}

\* A PCB past its admission carries the number of its own table, wherever it moves.
LEMMA PasoConTabla ==
  ASSUME TypeOK, Cuentas, Ubicados, UnPedidoPorVez, Memorias, Next, memoria' = memoria
  PROVE  ConTabla'
<1> USE EnManos, Sitios, Nombrados DEF ConTablaSiempre
<1>1. ASSUME NEW l \in ConTablaSiempre, NEW x \in Lugares'[l]
      PROVE  x.tabla = x.id /\ memoria'[x.id] # "sin_tabla"
  <2>0. l \in Nombres
    BY DEF Nombres
  <2>1. ASSUME NEW m \in ConTablaSiempre, x \in Lugares[m]
        PROVE  x.tabla = x.id /\ memoria[x.id] # "sin_tabla"
    BY <2>1 DEF Memorias, ConTabla
  <2>2. CASE EncolarReady /\ x = lp.pcb
    BY <2>2 DEF EncolarReady, Memorias, ConTabla
  <2>3. CASE PasarAReady /\ x = io.pcb
    BY <2>1, <2>3 DEF PasarAReady, IoConPCB
  <2>4. CASE (CpuIO /\ x = [cpu EXCEPT !.pc = @ + 1]) \/ (CpuExit /\ x = cpu)
    <3>1. cpu \in Lugares["cpu"] /\ x.id = cpu.id /\ x.tabla = cpu.tabla
      BY <2>4 DEF CpuIO, CpuExit, TypeOK, PCB
    <3> QED
      BY <3>1 DEF Memorias, ConTabla
  <2>5. CASE EnlazarBloqueado /\ x = sc.pcb
    BY <2>5 DEF EnlazarBloqueado, Memorias, ConTabla
  <2>6. CASE PasarASuspendedReady /\ x = io.pcb
    BY <2>1, <2>6 DEF PasarASuspendedReady, IoConPCB
  <2>7. CASE \/ Despachar /\ x \in Lugares["ready"]
             \/ CpuRecibir /\ x \in Lugares["dispatch"]
             \/ TomarBloqueado /\ x \in Lugares["blocked"]
             \/ x \in Lugares[l]
    BY <2>1, <2>7
  <2>8. l \notin {"new", "lp", "sc"}
    OBVIOUS
  <2> QED
    BY <2>0, <2>2, <2>3, <2>4, <2>5, <2>6, <2>7, <2>8, Llegadas DEF Llegada
<1>2. ASSUME lp'.en = "encolar"
      PROVE  lp'.pcb.tabla = lp'.pcb.id /\ memoria'[lp'.pcb.id] # "sin_tabla"
  <2>1. CASE RecibirTablas
    <3>1. lp.en = "recibir" /\ respuestas # <<>> /\ lp.pcb \in PCB
      BY <2>1 DEF RecibirTablas, TypeOK, KernelTypeOK, TipoLp, LpConPCB
    <3>2. Head(respuestas) = [op |-> "crear", id |-> lp.pcb.id]
      <4>1. respuestas = <<[op |-> "crear", id |-> lp.pcb.id]>>
        <5>1. EnCurso([op |-> "crear", id |-> lp.pcb.id])
          BY <3>1 DEF UnPedidoPorVez
        <5> QED
          BY <3>1, <5>1 DEF EnCurso
      <4>2. \A m : Head(<<m>>) = m
        OBVIOUS
      <4> QED
        BY <4>1, <4>2
    <3>3. lp'.pcb = [lp.pcb EXCEPT !.tabla = lp.pcb.id]
      BY <2>1, <3>2 DEF RecibirTablas, En
    <3>4. lp'.pcb.tabla = lp.pcb.id /\ lp'.pcb.id = lp.pcb.id
      BY <3>1, <3>3 DEF PCB
    <3>5. memoria[lp.pcb.id] = "residente"
      BY <3>1 DEF Memorias, SinTabla
    <3> QED
      BY <3>4, <3>5
  <2>2. CASE SacarDeSuspendedReady /\ cola_suspended_ready # <<>>
    <3>1. PICK x : x = Head(cola_suspended_ready)
      OBVIOUS
    <3>2. x \in Lugares["suspended_ready"]
      BY <2>2, <3>1, Pop DEF TypeOK, Ubicados, Lugares
    <3>3. lp'.pcb = x
      BY <2>2, <3>1 DEF SacarDeSuspendedReady, En
    <3>4. x.tabla = x.id /\ memoria[x.id] # "sin_tabla"
      BY <3>2 DEF Memorias, ConTabla
    <3> QED
      BY <3>3, <3>4
  <2>3. CASE lp' = lp
    BY <1>2, <2>3 DEF Memorias, ConTabla
  <2>4. CASE HiloPasarAReady /\ lp' # lp /\ ~RecibirTablas
             /\ ~(SacarDeSuspendedReady /\ cola_suspended_ready # <<>>)
    BY <1>2, <2>4 DEF HiloPasarAReady, EsperarProceso, TomarGrado, SacarDeNew,
       SacarDeSuspendedReady, PedirTablas, EncolarReady, AvisarReady, En,
       TypeOK, KernelTypeOK, TipoLp
  <2> QED
    BY <2>1, <2>2, <2>3, <2>4, NextMarco DEF Marco
<1>3. ASSUME sc'.en \in {"bloquear", "enlazar", "liberar_grado", "finalizar"}
      PROVE  sc'.pcb.tabla = sc'.pcb.id /\ memoria'[sc'.pcb.id] # "sin_tabla"
  <2>1. CASE RecibirSyscall
    <3>1. Head(syscalls).pcb \in Lugares["syscalls"]
      <4>1. Head(syscalls) \in Range(syscalls)
        BY <2>1, UnaSyscall DEF RecibirSyscall
      <4> QED
        BY <4>1 DEF Lugares
    <3>2. sc'.pcb = Head(syscalls).pcb
      BY <2>1 DEF RecibirSyscall, En
    <3> QED
      BY <3>1, <3>2 DEF Memorias, ConTabla
  <2>2. CASE /\ sc'.pcb = sc.pcb
             /\ sc.en \in {"bloquear", "enlazar", "liberar_grado", "finalizar"}
    BY <2>2 DEF Memorias, ConTabla
  <2>3. CASE sc' = sc
    BY <1>3, <2>2, <2>3
  <2>4. CASE (HiloSyscall \/ AvisarFin) /\ ~RecibirSyscall
    <3>1. /\ sc'.pcb = sc.pcb
          /\ sc.en \in {"bloquear", "enlazar", "liberar_grado", "finalizar"}
      BY <1>3, <2>4 DEF HiloSyscall, BuscarUltimo, EnlazarBloqueado, CrearSuspensor,
         AvisarIO, LiberarGrado, PedirFin, RecibirFin, ResponderConsola, AvisarFin, En,
         TypeOK, KernelTypeOK, TipoSc
    <3> QED
      BY <2>2, <3>1
  <2> QED
    BY <2>1, <2>3, <2>4, NextMarco DEF Marco
<1> QED
  BY <1>1, <1>2, <1>3 DEF ConTabla

\* A process is suspended, or its suspensor's request has been answered, and it
\* stays so while nobody touches its memory.
LEMMA PasoSuspendidos ==
  ASSUME TypeOK, Cuentas, Ubicados, UnPedidoPorVez, Suspensores, Memorias, Next,
         memoria' = memoria, ~AtenderPedido
  PROVE  Suspendidos'
<1> USE EnManos, Sitios, Nombrados
<1>1. ASSUME NEW x \in Lugares["blocked"] \cup Lugares["io"], NEW b \in Bloqueos,
             b = Bloqueo(x), b \in esta_suspendido', b \in Pidiendo' => respuestas' # <<>>
      PROVE  memoria[x.id] = "suspendida"
  <2>1. b \in esta_suspendido
    <3>1. ASSUME b \notin esta_suspendido PROVE FALSE
      <4>1. PICK c \in Bloqueos : PedirSuspension(c)
        BY <1>1, <3>1, NextMarco DEF Marco
      <4>2. c = b
        BY <1>1, <3>1, <4>1 DEF PedirSuspension
      <4>3. b \in Pidiendo' /\ respuestas' = respuestas /\ sem["esperando_respuesta_memoria"] > 0
        BY <4>1, <4>2 DEF PedirSuspension, sem_wait, Pidiendo, TypeOK, KernelTypeOK,
           TipoSuspension
      <4>4. respuestas = <<>>
        BY <4>3, SocketEnSilencio
      <4> QED
        BY <1>1, <4>3, <4>4
    <3> QED
      BY <3>1
  <2>2. ASSUME b \in Pidiendo PROVE respuestas # <<>>
    <3>1. CASE b \in Pidiendo'
      BY <1>1, <2>2, <3>1, RespuestasEstables
    <3>2. CASE b \notin Pidiendo'
      <4>1. RecibirSuspension(b)
        <5>1. susp[b] = "pidiendo" /\ susp'[b] # "pidiendo"
          BY <2>2, <3>2 DEF Pidiendo
        <5>2. ~CrearSuspensor
          <6>1. ASSUME CrearSuspensor PROVE FALSE
            <7>1. Bloqueo(sc.pcb) \in Bloqueos /\ susp[Bloqueo(sc.pcb)] = "no_creado"
              BY <6>1, DondeEstaElNuevo
                 DEF CrearSuspensor, Suspensores, SinSuspensorAun, Bloqueo, Bloqueos, PCB
            <7> QED
              BY <5>1, <6>1, <7>1 DEF CrearSuspensor, TypeOK, KernelTypeOK, TipoSuspension
          <6> QED
            BY <6>1
        <5>3. PICK c \in Bloqueos : Suspensor(c)
          BY <5>1, <5>2, NextMarco DEF Marco
        <5> QED
          BY <5>1, <5>3 DEF Suspensor, Despertar, Cancelar, TomarSuspendiendo,
             PedirSuspension, RecibirSuspension, TypeOK, KernelTypeOK, TipoSuspension
      <4> QED
        BY <4>1 DEF RecibirSuspension
    <3> QED
      BY <3>1, <3>2
  <2> QED
    BY <1>1, <2>1, <2>2 DEF Memorias, Suspendidos
<1>2. ASSUME NEW x \in Lugares'["suspended_ready"] PROVE memoria[x.id] = "suspendida"
  <2>1. CASE x \in Lugares["suspended_ready"]
    BY <2>1 DEF Memorias, Suspendidos
  <2>2. CASE x \notin Lugares["suspended_ready"]
    <3>1. PasarASuspendedReady /\ x = io.pcb
      BY <2>2, Llegadas DEF Llegada
    <3>2. io.en = "suspended_ready" /\ io.pcb \in Lugares["io"]
      BY <3>1 DEF PasarASuspendedReady, IoConPCB
    <3>3. Bloqueo(io.pcb) \in esta_suspendido
      BY <3>2 DEF Suspensores, SuspensorAlDia, EstaSuspendidoAlDia
    <3>4. Pidiendo = {}
      BY <3>2 DEF Suspensores, Exclusion, IoConSuspendiendo, ConSuspendiendo, Pidiendo
    <3> QED
      BY <3>1, <3>2, <3>3, <3>4 DEF Memorias, Suspendidos
  <2> QED
    BY <2>1, <2>2
<1>3. ASSUME NEW x \in Lugares'["blocked"] \cup Lugares'["io"],
             Bloqueo(x) \in esta_suspendido',
             Bloqueo(x) \in Pidiendo' => respuestas' # <<>>
      PROVE  memoria[x.id] = "suspendida"
  <2>0. PICK b : b = Bloqueo(x)
    OBVIOUS
  <2>t. b \in Bloqueos
    BY <1>3, <2>0, NextTypeOK DEF TypeOK, KernelTypeOK, TipoSuspension
  <2>1. CASE x \in Lugares["blocked"] \cup Lugares["io"]
    BY <1>1, <1>3, <2>0, <2>t, <2>1
  <2>2. CASE EnlazarBloqueado /\ x = sc.pcb
    <3>1. susp[b] = "no_creado" /\ esta_suspendido' = esta_suspendido
      BY <2>0, <2>2 DEF EnlazarBloqueado, suspension, Suspensores, SinSuspensorAun
    <3>2. b \notin esta_suspendido
      BY <3>1 DEF Suspensores, SuspensorAlDia, EstaSuspendidoAlDia
    <3> QED
      BY <1>3, <2>0, <3>1, <3>2
  <2>3. x \in Lugares["blocked"] \cup Lugares["io"] \/ (EnlazarBloqueado /\ x = sc.pcb)
    BY <1>3, Llegadas DEF Llegada
  <2> QED
    BY <2>1, <2>2, <2>3
<1> QED
  BY <1>2, <1>3 DEF Suspendidos, Bloqueo

\* What the thread of the memory module does, by the request it serves.
LEMMA Atendido ==
  ASSUME TypeOK, UnPedidoPorVez, AtenderPedido
  PROVE  /\ respuestas = <<>> /\ respuestas' # <<>> /\ pedidos' # pedidos
         /\ \/ /\ lp.en = "recibir" /\ sc.en # "recibir" /\ Pidiendo = {}
               /\ memoria' = [memoria EXCEPT ![lp.pcb.id] = "residente"]
            \/ /\ sc.en = "recibir" /\ lp.en # "recibir" /\ Pidiendo = {}
               /\ memoria' = [memoria EXCEPT ![sc.pcb.id] = "sin_tabla"]
            \/ /\ lp.en # "recibir" /\ sc.en # "recibir"
               /\ \E b \in Pidiendo : /\ Pidiendo = {b}
                                      /\ memoria' = [memoria EXCEPT ![b[1]] = "suspendida"]
<1>c. \A m : Head(<<m>>) = m /\ Tail(<<m>>) = <<>> /\ <<m>> # <<>> /\ Append(<<>>, m) = <<m>>
  OBVIOUS
<1>1. ASSUME NEW r, EnCurso(r)
      PROVE  /\ respuestas = <<>> /\ respuestas' # <<>> /\ pedidos' # pedidos
             /\ memoria' = [memoria EXCEPT ![r.id] = CASE r.op = "crear" -> "residente"
                                                       [] r.op = "suspender" -> "suspendida"
                                                       [] OTHER -> "sin_tabla"]
  <2>1. pedidos = <<r>> /\ respuestas = <<>>
    BY <1>1 DEF EnCurso, AtenderPedido
  <2> QED
    BY <1>c, <2>1 DEF AtenderPedido
<1>2. lp.en = "recibir" \/ sc.en = "recibir" \/ Pidiendo # {}
  BY DEF UnPedidoPorVez, AtenderPedido
<1>3. CASE lp.en = "recibir"
  <2>1. /\ EnCurso([op |-> "crear", id |-> lp.pcb.id])
        /\ sc.en # "recibir" /\ Pidiendo = {}
    BY <1>3 DEF UnPedidoPorVez
  <2> QED
    BY <1>1, <1>3, <2>1
<1>4. CASE sc.en = "recibir"
  <2>1. /\ EnCurso([op |-> "finalizar", id |-> sc.pcb.id])
        /\ lp.en # "recibir" /\ Pidiendo = {}
    BY <1>4 DEF UnPedidoPorVez
  <2> QED
    BY <1>1, <1>4, <2>1
<1>5. ASSUME NEW b \in Pidiendo PROVE
        /\ respuestas = <<>> /\ respuestas' # <<>> /\ pedidos' # pedidos
        /\ lp.en # "recibir" /\ sc.en # "recibir" /\ Pidiendo = {b}
        /\ memoria' = [memoria EXCEPT ![b[1]] = "suspendida"]
  <2>1. /\ EnCurso([op |-> "suspender", id |-> b[1]])
        /\ lp.en # "recibir" /\ sc.en # "recibir" /\ Pidiendo = {b}
    BY <1>5 DEF UnPedidoPorVez
  <2> QED
    BY <1>1, <2>1
<1> QED
  BY <1>2, <1>3, <1>4, <1>5

\* Each answer leaves the memory of its process as the place of that process
\* requires, and the memory of the others alone.
LEMMA PasoAtender ==
  ASSUME TypeOK, Cuentas, Ubicados, UnPedidoPorVez, Suspensores, Memorias, Next, AtenderPedido
  PROVE  Memorias'
<1> USE EnManos, Sitios, Nombrados
<1>0. /\ \A l \in Nombres : Lugares'[l] = Lugares[l]
      /\ UNCHANGED <<consola, lp, sc, io, susp, esta_suspendido>>
  <2>1. cpu' = cpu
    BY Atendido, NextMarco DEF Marco, CpuRecibir, CpuIO, CpuExit, sockets
  <2> QED
    BY <2>1, Quietos DEF Quieto, AtenderPedido, suspension
<1>p. Pidiendo' = Pidiendo
  BY <1>0 DEF Pidiendo
<1>t. /\ memoria \in [Procesos -> {"sin_tabla", "residente", "suspendida"}]
      /\ \A l \in Nombres : \A x \in Lugares[l] : x.id \in Procesos
      /\ \A l \in Nombres : \A x \in Lugares[l] : consola[x.id] = "esperando"
  <2>1. \A l \in Nombres : \A x \in Lugares[l] : x.id \in Procesos
    BY LugaresTipo DEF PCB
  <2> QED
    BY <2>1 DEF TypeOK, KernelTypeOK, TipoSockets, Ubicados, ALoSumoUnExtraviado, EnAlgunLugar
<1>1. CASE lp.en = "recibir"
  <2>0. /\ memoria' = [memoria EXCEPT ![lp.pcb.id] = "residente"] /\ respuestas' # <<>>
        /\ respuestas = <<>> /\ sc.en # "recibir" /\ Pidiendo = {}
    BY <1>1, Atendido
  <2>1. PICK q : q = lp.pcb
    OBVIOUS
  <2>2. q \in Lugares["lp"] /\ q.id \in Procesos /\ consola[q.id] = "esperando"
    BY <1>1, <1>t, <2>1 DEF LpConPCB
  <2>3. \A l \in Nombres : l # "lp" => \A x \in Lugares[l] : x.id # q.id
    BY <2>2, Distinto
  <2>4. /\ memoria'[q.id] = "residente"
        /\ \A p \in Procesos : p # q.id => memoria'[p] = memoria[p]
    BY <1>t, <2>0, <2>1, <2>2
  <2>5. SinTabla'
    BY <1>0, <1>1, <1>t, <2>0, <2>1, <2>2, <2>3, <2>4 DEF Memorias, SinTabla, ScDuenio
  <2>6. ConTabla'
    BY <1>0, <1>1, <1>t, <2>0, <2>1, <2>2, <2>3, <2>4 DEF Memorias, ConTabla, ScDuenio
  <2>7. Suspendidos'
    BY <1>0, <1>p, <1>t, <2>0, <2>3, <2>4 DEF Memorias, Suspendidos, Bloqueo
  <2> QED
    BY <2>5, <2>6, <2>7 DEF Memorias
<1>2. CASE sc.en = "recibir"
  <2>0. /\ memoria' = [memoria EXCEPT ![sc.pcb.id] = "sin_tabla"] /\ respuestas' # <<>>
        /\ respuestas = <<>> /\ lp.en # "recibir" /\ Pidiendo = {}
    BY <1>2, Atendido
  <2>1. PICK q : q = sc.pcb
    OBVIOUS
  <2>2. q \in Lugares["sc"] /\ q.id \in Procesos /\ consola[q.id] = "esperando"
    BY <1>2, <1>t, <2>1 DEF ScDuenio
  <2>3. \A l \in Nombres : l # "sc" => \A x \in Lugares[l] : x.id # q.id
    BY <2>2, Distinto
  <2>4. /\ memoria'[q.id] = "sin_tabla"
        /\ \A p \in Procesos : p # q.id => memoria'[p] = memoria[p]
    BY <1>t, <2>0, <2>1, <2>2
  <2>5. SinTabla'
    BY <1>0, <1>2, <1>t, <2>0, <2>1, <2>2, <2>3, <2>4 DEF Memorias, SinTabla, LpConPCB
  <2>6. ConTabla'
    BY <1>0, <1>2, <1>t, <2>0, <2>1, <2>2, <2>3, <2>4 DEF Memorias, ConTabla, LpConPCB
  <2>7. Suspendidos'
    BY <1>0, <1>p, <1>t, <2>0, <2>3, <2>4 DEF Memorias, Suspendidos, Bloqueo
  <2> QED
    BY <2>5, <2>6, <2>7 DEF Memorias
<1>3. ASSUME NEW b \in Pidiendo, Pidiendo = {b}, lp.en # "recibir", sc.en # "recibir",
             memoria' = [memoria EXCEPT ![b[1]] = "suspendida"]
      PROVE  Memorias'
  <2>1. b \in Bloqueos /\ Vivo(b) /\ b[1] \in Procesos
    BY DEF Pidiendo, Vivo, Suspensores, SuspensorAlDia, EstaSuspendidoAlDia, Bloqueos
  <2>2. /\ consola[b[1]] = "esperando"
        /\ \A l \in Nombres : \A x \in Lugares[l] : x.id = b[1] => l \in {"blocked", "io"}
    BY <2>1 DEF Suspensores, SuspensorAlDia
  <2>3. /\ memoria'[b[1]] = "suspendida"
        /\ \A p \in Procesos : p # b[1] => memoria'[p] = memoria[p]
    BY <1>3, <1>t, <2>1
  <2>4. /\ respuestas' # <<>> /\ respuestas = <<>>
    BY Atendido
  <2>5. SinTabla'
    BY <1>0, <1>3, <1>t, <2>2, <2>3, <2>4 DEF Memorias, SinTabla, LpConPCB, ScDuenio
  <2>6. ConTabla'
    BY <1>0, <1>t, <2>2, <2>3 DEF Memorias, ConTabla, LpConPCB, ScDuenio
  <2>7. ASSUME NEW x \in Lugares["blocked"] \cup Lugares["io"], Bloqueo(x) \in esta_suspendido
        PROVE  memoria'[x.id] = "suspendida"
    <3>1. CASE x.id = b[1]
      BY <2>3, <3>1
    <3>2. CASE x.id # b[1]
      BY <1>3, <1>t, <2>3, <2>7, <3>2 DEF Memorias, Suspendidos, Bloqueo
    <3> QED
      BY <3>1, <3>2
  <2>8. \A x \in Lugares["suspended_ready"] : memoria'[x.id] = "suspendida"
    BY <1>t, <2>2, <2>3 DEF Memorias, Suspendidos
  <2>9. Suspendidos'
    BY <1>0, <2>7, <2>8 DEF Suspendidos, Bloqueo
  <2> QED
    BY <2>5, <2>6, <2>9 DEF Memorias
<1> QED
  BY <1>1, <1>2, <1>3, Atendido

\* The process in the CPU brings back its own pages only.
LEMMA PasoAcceder ==
  ASSUME TypeOK, Cuentas, Ubicados, Memorias, Next, CpuAcceder
  PROVE  Memorias'
<1> USE EnManos, Sitios, Nombrados
<1>0. /\ \A l \in Nombres : Lugares'[l] = Lugares[l]
      /\ UNCHANGED <<consola, lp, sc, io, susp, esta_suspendido, respuestas, cpu>>
  BY Quietos DEF Quieto, CpuAcceder, suspension
<1>t. /\ memoria \in [Procesos -> {"sin_tabla", "residente", "suspendida"}]
      /\ \A l \in Nombres : \A x \in Lugares[l] : x.id \in Procesos
      /\ \A l \in Nombres : \A x \in Lugares[l] : consola[x.id] = "esperando"
  <2>1. \A l \in Nombres : \A x \in Lugares[l] : x.id \in Procesos
    BY LugaresTipo DEF PCB
  <2> QED
    BY <2>1 DEF TypeOK, KernelTypeOK, TipoSockets, Ubicados, ALoSumoUnExtraviado, EnAlgunLugar
<1>2. cpu \in Lugares["cpu"] /\ cpu.id \in Procesos /\ consola[cpu.id] = "esperando"
  BY <1>t DEF CpuAcceder
<1>3. \A l \in Nombres : l # "cpu" => \A x \in Lugares[l] : x.id # cpu.id
  BY <1>2, Distinto
<1>4. /\ memoria'[cpu.id] = "residente"
      /\ \A p \in Procesos : p # cpu.id => memoria'[p] = memoria[p]
  BY <1>t, <1>2 DEF CpuAcceder
<1>5. SinTabla'
  BY <1>0, <1>t, <1>2, <1>3, <1>4 DEF Memorias, SinTabla, LpConPCB, ScDuenio
<1>6. ConTabla'
  BY <1>0, <1>t, <1>3, <1>4 DEF Memorias, ConTabla, LpConPCB, ScDuenio
<1>7. Suspendidos'
  BY <1>0, <1>t, <1>3, <1>4 DEF Memorias, Suspendidos, Bloqueo, Pidiendo
<1> QED
  BY <1>5, <1>6, <1>7 DEF Memorias

\* Whatever the step, memory has of each process what its place requires.
LEMMA PasoMemorias ==
  ASSUME TypeOK, Cuentas, Ubicados, UnPedidoPorVez, Suspensores, Memorias, Next
  PROVE  Memorias'
<1>1. CASE AtenderPedido
  BY <1>1, PasoAtender
<1>2. CASE CpuAcceder
  BY <1>2, PasoAcceder
<1>3. CASE memoria' = memoria /\ ~AtenderPedido
  BY <1>3, PasoSinTabla, PasoConTabla, PasoSuspendidos DEF Memorias
<1> QED
  BY <1>1, <1>2, <1>3, NextMarco DEF Marco

\* At the start memory has nothing.
LEMMA InitMemorias == Init => Memorias
<1> SUFFICES ASSUME Init PROVE Memorias
  OBVIOUS
<1>1. /\ \A l \in Nombres : Lugares[l] = {}
      /\ lp.en = "esperar" /\ sc.en = "esperar"
      /\ \A p \in Procesos : memoria[p] = "sin_tabla"
  BY Vacio DEF Init, KernelInit, En, Lugares, Nombres, ScDuenio
<1> QED
  BY <1>1, Sitios DEF Memorias, SinTabla, ConTabla, Suspendidos

-----------------------------------------------------------------------------
\* The inductive invariant

\* The inductive invariant, from the pieces.
LEMMA InitInductiva == Init => Inductiva
  BY InitCuentas, InitUbicados, InitUnPedido, InitSuspensores, InitMemorias DEF Inductiva

LEMMA PasoInductiva == TypeOK /\ Inductiva /\ [Next]_vars => Inductiva'
<1> SUFFICES ASSUME TypeOK, Inductiva, [Next]_vars PROVE Inductiva'
  OBVIOUS
<1>1. Cuentas' /\ Ubicados' /\ Suspensores'
  BY PasoCuentas, PasoUbicados, PasoSuspensores DEF Inductiva
<1>2. CASE Next
  <2>1. UnPedidoPorVez' /\ Memorias'
    BY <1>2, PasoUnPedido, PasoMemorias DEF Inductiva
  <2> QED
    BY <1>1, <2>1 DEF Inductiva
<1>3. CASE UNCHANGED vars
  <2>1. UNCHANGED <<pedidos, respuestas, memoria, consola, sem, lp, sc, io, susp,
                    esta_suspendido, cola_new, cola_ready, cola_blocked,
                    cola_suspended_ready, dispatch, syscalls, cpu>>
    BY <1>3 DEF vars, kernel_vars, sockets, cpu_vars, colas, suspension
  <2>2. UnPedidoPorVez'
    BY <2>1 DEF Inductiva, UnPedidoPorVez, EnCurso, Pidiendo
  <2>3. Memorias'
    BY <2>1 DEF Inductiva, Memorias, SinTabla, ConTabla, Suspendidos, Lugares, Pidiendo, Bloqueo
  <2> QED
    BY <1>1, <2>2, <2>3 DEF Inductiva
<1> QED
  BY <1>2, <1>3

\* Everything Inductiva says of the kernel holds of every state it can reach:
\* where each process is, what its suspensors may do, what has been asked of
\* memory and what memory has of the process.
THEOREM SiempreInductiva == Spec => []Inductiva
  BY InitInductiva, PasoInductiva, TiposCorrectos, PTL DEF Spec

-----------------------------------------------------------------------------
\* Theorems

\* lp, esperar_syscall and the suspensors share one socket to memory, and none
\* ever reads the answer to another's request.
THEOREM CadaRespuestaASuDuenio == Spec => []RespuestaPropia
<1>1. UnPedidoPorVez => RespuestaPropia
  <2> SUFFICES ASSUME UnPedidoPorVez, respuestas # <<>> PROVE RespuestaPropia
    BY DEF RespuestaPropia
  <2>1. ASSUME NEW m, EnCurso(m)
        PROVE  pedidos = <<>> /\ Len(respuestas) = 1 /\ Head(respuestas) = m
    <3>1. pedidos = <<>> /\ respuestas = <<m>>
      BY <2>1 DEF EnCurso
    <3>2. Len(<<m>>) = 1 /\ Head(<<m>>) = m
      OBVIOUS
    <3> QED
      BY <3>1, <3>2
  <2>2. lp.en = "recibir" => EnCurso([op |-> "crear", id |-> lp.pcb.id])
    BY DEF UnPedidoPorVez
  <2>3. sc.en = "recibir" => EnCurso([op |-> "finalizar", id |-> sc.pcb.id])
    BY DEF UnPedidoPorVez
  <2>4. \A b \in Pidiendo : EnCurso([op |-> "suspender", id |-> b[1]])
    BY DEF UnPedidoPorVez
  <2>5. lp.en = "recibir" \/ sc.en = "recibir" \/ Pidiendo # {}
    BY DEF UnPedidoPorVez
  <2>6. Len(respuestas) = 1 /\ pedidos = <<>>
    BY <2>1, <2>2, <2>3, <2>4, <2>5
  <2>7. /\ lp.en = "recibir" => Head(respuestas) = [op |-> "crear", id |-> lp.pcb.id]
        /\ sc.en = "recibir" => Head(respuestas) = [op |-> "finalizar", id |-> sc.pcb.id]
    BY <2>1, <2>2, <2>3
  <2>8. \A b \in Pidiendo : Head(respuestas) = [op |-> "suspender", id |-> b[1]]
    BY <2>1, <2>4
  <2> QED
    BY <2>6, <2>7, <2>8 DEF RespuestaPropia, Pidiendo
<1> QED
  BY <1>1, SiempreInductiva, PTL DEF Inductiva

\* The processes of a place, as their numbers.
LEMMA NumerosDeLugares ==
  ASSUME TypeOK, NEW p
  PROVE  /\ p \in Ids(cola_new) <=> \E x \in Lugares["new"] : x.id = p
         /\ p \in Ids(cola_ready) <=> \E x \in Lugares["ready"] : x.id = p
         /\ p \in Ids(cola_blocked) <=> \E x \in Lugares["blocked"] : x.id = p
         /\ p \in Ids(cola_suspended_ready) <=>
              \E x \in Lugares["suspended_ready"] : x.id = p
         /\ p \in Ids(dispatch) <=> \E x \in Lugares["dispatch"] : x.id = p
         /\ p \in {syscalls[i].pcb.id : i \in DOMAIN syscalls} <=>
              \E x \in Lugares["syscalls"] : x.id = p
         /\ p \in IdDe(cpu) <=> \E x \in Lugares["cpu"] : x.id = p
         /\ p \in IdDe(lp.pcb) <=> \E x \in Lugares["lp"] : x.id = p
         /\ p \in IdDe(io.pcb) <=> \E x \in Lugares["io"] : x.id = p
<1>1. ASSUME NEW s PROVE p \in Ids(s) <=> \E x \in Range(s) : x.id = p
  BY DEF Ids, Range
<1>2. ASSUME NEW x PROVE p \in IdDe(x) <=> \E y \in {x} \ {NULO} : y.id = p
  BY DEF IdDe
<1>3. p \in {syscalls[i].pcb.id : i \in DOMAIN syscalls} <=>
        \E x \in {m.pcb : m \in Range(syscalls)} : x.id = p
  BY DEF Range
<1> QED
  BY <1>1, <1>2, <1>3 DEF Lugares

\* While memory is asked to suspend a process, that process is blocked: however
\* late its suspensor wakes up, it takes no frame from one that has gone on.
THEOREM SoloSeSuspendeLoBloqueado == Spec => []SuspensionSoloBloqueado
<1>1. TypeOK /\ Suspensores => SuspensionSoloBloqueado
  <2> SUFFICES ASSUME TypeOK, Suspensores, NEW b \in Bloqueos, susp[b] = "pidiendo"
               PROVE  b[1] \notin Ids(cola_new) \cup Ids(cola_ready)
                        \cup Ids(cola_suspended_ready) \cup Ids(dispatch) \cup IdDe(cpu)
                        \cup {syscalls[i].pcb.id : i \in DOMAIN syscalls} \cup IdDe(lp.pcb)
    BY DEF SuspensionSoloBloqueado
  <2>1. Vivo(b)
    BY DEF Suspensores, SuspensorAlDia, EstaSuspendidoAlDia, Pidiendo, Vivo
  <2>2. \A l \in Nombres : \A x \in Lugares[l] : x.id = b[1] => l \in {"blocked", "io"}
    BY <2>1, Nombrados DEF Suspensores, SuspensorAlDia
  <2>3. \A l \in {"new", "ready", "suspended_ready", "dispatch", "cpu", "syscalls", "lp"} :
          \A x \in Lugares[l] : x.id # b[1]
    BY <2>2, Sitios
  <2> QED
    BY <2>3, NumerosDeLugares
<1> QED
  BY <1>1, TiposCorrectos, SiempreInductiva, PTL DEF Inductiva

\* A process in suspended-ready has had all its frames taken away.
THEOREM SuspendidoSinMarcos == Spec => []SuspendidoSinFrames
<1>1. TypeOK /\ Memorias => SuspendidoSinFrames
  BY NumerosDeLugares DEF Memorias, Suspendidos, SuspendidoSinFrames
<1> QED
  BY <1>1, TiposCorrectos, SiempreInductiva, PTL DEF Inductiva

\* The CPU translates with the page table of the process it executes, and memory
\* has not released it.
THEOREM LaTablaEsLaPropia == Spec => []TablaPropia
<1>1. TypeOK /\ Memorias => TablaPropia
  BY EnManos DEF Memorias, ConTabla, TablaPropia
<1> QED
  BY <1>1, TiposCorrectos, SiempreInductiva, PTL DEF Inductiva

-----------------------------------------------------------------------------
\* How many processes hold frames

\* The processes that take a place of the degree once admitted, or that the race
\* has lost; and those that may hold frames, which are also the one being admitted
\* and one that has given its place back and whose memory is still to be released.
EnCola == Ids(cola_ready) \cup Ids(cola_blocked) \cup Ids(dispatch)
EnCpu == {syscalls[i].pcb.id : i \in DOMAIN syscalls} \cup IdDe(cpu)
SaleDeSc == IF sc.en \in {"bloquear", "enlazar", "liberar_grado"} THEN {sc.pcb.id} ELSE {}
EnHilos == SaleDeSc \cup IdDe(io.pcb)
Terminando == IF sc.en \in {"finalizar", "recibir"} THEN {sc.pcb.id} ELSE {}
Extraviados == {p \in Procesos : Extraviado(p)}
Admitidos == EnCola \cup EnCpu \cup EnHilos \cup Extraviados
ConMarcos == Admitidos \cup IdDe(lp.pcb) \cup Terminando

\* A process resident in memory is one of those.
LEMMA ResidentesConMarcos ==
  ASSUME TypeOK, Ubicados, Memorias
  PROVE  {p \in Procesos : memoria[p] = "residente"} \subseteq ConMarcos
<1> SUFFICES ASSUME NEW p \in Procesos, memoria[p] = "residente", p \notin Extraviados
             PROVE  p \in ConMarcos
  BY DEF ConMarcos, Admitidos
<1> USE Sitios, Nombrados
<1>1. consola[p] = "esperando"
  BY DEF Memorias, SinTabla, TypeOK, KernelTypeOK, TipoSockets
<1>2. PICK l \in Nombres : \E x \in Lugares[l] : x.id = p
  BY <1>1 DEF Extraviados, Extraviado, EnAlgunLugar
<1>3. l \notin {"new", "suspended_ready"}
  BY <1>2 DEF Memorias, SinTabla, Suspendidos
<1>4. CASE l \in {"ready", "blocked", "dispatch"}
  BY <1>2, <1>4, NumerosDeLugares DEF ConMarcos, Admitidos, EnCola
<1>5. CASE l \in {"syscalls", "cpu"}
  <2>1. p \in EnCpu
    BY <1>2, <1>5, NumerosDeLugares DEF EnCpu
  <2> QED
    BY <2>1 DEF ConMarcos, Admitidos
<1>6. CASE l \in {"lp", "io"}
  <2>1. p \in IdDe(lp.pcb) \cup IdDe(io.pcb)
    BY <1>2, <1>6, NumerosDeLugares
  <2> QED
    BY <2>1 DEF ConMarcos, Admitidos, EnHilos
<1>7. CASE l = "sc"
  <2>1. sc.en \in ScDuenio /\ sc.pcb.id = p
    BY <1>2, <1>7 DEF Lugares
  <2>2. sc.en # "responder"
    BY <2>1 DEF Memorias, SinTabla
  <2>3. sc.en # "desalojar"
    BY DEF Ubicados, SinDesalojo
  <2>4. p \in SaleDeSc \cup Terminando
    BY <2>1, <2>2, <2>3 DEF ScDuenio, SaleDeSc, Terminando
  <2> QED
    BY <2>4 DEF ConMarcos, Admitidos, EnHilos
<1> QED
  BY <1>2, <1>3, <1>4, <1>5, <1>6, <1>7 DEF Nombres

\* The places of the degree are enough for them.
LEMMA CuantosAdmitidos ==
  ASSUME TypeOK, Cuentas, Ubicados
  PROVE  Acotado(Admitidos, LugaresOcupados - LugarLp + Perdido)
<1>n. NatGrado /\ CpuOcupada \in Nat
  BY Naturales, NaturalesFIFO DEF TypeOK
<1>a. ASSUME NEW s \in {cola_ready, cola_blocked, dispatch}
      PROVE  Acotado(Ids(s), Len(s))
  <2>1. s \in Seq(PCB) /\ Distintos(s)
    BY DEF Ubicados, SinRepetidos, TypeOK, KernelTypeOK, TipoColas, TipoCpu
  <2>2. IsFiniteSet(Ids(s)) /\ Cardinality(Ids(s)) = Len(s) /\ Len(s) \in Nat
    BY <2>1, IdsContados, LenProperties
  <2> QED
    BY <2>2 DEF Acotado
<1>b. Acotado({syscalls[i].pcb.id : i \in DOMAIN syscalls}, Len(syscalls))
  <2> DEFINE S == {syscalls[i].pcb.id : i \in DOMAIN syscalls}
  <2>1. Len(syscalls) \in {0, 1}
    <3>1. NatCPU /\ CpDespacha \in Nat /\ CpuOcupada \in Nat /\ UnSoloProcesoEnCPU
      BY Naturales, NaturalesFIFO DEF TypeOK, Cuentas
    <3>2. PICK n \in Nat : n = Len(syscalls)
      BY <3>1 DEF NatCPU
    <3>3. n <= 1
      BY <3>1, <3>2 DEF NatCPU, UnSoloProcesoEnCPU
    <3>4. n = 0 \/ n = 1
      BY <3>2, <3>3
    <3> QED
      BY <3>2, <3>4
  <2>2. DOMAIN syscalls = 1..Len(syscalls)
    BY LenProperties DEF TypeOK, KernelTypeOK, TipoCpu
  <2>3. \A i \in DOMAIN syscalls : i = 1 /\ Len(syscalls) = 1
    BY <2>1, <2>2
  <2>4. \A x, y \in S : x = y
    BY <2>3
  <2>5. Len(syscalls) = 0 => S = {}
    BY <2>3
  <2> HIDE DEF S
  <2>6. Acotado(S, Len(syscalls))
    BY <2>1, <2>4, <2>5, ALoSumoUno
  <2> QED
    BY <2>6 DEF S
<1>c. Acotado(IdDe(cpu), CpuOcupada)
  <2>1. /\ CpuOcupada \in {0, 1} /\ (CpuOcupada = 0 => IdDe(cpu) = {})
        /\ \A x, y \in IdDe(cpu) : x = y
    BY DEF CpuOcupada, Uno, IdDe
  <2> QED
    BY <2>1, ALoSumoUno
<1>d. Acotado(SaleDeSc, LugarSc)
  <2>1. /\ LugarSc \in {0, 1} /\ (LugarSc = 0 => SaleDeSc = {})
        /\ \A x, y \in SaleDeSc : x = y
    BY DEF LugarSc, Uno, SaleDeSc
  <2> QED
    BY <2>1, ALoSumoUno
<1>f. Acotado(IdDe(io.pcb), LugarIo)
  <2>1. /\ LugarIo \in {0, 1} /\ (LugarIo = 0 => IdDe(io.pcb) = {})
        /\ \A x, y \in IdDe(io.pcb) : x = y
    BY DEF LugarIo, Uno, IdDe, TypeOK, KernelTypeOK, TipoIo, IoConPCB
  <2> QED
    BY <2>1, ALoSumoUno
<1>h. Acotado(Extraviados, Perdido)
  <2>1. /\ Perdido \in {0, 1} /\ (Perdido = 0 => Extraviados = {})
        /\ \A x, y \in Extraviados : x = y
    BY DEF Extraviados, Perdido, Uno, Ubicados, ALoSumoUnExtraviado
  <2> QED
    BY <2>1, ALoSumoUno
\* The terms, as numbers of no particular meaning: n1 .. n9 are enough to add.
<1>1. PICK n1 \in Nat : n1 = Len(cola_ready)
  BY <1>n DEF NatGrado
<1>2. PICK n2 \in Nat : n2 = Len(cola_blocked)
  BY <1>n DEF NatGrado
<1>3. PICK n3 \in Nat : n3 = Len(dispatch)
  BY <1>n DEF NatGrado
<1>4. PICK n4 \in Nat : n4 = Len(syscalls)
  BY <1>n DEF NatGrado
<1>5. PICK n5 \in Nat : n5 = CpuOcupada
  BY <1>n DEF NatGrado
<1>6. PICK n6 \in Nat : n6 = LugarSc
  BY <1>n DEF NatGrado
<1>8. PICK n8 \in Nat : n8 = LugarIo
  BY <1>n DEF NatGrado
<1>9. PICK n9 \in Nat : n9 = Perdido
  BY <1>n DEF NatGrado
<1>10. Acotado(EnCola, n1 + n2 + n3)
  <2>1. Acotado(Ids(cola_ready), n1)
    BY <1>a, <1>1
  <2>2. Acotado(Ids(cola_blocked), n2)
    BY <1>a, <1>2
  <2>3. Acotado(Ids(dispatch), n3)
    BY <1>a, <1>3
  <2>4. Acotado(Ids(cola_ready) \cup Ids(cola_blocked), n1 + n2) /\ n1 + n2 \in Nat
    BY <2>1, <2>2, Juntos
  <2> QED
    BY <2>3, <2>4, Juntos DEF EnCola
<1>11. Acotado(EnCpu, n4 + n5)
  <2>1. Acotado({syscalls[i].pcb.id : i \in DOMAIN syscalls}, n4)
    BY <1>b, <1>4
  <2>2. Acotado(IdDe(cpu), n5)
    BY <1>c, <1>5
  <2> QED
    BY <2>1, <2>2, Juntos DEF EnCpu
<1>12. Acotado(EnHilos, n6 + n8)
  <2>1. Acotado(SaleDeSc, n6)
    BY <1>d, <1>6
  <2>2. Acotado(IdDe(io.pcb), n8)
    BY <1>f, <1>8
  <2> QED
    BY <2>1, <2>2, Juntos DEF EnHilos
<1>13. PICK a \in Nat : a = n1 + n2 + n3
  OBVIOUS
<1>14. PICK b \in Nat : b = n4 + n5
  OBVIOUS
<1>15. PICK c \in Nat : c = n6 + n8
  OBVIOUS
<1>16. Acotado(EnCola \cup EnCpu, a + b) /\ a + b \in Nat
  <2>1. Acotado(EnCola, a) /\ Acotado(EnCpu, b)
    BY <1>10, <1>11, <1>13, <1>14
  <2> QED
    BY <2>1, Juntos
<1>17. Acotado(EnCola \cup EnCpu \cup EnHilos, a + b + c) /\ a + b + c \in Nat
  <2>1. Acotado(EnHilos, c)
    BY <1>12, <1>15
  <2> QED
    BY <1>16, <2>1, Juntos
<1>18. Acotado(Extraviados, n9)
  BY <1>h, <1>9
<1>19. Acotado(Admitidos, a + b + c + n9)
  BY <1>17, <1>18, Juntos DEF Admitidos
<1>20. PICK k \in Nat : k = LugarLp
  BY <1>n DEF NatGrado
<1>21. LugaresOcupados = k + n1 + n3 + n5 + n4 + n6 + n2 + n8
  BY <1>1, <1>2, <1>3, <1>4, <1>5, <1>6, <1>8, <1>20 DEF LugaresOcupados
<1>22. a + b + c + n9 = LugaresOcupados - LugarLp + Perdido
  BY <1>9, <1>13, <1>14, <1>15, <1>20, <1>21
<1> QED
  BY <1>19, <1>22

\* With the process being admitted and the one being finished: one more at most.
LEMMA CuantosConMarcos ==
  ASSUME TypeOK, Cuentas, Ubicados
  PROVE  Acotado(ConMarcos, LugaresOcupados + 1 + Perdido)
<1>n. NatGrado /\ CpuOcupada \in Nat
  BY Naturales, NaturalesFIFO DEF TypeOK
<1>e. Acotado(IdDe(lp.pcb), LugarLp)
  <2>1. /\ LugarLp \in {0, 1} /\ (LugarLp = 0 => IdDe(lp.pcb) = {})
        /\ \A x, y \in IdDe(lp.pcb) : x = y
    BY DEF LugarLp, Uno, IdDe, TypeOK, KernelTypeOK, TipoLp, LpConPCB
  <2> QED
    BY <2>1, ALoSumoUno
<1>g. Acotado(Terminando, 1)
  <2>1. \A x, y \in Terminando : x = y
    BY DEF Terminando
  <2> QED
    BY <2>1, ALoSumoUno
<1>1. PICK k \in Nat : k = LugarLp
  BY <1>n DEF NatGrado
<1>2. PICK m \in Nat : m = LugaresOcupados - LugarLp + Perdido
  BY <1>n DEF NatGrado, LugaresOcupados
<1>3. Acotado(Admitidos, m) /\ Acotado(IdDe(lp.pcb), k)
  BY <1>e, <1>1, <1>2, CuantosAdmitidos
<1>4. Acotado(Admitidos \cup IdDe(lp.pcb), m + k) /\ m + k \in Nat
  BY <1>3, Juntos
<1>5. Acotado(ConMarcos, m + k + 1)
  BY <1>g, <1>4, Juntos DEF ConMarcos
<1>6. LugaresOcupados \in Nat /\ Perdido \in Nat
  BY <1>n DEF NatGrado, LugaresOcupados
<1>7. m + k + 1 = LugaresOcupados + 1 + Perdido
  BY <1>1, <1>2, <1>6
<1> QED
  BY <1>5, <1>7

\* executing_a_exit posts grado_multiprogramacion before the memory of the process
\* is released: frames are held by one process more than the degree, never two.
THEOREM ResidentesSiempreAcotados == Spec => []ResidentesAcotados
<1>1. TypeOK /\ Cuentas /\ Ubicados /\ Memorias => ResidentesAcotados
  <2> SUFFICES ASSUME TypeOK, Cuentas, Ubicados, Memorias PROVE ResidentesAcotados
    OBVIOUS
  <2> DEFINE R == {p \in Procesos : memoria[p] = "residente"}
  <2>1. Acotado(ConMarcos, LugaresOcupados + 1 + Perdido)
    BY CuantosConMarcos
  <2>2. R \subseteq ConMarcos
    BY ResidentesConMarcos
  <2>n. LugaresOcupados \in Nat /\ Perdido \in Nat /\ sem["grado_multiprogramacion"] \in Nat
    <3>1. NatGrado /\ CpuOcupada \in Nat
      BY Naturales, NaturalesFIFO DEF TypeOK
    <3> QED
      BY <3>1 DEF NatGrado, LugaresOcupados
  <2>g. GradoRespetado /\ GRADO_MULTIPROGRAMACION \in Nat
    BY KernelAssumption DEF KernelAssumption, Cuentas
  <2>3. LugaresOcupados + 1 + Perdido <= GRADO_MULTIPROGRAMACION + 1
    BY <2>n, <2>g DEF GradoRespetado
  <2> HIDE DEF R
  <2>4. /\ Cardinality(R) <= Cardinality(ConMarcos)
        /\ Cardinality(R) \in Nat /\ Cardinality(ConMarcos) \in Nat
    BY <2>1, <2>2, FS_Subset, FS_CardinalityType DEF Acotado
  <2>5. LugaresOcupados + 1 + Perdido \in Nat
    BY <2>n
  <2>6. Cardinality(R) <= GRADO_MULTIPROGRAMACION + 1
    BY <2>1, <2>3, <2>4, <2>5, <2>g DEF Acotado
  <2> QED
    BY <2>6 DEF R, ResidentesAcotados
<1> QED
  BY <1>1, TiposCorrectos, SiempreInductiva, PTL DEF Inductiva

-----------------------------------------------------------------------------
\* The state of a process, by its place

EnEjecucion == {"bloquear", "enlazar", "liberar_grado"}

EstadoEn(l, x) ==
  IF l = "new" THEN "new"
  ELSE IF l = "lp" THEN IF x.pc = 0 THEN "new" ELSE "suspended_ready"
  ELSE IF l = "suspended_ready" THEN "suspended_ready"
  ELSE IF l = "ready" THEN "ready"
  ELSE IF l \in {"dispatch", "cpu", "syscalls"} THEN "exec"
  ELSE IF l = "sc" THEN IF sc.en \in EnEjecucion THEN "exec" ELSE "exit"
  ELSE IF Bloqueo(x) \in esta_suspendido THEN "suspended_blocked" ELSE "blocked"

\* The cases of Estado exclude each other: a process is in one place.
LEMMA UnSoloCaso ==
  ASSUME TypeOK, Ubicados, NEW q \in Procesos, NEW l \in Nombres, NEW x \in Lugares[l],
         x.id = q
  PROVE  /\ consola[q] = "esperando"
         /\ q \in Ids(cola_new) <=> l = "new"
         /\ q \in IdDe(lp.pcb) <=> l = "lp"
         /\ l = "lp" => lp.pcb = x
         /\ q \in Ids(cola_suspended_ready) <=> l = "suspended_ready"
         /\ q \in Ids(cola_ready) <=> l = "ready"
         /\ q \in Ids(dispatch) \cup IdDe(cpu) \cup {syscalls[i].pcb.id : i \in DOMAIN syscalls}
              <=> l \in {"dispatch", "cpu", "syscalls"}
         /\ q \in IdDe(sc.pcb) /\ sc.en \in ScDuenio <=> l = "sc"
         /\ (\E i \in DOMAIN cola_blocked : /\ cola_blocked[i].id = q
                                            /\ Bloqueo(cola_blocked[i]) \in esta_suspendido)
              <=> l = "blocked" /\ Bloqueo(x) \in esta_suspendido
         /\ q \in IdDe(io.pcb) /\ Bloqueo(io.pcb) \in esta_suspendido
              <=> l = "io" /\ Bloqueo(x) \in esta_suspendido
<1> USE Sitios, Nombrados
<1>1. \A m \in Nombres : (\E y \in Lugares[m] : y.id = q) <=> m = l
  BY DEF Ubicados, EnUnSoloLugar
<1>2. \A y \in Lugares[l] : y.id = q => y = x
  BY DEF Ubicados, EnUnSoloLugar
<1>3. consola[q] = "esperando"
  BY DEF Ubicados, ALoSumoUnExtraviado, EnAlgunLugar
<1>4. /\ q \in Ids(cola_new) <=> l = "new"
      /\ q \in IdDe(lp.pcb) <=> l = "lp"
      /\ q \in Ids(cola_suspended_ready) <=> l = "suspended_ready"
      /\ q \in Ids(cola_ready) <=> l = "ready"
  BY <1>1, NumerosDeLugares
<1>5. q \in Ids(dispatch) \cup IdDe(cpu) \cup {syscalls[i].pcb.id : i \in DOMAIN syscalls}
        <=> l \in {"dispatch", "cpu", "syscalls"}
  BY <1>1, NumerosDeLugares
<1>6. l = "lp" => lp.pcb = x
  BY DEF Lugares
<1>7. q \in IdDe(sc.pcb) /\ sc.en \in ScDuenio <=> l = "sc"
  <2>1. sc.en \in ScDuenio => sc.pcb # NULO
    BY NuloAssumption DEF NuloAssumption, TypeOK, KernelTypeOK, TipoSc, ScDuenio, ScConPCB
  <2>2. q \in IdDe(sc.pcb) /\ sc.en \in ScDuenio <=> \E y \in Lugares["sc"] : y.id = q
    BY <2>1 DEF Lugares, IdDe
  <2> QED
    BY <1>1, <2>2
<1>8. (\E i \in DOMAIN cola_blocked : /\ cola_blocked[i].id = q
                                      /\ Bloqueo(cola_blocked[i]) \in esta_suspendido)
        <=> l = "blocked" /\ Bloqueo(x) \in esta_suspendido
  <2>1. (\E i \in DOMAIN cola_blocked : /\ cola_blocked[i].id = q
                                        /\ Bloqueo(cola_blocked[i]) \in esta_suspendido)
          <=> \E y \in Lugares["blocked"] : y.id = q /\ Bloqueo(y) \in esta_suspendido
    BY DEF Lugares, Range
  <2> QED
    BY <1>1, <1>2, <2>1
<1>9. q \in IdDe(io.pcb) /\ Bloqueo(io.pcb) \in esta_suspendido
        <=> l = "io" /\ Bloqueo(x) \in esta_suspendido
  <2>1. q \in IdDe(io.pcb) <=> l = "io"
    BY <1>1, NumerosDeLugares
  <2>2. l = "io" => io.pcb = x
    BY DEF Lugares
  <2> QED
    BY <2>1, <2>2
<1> QED
  BY <1>3, <1>4, <1>5, <1>6, <1>7, <1>8, <1>9

EstadoPorLugar ==
  \A q \in Procesos :
    /\ consola[q] = "sin_conectar" => Estado(q) = "ausente"
    /\ consola[q] = "finalizada" => Estado(q) = "exit"
    /\ Extraviado(q) => Estado(q) = "blocked"
    /\ \A l \in Nombres : \A x \in Lugares[l] : x.id = q => Estado(q) = EstadoEn(l, x)

\* The state a place gives is the one the refinement mapping computes.
LEMMA LosEstados == TypeOK /\ Ubicados => EstadoPorLugar
<1> SUFFICES ASSUME TypeOK, Ubicados, NEW q \in Procesos
             PROVE  /\ consola[q] = "sin_conectar" => Estado(q) = "ausente"
                    /\ consola[q] = "finalizada" => Estado(q) = "exit"
                    /\ Extraviado(q) => Estado(q) = "blocked"
                    /\ \A l \in Nombres : \A x \in Lugares[l] :
                         x.id = q => Estado(q) = EstadoEn(l, x)
  BY DEF EstadoPorLugar
<1> USE Sitios, Nombrados
\* A process in no place is in none of the queues and hands.
<1>1. ASSUME ~EnAlgunLugar(q)
      PROVE  /\ q \notin Ids(cola_new) /\ q \notin IdDe(lp.pcb)
             /\ q \notin Ids(cola_suspended_ready) /\ q \notin Ids(cola_ready)
             /\ q \notin Ids(dispatch) \cup IdDe(cpu)
                           \cup {syscalls[i].pcb.id : i \in DOMAIN syscalls}
             /\ ~(q \in IdDe(sc.pcb) /\ sc.en \in ScDuenio)
             /\ \A i \in DOMAIN cola_blocked : cola_blocked[i].id # q
             /\ q \notin IdDe(io.pcb)
  <2>1. \A m \in Nombres : \A y \in Lugares[m] : y.id # q
    BY <1>1 DEF EnAlgunLugar
  <2>2. ~(q \in IdDe(sc.pcb) /\ sc.en \in ScDuenio)
    BY <2>1 DEF Lugares, IdDe
  <2>3. \A i \in DOMAIN cola_blocked : cola_blocked[i].id # q
    BY <2>1 DEF Lugares, Range
  <2>4. \A m \in Nombres : ~(\E y \in Lugares[m] : y.id = q)
    BY <2>1
  <2>5. /\ q \notin Ids(cola_new) /\ q \notin IdDe(lp.pcb) /\ q \notin IdDe(io.pcb)
        /\ q \notin Ids(cola_suspended_ready) /\ q \notin Ids(cola_ready)
    BY <2>4, NumerosDeLugares
  <2>6. q \notin Ids(dispatch) \cup IdDe(cpu) \cup {syscalls[i].pcb.id : i \in DOMAIN syscalls}
    BY <2>4, NumerosDeLugares
  <2> QED
    BY <2>2, <2>3, <2>5, <2>6
<1>2. consola[q] # "esperando" => ~EnAlgunLugar(q)
  BY DEF Ubicados, ALoSumoUnExtraviado
<1>3. ASSUME consola[q] = "sin_conectar" PROVE Estado(q) = "ausente"
  BY <1>1, <1>2, <1>3 DEF Estado, ScDuenio
<1>4. ASSUME consola[q] = "finalizada" PROVE Estado(q) = "exit"
  BY <1>1, <1>2, <1>4 DEF Estado, ScDuenio
<1>5. ASSUME Extraviado(q) PROVE Estado(q) = "blocked"
  BY <1>1, <1>5 DEF Estado, ScDuenio, Extraviado
<1>6. ASSUME NEW l \in Nombres, NEW x \in Lugares[l], x.id = q
      PROVE  Estado(q) = EstadoEn(l, x)
  <2>u. /\ consola[q] = "esperando"
        /\ q \in Ids(cola_new) <=> l = "new"
        /\ q \in IdDe(lp.pcb) <=> l = "lp"
        /\ l = "lp" => lp.pcb = x
        /\ q \in Ids(cola_suspended_ready) <=> l = "suspended_ready"
        /\ q \in Ids(cola_ready) <=> l = "ready"
        /\ q \in Ids(dispatch) \cup IdDe(cpu) \cup {syscalls[i].pcb.id : i \in DOMAIN syscalls}
             <=> l \in {"dispatch", "cpu", "syscalls"}
        /\ q \in IdDe(sc.pcb) /\ sc.en \in ScDuenio <=> l = "sc"
        /\ (\E i \in DOMAIN cola_blocked : /\ cola_blocked[i].id = q
                                           /\ Bloqueo(cola_blocked[i]) \in esta_suspendido)
             <=> l = "blocked" /\ Bloqueo(x) \in esta_suspendido
        /\ q \in IdDe(io.pcb) /\ Bloqueo(io.pcb) \in esta_suspendido
             <=> l = "io" /\ Bloqueo(x) \in esta_suspendido
    BY <1>6, UnSoloCaso
  <2>p. l = "lp" => x.pc \in Nat
    BY <1>6, LugaresTipo, KernelAssumption DEF PCB, KernelAssumption
  <2>1. CASE l = "new"
    BY <2>u, <2>1 DEF Estado, EstadoEn, ScDuenio
  <2>2. CASE l = "lp"
    BY <2>u, <2>p, <2>2 DEF Estado, EstadoEn, ScDuenio
  <2>3. CASE l = "suspended_ready"
    BY <2>u, <2>3 DEF Estado, EstadoEn, ScDuenio
  <2>4. CASE l = "ready"
    BY <2>u, <2>4 DEF Estado, EstadoEn, ScDuenio
  <2>5. CASE l \in {"dispatch", "cpu", "syscalls"}
    BY <2>u, <2>5 DEF Estado, EstadoEn, ScDuenio
  <2>6. CASE l = "sc"
    BY <2>u, <2>6 DEF Estado, EstadoEn, ScDuenio, EnEjecucion, Ubicados, SinDesalojo
  <2>7. CASE l \in {"blocked", "io"}
    BY <2>u, <2>7 DEF Estado, EstadoEn, ScDuenio
  <2> QED
    BY <2>1, <2>2, <2>3, <2>4, <2>5, <2>6, <2>7 DEF Nombres
<1> QED
  BY <1>3, <1>4, <1>5, <1>6

\* The same, of the state after a step.
LEMMA LosEstadosPrima == TypeOK' /\ Ubicados' => EstadoPorLugar'
  BY LosEstados, PTL

-----------------------------------------------------------------------------
\* What a step does to the states of the processes

\* A process that nobody touches keeps its state.
LEMMA Ajeno ==
  ASSUME TypeOK, Ubicados, TypeOK', Ubicados', NEW q \in Procesos, consola'[q] = consola[q],
         \A l \in Nombres : \A u : u.id = q => (u \in Lugares'[l] <=> u \in Lugares[l]),
         \A u \in Lugares["sc"] : u.id = q => (sc'.en \in EnEjecucion <=> sc.en \in EnEjecucion),
         \A b : b[1] = q => (b \in esta_suspendido' <=> b \in esta_suspendido)
  PROVE  Estado(q)' = Estado(q)
<1> USE Sitios, Nombrados
<1>e. EstadoPorLugar /\ EstadoPorLugar'
  BY LosEstados, LosEstadosPrima
<1>1. CASE EnAlgunLugar(q)
  <2>1. PICK l \in Nombres : \E x \in Lugares[l] : x.id = q
    BY <1>1 DEF EnAlgunLugar
  <2>2. PICK x \in Lugares[l] : x.id = q
    BY <2>1
  <2>3. x \in Lugares'[l]
    BY <2>2
  <2>4. Estado(q) = EstadoEn(l, x) /\ Estado(q)' = EstadoEn(l, x)'
    BY <1>e, <2>2, <2>3 DEF EstadoPorLugar
  <2>5. l = "sc" => (sc'.en \in EnEjecucion <=> sc.en \in EnEjecucion)
    BY <2>2
  <2>6. Bloqueo(x)[1] = q
    BY <2>2 DEF Bloqueo
  <2>7. Bloqueo(x) \in esta_suspendido' <=> Bloqueo(x) \in esta_suspendido
    BY <2>6
  <2>8. EstadoEn(l, x)' = EstadoEn(l, x)
    BY <2>5, <2>7 DEF EstadoEn, EnEjecucion, Bloqueo
  <2> QED
    BY <2>4, <2>8
<1>2. CASE ~EnAlgunLugar(q)
  <2>1. ~EnAlgunLugar(q)'
    BY <1>2 DEF EnAlgunLugar
  <2>2. consola[q] = "esperando" => Extraviado(q) /\ Extraviado(q)'
    BY <1>2, <2>1 DEF Extraviado
  <2>3. consola[q] \in {"sin_conectar", "esperando", "finalizada"}
    BY DEF TypeOK, KernelTypeOK, TipoSockets
  <2> QED
    BY <1>e, <2>2, <2>3 DEF EstadoPorLugar
<1> QED
  BY <1>1, <1>2

Estados == [p \in Procesos |-> Estado(p)]

\* A step that moves one PCB changes the state of its process and no other.
LEMMA UnoSeMuda ==
  ASSUME TypeOK, Ubicados, TypeOK', Ubicados',
         NEW a \in Nombres, NEW b \in Nombres, NEW x \in Lugares[a], NEW y, y.id = x.id,
         Muda(a, x, b, y), UNCHANGED <<consola, esta_suspendido>>,
         \A u \in Lugares["sc"] :
           u.id # x.id => (sc'.en \in EnEjecucion <=> sc.en \in EnEjecucion)
  PROVE  /\ x.id \in Procesos /\ Estados[x.id] = EstadoEn(a, x)
         /\ Estados' = [Estados EXCEPT ![x.id] = EstadoEn(b, y)']
<1>1. x.id \in Procesos
  BY LugaresTipo DEF PCB
<1>2. y \in Lugares'[b]
  BY DEF Muda, Solo
<1>3. Estado(x.id) = EstadoEn(a, x)
  BY <1>1, LosEstados DEF EstadoPorLugar
<1>4. Estado(x.id)' = EstadoEn(b, y)'
  <2>1. PICK p \in Procesos : p = x.id
    BY <1>1
  <2>2. Estado(p)' = EstadoEn(b, y)'
    BY <1>2, <2>1, LosEstadosPrima DEF EstadoPorLugar
  <2> QED
    BY <2>1, <2>2
<1>5. ASSUME NEW q \in Procesos, q # x.id PROVE Estado(q)' = Estado(q)
  <2>1. \A l \in Nombres : \A u : u.id = q => (u \in Lugares'[l] <=> u \in Lugares[l])
    BY <1>5 DEF Muda, Solo
  <2> QED
    BY <1>5, <2>1, Ajeno
<1> QED
  BY <1>1, <1>3, <1>4, <1>5 DEF Estados

\* ... and a step that moves nobody changes none.
LEMMA NadieSeMuda ==
  ASSUME TypeOK, Ubicados, TypeOK', Ubicados', Quieto, UNCHANGED <<consola, esta_suspendido>>,
         \A u \in Lugares["sc"] : sc'.en \in EnEjecucion <=> sc.en \in EnEjecucion
  PROVE  Estados' = Estados
<1>1. ASSUME NEW q \in Procesos PROVE Estado(q)' = Estado(q)
  BY Ajeno DEF Quieto
<1> QED
  BY <1>1 DEF Estados

-----------------------------------------------------------------------------
\* The steps, one by one

\* The arrival of a process.
LEMMA PasoLlegar ==
  ASSUME TypeOK, Cuentas, Ubicados, TypeOK', Ubicados', UNCHANGED cpu,
         NEW p \in Procesos, RecibirProceso(p)
  PROVE  Ciclo!Llegar(p)
<1>1. /\ Entra("new", PCBNuevo(p)) /\ PCBNuevo(p).id = p
      /\ UNCHANGED <<sc, esta_suspendido>>
  BY Traslados DEF PCBNuevo, RecibirProceso, suspension
<1>2. /\ consola[p] = "sin_conectar"
      /\ \A q \in Procesos : q # p => consola'[q] = consola[q]
  BY DEF RecibirProceso, TypeOK, KernelTypeOK, TipoSockets
<1>3. Estado(p) = "ausente"
  BY <1>2, LosEstados DEF EstadoPorLugar
<1>4. Estado(p)' = "new"
  <2>1. PICK y : y = PCBNuevo(p)
    OBVIOUS
  <2>2. y \in Lugares'["new"] /\ y.id = p
    BY <1>1, <2>1, Sitios DEF Entra, Solo
  <2>3. Estado(p)' = EstadoEn("new", y)'
    BY <2>2, LosEstadosPrima, Sitios DEF EstadoPorLugar
  <2> QED
    BY <2>3 DEF EstadoEn
<1>5. ASSUME NEW q \in Procesos, q # p PROVE Estado(q)' = Estado(q)
  <2>1. \A l \in Nombres : \A u : u.id = q => (u \in Lugares'[l] <=> u \in Lugares[l])
    BY <1>1, <1>5 DEF Entra, Solo
  <2> QED
    BY <1>1, <1>2, <1>5, <2>1, Ajeno
<1>6. Estados[p] = "ausente" /\ Estados' = [Estados EXCEPT ![p] = "new"]
  BY <1>3, <1>4, <1>5 DEF Estados
<1> QED
  BY <1>6 DEF Ciclo!Llegar, Ciclo!Pasar, Estados

\* pasar_a_ready admits a process only within the degree.
LEMMA HayLugarParaAdmitir ==
  ASSUME TypeOK, Cuentas, Ubicados, lp.en = "encolar"
  PROVE  Cardinality({p \in Procesos :
           Estados[p] \in {"ready", "exec", "blocked", "suspended_blocked"}})
             < GRADO_MULTIPROGRAMACION
<1> DEFINE S == {p \in Procesos :
             Estados[p] \in {"ready", "exec", "blocked", "suspended_blocked"}}
<1>1. S \subseteq Admitidos
  <2> SUFFICES ASSUME NEW p \in Procesos, p \notin Extraviados,
                      Estado(p) \in {"ready", "exec", "blocked", "suspended_blocked"}
               PROVE  p \in Admitidos
    BY DEF Estados, Admitidos
  <2>1. consola[p] = "esperando"
    BY LosEstados DEF EstadoPorLugar, TypeOK, KernelTypeOK, TipoSockets
  <2>2. PICK l \in Nombres : \E x \in Lugares[l] : x.id = p
    BY <2>1, Nombrados DEF Extraviados, Extraviado, EnAlgunLugar
  <2>3. PICK x \in Lugares[l] : x.id = p
    BY <2>2
  <2>4. EstadoEn(l, x) \in {"ready", "exec", "blocked", "suspended_blocked"}
    BY <2>3, LosEstados DEF EstadoPorLugar
  <2>5. CASE l \in {"ready", "blocked", "dispatch"}
    BY <2>2, <2>5, NumerosDeLugares DEF Admitidos, EnCola
  <2>6. CASE l \in {"syscalls", "cpu"}
    <3>1. p \in EnCpu
      BY <2>2, <2>6, NumerosDeLugares DEF EnCpu
    <3> QED
      BY <3>1 DEF Admitidos
  <2>7. CASE l = "io"
    <3>1. p \in IdDe(io.pcb)
      BY <2>2, <2>7, NumerosDeLugares
    <3> QED
      BY <3>1 DEF Admitidos, EnHilos
  <2>8. CASE l = "sc"
    <3>1. sc.en \in EnEjecucion /\ sc.pcb = x
      BY <2>4, <2>8 DEF EstadoEn, Lugares
    <3>2. p \in SaleDeSc
      BY <2>3, <3>1 DEF SaleDeSc, EnEjecucion
    <3> QED
      BY <3>2 DEF Admitidos, EnHilos
  <2>9. l \notin {"new", "lp", "suspended_ready"}
    BY <2>4 DEF EstadoEn
  <2> QED
    BY <2>5, <2>6, <2>7, <2>8, <2>9 DEF Nombres
<1>2. Acotado(Admitidos, LugaresOcupados - LugarLp + Perdido)
  BY CuantosAdmitidos
<1>3. /\ LugaresOcupados \in Nat /\ Perdido \in Nat /\ sem["grado_multiprogramacion"] \in Nat
  <2>1. NatGrado /\ CpuOcupada \in Nat
    BY Naturales, NaturalesFIFO DEF TypeOK
  <2> QED
    BY <2>1 DEF NatGrado, LugaresOcupados
<1>4. LugarLp = 1
  BY DEF LugarLp, Uno
<1>5. GradoRespetado /\ GRADO_MULTIPROGRAMACION \in Nat
  BY KernelAssumption DEF KernelAssumption, Cuentas
<1>6. LugaresOcupados - LugarLp + Perdido < GRADO_MULTIPROGRAMACION
  BY <1>3, <1>4, <1>5 DEF GradoRespetado
<1> HIDE DEF S
<1>7. /\ Cardinality(S) <= Cardinality(Admitidos)
      /\ Cardinality(S) \in Nat /\ Cardinality(Admitidos) \in Nat
  BY <1>1, <1>2, FS_Subset, FS_CardinalityType DEF Acotado
<1>8. PICK k \in Int : k = LugaresOcupados - LugarLp + Perdido
  BY <1>3, <1>4
<1>9. Cardinality(Admitidos) <= k
  BY <1>2, <1>8 DEF Acotado
<1>10. Cardinality(S) < GRADO_MULTIPROGRAMACION
  BY <1>5, <1>6, <1>7, <1>8, <1>9
<1> QED
  BY <1>10 DEF S

\* EncolarReady is the admission, and there is room for it.
LEMMA PasoAdmitir ==
  ASSUME TypeOK, Cuentas, Ubicados, TypeOK', Ubicados', UNCHANGED cpu, EncolarReady
  PROVE  \E p \in Procesos : Ciclo!Admitir(p)
<1>1. /\ lp.pcb \in Lugares["lp"] /\ Muda("lp", lp.pcb, "ready", lp.pcb)
      /\ lp.en = "encolar" /\ UNCHANGED <<sc, consola, esta_suspendido>>
  BY Traslados DEF EncolarReady, sockets, suspension
<1>2. PICK x : x = lp.pcb
  OBVIOUS
<1>3. /\ x.id \in Procesos /\ Estados[x.id] = EstadoEn("lp", x)
      /\ Estados' = [Estados EXCEPT ![x.id] = EstadoEn("ready", x)']
  BY <1>1, <1>2, Sitios, UnoSeMuda
<1>4. EstadoEn("lp", x) \in {"new", "suspended_ready"} /\ EstadoEn("ready", x)' = "ready"
  BY DEF EstadoEn
<1>5. Ciclo!Admitir(x.id)
  <2>1. \/ Ciclo!Pasar(x.id, "new", "ready") \/ Ciclo!Pasar(x.id, "suspended_ready", "ready")
    BY <1>3, <1>4 DEF Ciclo!Pasar, Estados
  <2>2. Cardinality(Ciclo!EnMemoria) < GRADO_MULTIPROGRAMACION
    BY <1>1, HayLugarParaAdmitir DEF Ciclo!EnMemoria, Estados
  <2>3. Ciclo!Cardinality(Ciclo!EnMemoria) = Cardinality(Ciclo!EnMemoria)
    BY DEF Ciclo!Cardinality, Cardinality
  <2> QED
    BY <2>1, <2>2, <2>3 DEF Ciclo!Admitir
<1> QED
  BY <1>3, <1>5

\* ready_a_executing takes a process to a CPU that nobody is using.
LEMMA PasoEjecutar ==
  ASSUME TypeOK, Cuentas, Ubicados, TypeOK', Ubicados', Despachar, cola_ready # <<>>
  PROVE  \E p \in Procesos : Ciclo!Ejecutar(p)
<1>1. /\ Head(cola_ready) \in Lugares["ready"]
      /\ Muda("ready", Head(cola_ready), "dispatch", Head(cola_ready))
      /\ cp = "despachar" /\ UNCHANGED <<sc, consola, esta_suspendido>>
  BY TrasladosCpu DEF Despachar, sockets, suspension
<1>2. PICK x : x = Head(cola_ready)
  OBVIOUS
<1>3. /\ x.id \in Procesos /\ Estados[x.id] = EstadoEn("ready", x)
      /\ Estados' = [Estados EXCEPT ![x.id] = EstadoEn("dispatch", x)']
  BY <1>1, <1>2, Sitios, UnoSeMuda
<1>4. EstadoEn("ready", x) = "ready" /\ EstadoEn("dispatch", x)' = "exec"
  BY DEF EstadoEn
<1>5. ASSUME NEW q \in Procesos PROVE Estado(q) # "exec"
  <2>1. syscalls = <<>> /\ cpu = NULO /\ dispatch = <<>> /\ sc.en = "esperar"
    BY <1>1, UnaSyscall
  <2>2. /\ Lugares["syscalls"] = {} /\ Lugares["cpu"] = {} /\ Lugares["dispatch"] = {}
        /\ Lugares["sc"] = {}
    BY <2>1, Vacio DEF Lugares, ScDuenio
  <2>3. CASE EnAlgunLugar(q)
    <3>1. PICK l \in Nombres : \E y \in Lugares[l] : y.id = q
      BY <2>3, Nombrados DEF EnAlgunLugar
    <3>2. PICK y \in Lugares[l] : y.id = q
      BY <3>1
    <3>3. Estado(q) = EstadoEn(l, y) /\ l \notin {"syscalls", "cpu", "dispatch", "sc"}
      BY <2>2, <3>2, LosEstados DEF EstadoPorLugar
    <3> QED
      BY <3>3 DEF EstadoEn
  <2>4. CASE ~EnAlgunLugar(q)
    <3>1. \/ consola[q] = "sin_conectar" \/ consola[q] = "finalizada" \/ Extraviado(q)
      BY <2>4 DEF Extraviado, TypeOK, KernelTypeOK, TipoSockets
    <3>2. Estado(q) \in {"ausente", "exit", "blocked"}
      BY <3>1, LosEstados DEF EstadoPorLugar
    <3> QED
      BY <3>2
  <2> QED
    BY <2>3, <2>4
<1>6. Ciclo!Ejecutar(x.id)
  BY <1>3, <1>4, <1>5 DEF Ciclo!Ejecutar, Ciclo!Pasar, Estados
<1> QED
  BY <1>3, <1>6

\* A process is blocked, wherever the race leaves its PCB.
LEMMA PasoBloquear ==
  ASSUME TypeOK, Cuentas, Ubicados, Suspensores, TypeOK', Ubicados', UNCHANGED cpu,
         EnlazarBloqueado
  PROVE  \E p \in Procesos : Ciclo!Bloquear(p)
<1>1. /\ sc.en = "enlazar" /\ sc'.en \notin ScDuenio
      /\ UNCHANGED <<consola, esta_suspendido>>
  BY DEF EnlazarBloqueado, sockets, suspension, ScDuenio, TypeOK, KernelTypeOK, TipoSc
<1>2. PICK x : x = sc.pcb
  OBVIOUS
<1>3. x \in Lugares["sc"] /\ x.id \in Procesos /\ x \in PCB
  BY <1>1, <1>2, EnManos, LugaresTipo, Sitios DEF ScDuenio, PCB
<1>4. Bloqueo(x) \notin esta_suspendido
  BY <1>1, <1>2 DEF Suspensores, SinSuspensorAun, SuspensorAlDia, EstaSuspendidoAlDia
<1>5. EstadoEn("sc", x) = "exec" /\ EstadoEn("blocked", x)' = "blocked"
  BY <1>1, <1>4 DEF EstadoEn, EnEjecucion, Bloqueo
<1>6. Lugares["sc"] = {x}
  BY <1>1, <1>2 DEF Lugares, ScDuenio
<1>7. CASE cola_blocked' = Append(cola_blocked, sc.pcb)
  <2>1. Muda("sc", x, "blocked", x)
    BY <1>2, <1>7, Traslados
  <2>2. /\ Estados[x.id] = EstadoEn("sc", x)
        /\ Estados' = [Estados EXCEPT ![x.id] = EstadoEn("blocked", x)']
    BY <1>1, <1>3, <1>6, <2>1, Sitios, UnoSeMuda
  <2>3. Ciclo!Bloquear(x.id)
    BY <1>5, <2>2 DEF Ciclo!Bloquear, Ciclo!Pasar, Estados
  <2> QED
    BY <1>3, <2>3
<1>8. CASE cola_blocked' = cola_blocked
  <2>1. Sale("sc", x)
    BY <1>2, <1>8, Traslados
  <2>2. Estado(x.id) = "exec"
    BY <1>3, <1>5, LosEstados, Sitios DEF EstadoPorLugar
  <2>3. ASSUME NEW p \in Procesos, p = x.id PROVE Estado(p)' = "blocked"
    <3>1. \A l \in Nombres : \A u \in Lugares[l] : u.id = x.id => l = "sc" /\ u = x
      BY <1>3, Nombrados, Sitios DEF Ubicados, EnUnSoloLugar
    <3>2. \A l \in Nombres : \A u \in Lugares'[l] : u.id # p
      BY <2>1, <2>3, <3>1 DEF Sale, Solo
    <3>3. consola'[p] = "esperando"
      BY <1>1, <1>3, <2>3, Nombrados, Sitios DEF Ubicados, ALoSumoUnExtraviado, EnAlgunLugar
    <3>4. Extraviado(p)'
      BY <3>2, <3>3, Nombrados DEF Extraviado, EnAlgunLugar
    <3> QED
      BY <3>4, LosEstadosPrima DEF EstadoPorLugar
  <2>4. ASSUME NEW q \in Procesos, q # x.id PROVE Estado(q)' = Estado(q)
    <3>1. \A l \in Nombres : \A u : u.id = q => (u \in Lugares'[l] <=> u \in Lugares[l])
      BY <2>1, <2>4 DEF Sale, Solo
    <3> QED
      BY <1>1, <1>6, <2>4, <3>1, Ajeno
  <2>5. Estados[x.id] = "exec" /\ Estados' = [Estados EXCEPT ![x.id] = "blocked"]
    BY <1>3, <2>2, <2>3, <2>4 DEF Estados
  <2>6. Ciclo!Bloquear(x.id)
    BY <2>5 DEF Ciclo!Bloquear, Ciclo!Pasar, Estados
  <2> QED
    BY <1>3, <2>6
<1> QED
  BY <1>7, <1>8 DEF EnlazarBloqueado

\* executing_a_exit begins: the process has left the CPU for good.
LEMMA PasoTerminar ==
  ASSUME TypeOK, Cuentas, Ubicados, TypeOK', Ubicados', UNCHANGED cpu, LiberarGrado
  PROVE  \E p \in Procesos : Ciclo!Terminar(p)
<1>1. /\ sc.en = "liberar_grado" /\ sc'.en = "finalizar" /\ sc'.pcb = sc.pcb
      /\ UNCHANGED <<consola, esta_suspendido>>
  BY DEF LiberarGrado, sockets, suspension, TypeOK, KernelTypeOK, TipoSc
<1>2. PICK x : x = sc.pcb
  OBVIOUS
<1>3. x \in Lugares["sc"] /\ x.id \in Procesos
  BY <1>1, <1>2, EnManos, LugaresTipo, Sitios DEF ScDuenio, PCB
<1>4. Quieto
  BY Quietos
<1>5. Lugares["sc"] = {x}
  BY <1>1, <1>2 DEF Lugares, ScDuenio
<1>6. EstadoEn("sc", x) = "exec" /\ EstadoEn("sc", x)' = "exit"
  BY <1>1 DEF EstadoEn, EnEjecucion
<1>7. Estado(x.id) = "exec"
  BY <1>3, <1>6, LosEstados, Sitios DEF EstadoPorLugar
<1>8. ASSUME NEW p \in Procesos, p = x.id PROVE Estado(p)' = "exit"
  <2>1. x \in Lugares'["sc"]
    BY <1>3, <1>4, Sitios DEF Quieto
  <2> QED
    BY <1>6, <1>8, <2>1, LosEstadosPrima, Sitios DEF EstadoPorLugar
<1>9. ASSUME NEW q \in Procesos, q # x.id PROVE Estado(q)' = Estado(q)
  BY <1>1, <1>4, <1>5, <1>9, Ajeno DEF Quieto
<1>10. Estados[x.id] = "exec" /\ Estados' = [Estados EXCEPT ![x.id] = "exit"]
  BY <1>3, <1>7, <1>8, <1>9 DEF Estados
<1>11. Ciclo!Terminar(x.id)
  BY <1>10 DEF Ciclo!Terminar, Ciclo!Pasar, Estados
<1> QED
  BY <1>3, <1>11

\* ... and ends: for the process it changes nothing.
LEMMA PasoResponder ==
  ASSUME TypeOK, Cuentas, Ubicados, TypeOK', Ubicados', UNCHANGED cpu, ResponderConsola
  PROVE  Estados' = Estados
<1>1. /\ sc.en = "responder" /\ esta_suspendido' = esta_suspendido
      /\ consola' = [consola EXCEPT ![sc.pcb.id] = "finalizada"]
  BY DEF ResponderConsola, suspension
<1>2. PICK x : x = sc.pcb
  OBVIOUS
<1>3. x \in Lugares["sc"] /\ x.id \in Procesos
  BY <1>1, <1>2, EnManos, LugaresTipo, Sitios DEF ScDuenio, PCB
<1>4. Sale("sc", x)
  BY <1>2, Traslados
<1>5. Lugares["sc"] = {x}
  BY <1>1, <1>2 DEF Lugares, ScDuenio
<1>6. Estado(x.id) = "exit"
  <2>1. EstadoEn("sc", x) = "exit"
    BY <1>1 DEF EstadoEn, EnEjecucion
  <2> QED
    BY <1>3, <2>1, LosEstados, Sitios DEF EstadoPorLugar
<1>7. ASSUME NEW p \in Procesos, p = x.id PROVE Estado(p)' = "exit"
  <2>1. consola'[p] = "finalizada"
    BY <1>1, <1>2, <1>7 DEF TypeOK, KernelTypeOK, TipoSockets
  <2> QED
    BY <2>1, LosEstadosPrima DEF EstadoPorLugar
<1>8. ASSUME NEW q \in Procesos, q # x.id PROVE Estado(q)' = Estado(q)
  <2>1. \A l \in Nombres : \A u : u.id = q => (u \in Lugares'[l] <=> u \in Lugares[l])
    BY <1>4, <1>8 DEF Sale, Solo
  <2>2. consola'[q] = consola[q]
    BY <1>1, <1>2, <1>8 DEF TypeOK, KernelTypeOK, TipoSockets
  <2> QED
    BY <1>1, <1>5, <1>8, <2>1, <2>2, Ajeno
<1> QED
  BY <1>6, <1>7, <1>8 DEF Estados

\* hilo_io takes a process back: to suspended-ready if it has been suspended.
LEMMA PasoDesbloquear ==
  ASSUME TypeOK, Cuentas, Ubicados, Suspensores, TypeOK', Ubicados', UNCHANGED cpu,
         PasarASuspendedReady \/ PasarAReady
  PROVE  \E p \in Procesos : Ciclo!Desbloquear(p)
<1>1. io.pcb \in Lugares["io"] /\ UNCHANGED <<sc, consola, esta_suspendido>>
  BY Traslados DEF PasarASuspendedReady, PasarAReady, sockets, suspension
<1>2. PICK x : x = io.pcb
  OBVIOUS
<1>3. CASE PasarASuspendedReady
  <2>1. Muda("io", x, "suspended_ready", x)
    BY <1>2, <1>3, Traslados
  <2>2. /\ x.id \in Procesos /\ Estados[x.id] = EstadoEn("io", x)
        /\ Estados' = [Estados EXCEPT ![x.id] = EstadoEn("suspended_ready", x)']
    BY <1>1, <1>2, <2>1, Sitios, UnoSeMuda
  <2>3. Bloqueo(x) \in esta_suspendido
    BY <1>2, <1>3 DEF PasarASuspendedReady, Suspensores, SuspensorAlDia, EstaSuspendidoAlDia
  <2>4. /\ EstadoEn("io", x) = "suspended_blocked"
        /\ EstadoEn("suspended_ready", x)' = "suspended_ready"
    BY <2>3 DEF EstadoEn
  <2>5. Ciclo!Desbloquear(x.id)
    BY <2>2, <2>4 DEF Ciclo!Desbloquear, Ciclo!Pasar, Estados
  <2> QED
    BY <2>2, <2>5
<1>4. CASE PasarAReady
  <2>1. Muda("io", x, "ready", x)
    BY <1>2, <1>4, Traslados
  <2>2. /\ x.id \in Procesos /\ Estados[x.id] = EstadoEn("io", x)
        /\ Estados' = [Estados EXCEPT ![x.id] = EstadoEn("ready", x)']
    BY <1>1, <1>2, <2>1, Sitios, UnoSeMuda
  <2>3. Bloqueo(x) \notin esta_suspendido
    BY <1>2, <1>4 DEF PasarAReady, Suspensores, SuspensorAlDia, EstaSuspendidoAlDia
  <2>4. EstadoEn("io", x) = "blocked" /\ EstadoEn("ready", x)' = "ready"
    BY <2>3 DEF EstadoEn
  <2>5. Ciclo!Desbloquear(x.id)
    BY <2>2, <2>4 DEF Ciclo!Desbloquear, Ciclo!Pasar, Estados
  <2> QED
    BY <2>2, <2>5
<1> QED
  BY <1>3, <1>4

\* A suspensor that gets that far suspends a process that is still blocked, unless
\* the race has lost its PCB, and then it suspends nobody.
LEMMA PasoSuspender ==
  ASSUME TypeOK, Cuentas, Ubicados, Suspensores, TypeOK', Ubicados', UNCHANGED cpu,
         NEW b \in Bloqueos, PedirSuspension(b)
  PROVE  Estados' = Estados \/ \E p \in Procesos : Ciclo!Suspender(p)
<1> USE Sitios, Nombrados
<1>1. /\ susp[b] = "con_suspendiendo" /\ b \notin cancelado
      /\ esta_suspendido' = esta_suspendido \cup {b} /\ UNCHANGED <<sc, consola>>
  BY DEF PedirSuspension
<1>2. Vivo(b) /\ b \notin esta_suspendido
  BY <1>1 DEF Vivo, Suspensores, SuspensorAlDia, EstaSuspendidoAlDia
<1>3. \A l \in Nombres : \A x \in Lugares[l] :
        x.id = b[1] => l \in {"blocked", "io"} /\ x.pc = b[2]
  BY <1>2 DEF Suspensores, SuspensorAlDia
<1>4. Quieto
  BY Quietos DEF Suspensor
<1>5. b[1] \in Procesos /\ b = <<b[1], b[2]>>
  BY DEF Bloqueos
<1>6. ASSUME NEW q \in Procesos, q # b[1] PROVE Estado(q)' = Estado(q)
  <2>1. \A c : c[1] = q => (c \in esta_suspendido' <=> c \in esta_suspendido)
    BY <1>1, <1>6
  <2> QED
    BY <1>1, <1>4, <2>1, Ajeno DEF Quieto
<1>7. PICK p \in Procesos : p = b[1]
  BY <1>5
<1>8. CASE EnAlgunLugar(p)
  <2>1. PICK l \in Nombres : \E x \in Lugares[l] : x.id = p
    BY <1>8 DEF EnAlgunLugar
  <2>2. PICK x \in Lugares[l] : x.id = p
    BY <2>1
  <2>3. l \in {"blocked", "io"} /\ Bloqueo(x) = b
    BY <1>3, <1>5, <1>7, <2>2 DEF Bloqueo
  <2>4. x \in Lugares'[l]
    BY <1>4, <2>2 DEF Quieto
  <2>5. Estado(p) = EstadoEn(l, x) /\ Estado(p)' = EstadoEn(l, x)'
    BY <2>2, <2>4, LosEstados, LosEstadosPrima DEF EstadoPorLugar
  <2>6. EstadoEn(l, x) = "blocked"
    BY <1>2, <2>3 DEF EstadoEn
  <2>7. EstadoEn(l, x)' = "suspended_blocked"
    BY <1>1, <2>3 DEF EstadoEn, Bloqueo
  <2>8. Estados[p] = "blocked" /\ Estados' = [Estados EXCEPT ![p] = "suspended_blocked"]
    BY <1>6, <1>7, <2>5, <2>6, <2>7 DEF Estados
  <2>9. Ciclo!Suspender(p)
    BY <2>8 DEF Ciclo!Suspender, Ciclo!Pasar, Estados
  <2> QED
    BY <2>9
<1>9. CASE ~EnAlgunLugar(p)
  <2>1. consola[p] = "esperando"
    BY <1>2, <1>7 DEF Suspensores, SuspensorAlDia
  <2>2. Extraviado(p) /\ Extraviado(p)'
    BY <1>1, <1>4, <1>9, <2>1 DEF Extraviado, EnAlgunLugar, Quieto
  <2>3. Estado(p)' = Estado(p)
    BY <2>2, LosEstados, LosEstadosPrima DEF EstadoPorLugar
  <2> QED
    BY <1>6, <1>7, <2>3 DEF Estados
<1> QED
  BY <1>8, <1>9

\* The steps that change the state of nobody.
LEMMA PasoSinMudanza ==
  ASSUME TypeOK, Cuentas, Ubicados, TypeOK', Ubicados', ~caido,
         \/ /\ UNCHANGED cpu
            /\ \/ AvisarNew \/ EsperarProceso \/ TomarGrado \/ PedirTablas \/ AvisarReady
               \/ BuscarUltimo \/ CrearSuspensor \/ AvisarIO \/ PedirFin \/ RecibirFin
               \/ TerminarIO \/ LiberarGradoSuspendido \/ AvisarSuspendedReady
               \/ AvisarReadyIO \/ SoltarSuspendiendo \/ AtenderPedido
               \/ (SacarDeNew /\ cola_new = <<>>)
               \/ (SacarDeSuspendedReady /\ cola_suspended_ready = <<>>)
               \/ (TomarBloqueado /\ caido')
               \/ \E b \in Bloqueos : \/ Despertar(b) \/ Cancelar(b) \/ TomarSuspendiendo(b)
                                      \/ RecibirSuspension(b)
         \/ EsperarReady \/ EsperarFin \/ AvisarFin \/ CpuAcceder
         \/ (Despachar /\ cola_ready = <<>>)
  PROVE  Estados' = Estados
<1>1. CASE /\ UNCHANGED cpu
           /\ \/ AvisarNew \/ EsperarProceso \/ TomarGrado \/ PedirTablas
              \/ AvisarReady \/ TerminarIO \/ LiberarGradoSuspendido
              \/ AvisarSuspendedReady \/ AvisarReadyIO \/ SoltarSuspendiendo
              \/ AtenderPedido
  <2>1. Quieto
    BY <1>1, Quietos
  <2>2. UNCHANGED <<sc, consola, esta_suspendido>>
    BY <1>1 DEF AvisarNew, EsperarProceso, TomarGrado, PedirTablas, AvisarReady, TerminarIO,
       LiberarGradoSuspendido, AvisarSuspendedReady, AvisarReadyIO, SoltarSuspendiendo,
       AtenderPedido, sockets, suspension
  <2> QED
    BY <2>1, <2>2, NadieSeMuda
<1>2. CASE /\ UNCHANGED cpu
           /\ \/ (SacarDeNew /\ cola_new = <<>>)
              \/ (SacarDeSuspendedReady /\ cola_suspended_ready = <<>>)
              \/ (TomarBloqueado /\ caido')
  <2>1. Quieto
    BY <1>2, Quietos
  <2>2. UNCHANGED <<sc, consola, esta_suspendido>>
    BY <1>2 DEF SacarDeNew, SacarDeSuspendedReady, TomarBloqueado, sockets, suspension
  <2> QED
    BY <2>1, <2>2, NadieSeMuda
<1>3. CASE EsperarReady \/ EsperarFin \/ CpuAcceder \/ (Despachar /\ cola_ready = <<>>)
  <2>1. Quieto
    BY <1>3, Quietos
  <2>2. UNCHANGED <<sc, consola, esta_suspendido>>
    BY <1>3 DEF EsperarReady, EsperarFin, CpuAcceder, Despachar, sockets, suspension
  <2> QED
    BY <2>1, <2>2, NadieSeMuda
<1>4. CASE UNCHANGED cpu /\ (BuscarUltimo \/ PedirFin \/ RecibirFin)
  <2>1. Quieto
    BY <1>4, Quietos
  <2>2. UNCHANGED <<consola, esta_suspendido>>
    BY <1>4 DEF BuscarUltimo, PedirFin, RecibirFin, sockets, suspension
  <2>3. sc'.en \in EnEjecucion <=> sc.en \in EnEjecucion
    BY <1>4 DEF BuscarUltimo, PedirFin, RecibirFin, EnEjecucion, TypeOK, KernelTypeOK, TipoSc
  <2> QED
    BY <2>1, <2>2, <2>3, NadieSeMuda
<1>5. CASE (UNCHANGED cpu /\ (CrearSuspensor \/ AvisarIO)) \/ AvisarFin
  <2>1. Quieto
    BY <1>5, Quietos
  <2>2. UNCHANGED <<consola, esta_suspendido>>
    BY <1>5 DEF CrearSuspensor, AvisarIO, AvisarFin, sockets, suspension
  <2>3. Lugares["sc"] = {}
    BY <1>5 DEF CrearSuspensor, AvisarIO, AvisarFin, Lugares, ScDuenio
  <2> QED
    BY <2>1, <2>2, <2>3, NadieSeMuda
<1>6. ASSUME NEW b \in Bloqueos, UNCHANGED cpu,
             Despertar(b) \/ Cancelar(b) \/ TomarSuspendiendo(b) \/ RecibirSuspension(b)
      PROVE  Estados' = Estados
  <2>1. Quieto
    BY <1>6, Quietos DEF Suspensor
  <2>2. UNCHANGED <<sc, consola, esta_suspendido>>
    BY <1>6 DEF Despertar, Cancelar, TomarSuspendiendo, RecibirSuspension, sockets
  <2> QED
    BY <2>1, <2>2, NadieSeMuda
<1>7. CASE /\ UNCHANGED cpu
           /\ \E b \in Bloqueos : \/ Despertar(b) \/ Cancelar(b) \/ TomarSuspendiendo(b)
                                  \/ RecibirSuspension(b)
  <2>1. PICK b \in Bloqueos : \/ Despertar(b) \/ Cancelar(b) \/ TomarSuspendiendo(b)
                              \/ RecibirSuspension(b)
    BY <1>7
  <2> QED
    BY <1>6, <1>7, <2>1
<1> QED
  BY <1>1, <1>2, <1>3, <1>4, <1>5, <1>7

\* ... and those that move a PCB within one state.
LEMMA PasoPorDentro ==
  ASSUME TypeOK, Cuentas, Ubicados, Suspensores, TypeOK', Ubicados', ~caido,
         \/ /\ UNCHANGED cpu
            /\ \/ (SacarDeNew /\ cola_new # <<>>)
               \/ (SacarDeSuspendedReady /\ cola_suspended_ready # <<>>)
               \/ RecibirTablas \/ RecibirSyscall
               \/ (TomarBloqueado /\ ~caido')
         \/ CpuRecibir \/ CpuIO \/ CpuExit
  PROVE  Estados' = Estados
<1> USE Sitios
<1>m. ASSUME NEW a \in Nombres, NEW b \in Nombres, NEW x \in Lugares[a], NEW y, y.id = x.id,
             Muda(a, x, b, y), UNCHANGED <<consola, esta_suspendido>>,
             sc' = sc \/ Lugares["sc"] = {}, EstadoEn(b, y)' = EstadoEn(a, x)
      PROVE  Estados' = Estados
  <2>1. /\ x.id \in Procesos /\ Estados[x.id] = EstadoEn(a, x)
        /\ Estados' = [Estados EXCEPT ![x.id] = EstadoEn(b, y)']
    BY <1>m, UnoSeMuda
  <2> QED
    BY <1>m, <2>1 DEF Estados
<1>1. CASE UNCHANGED cpu /\ SacarDeNew /\ cola_new # <<>>
  <2>1. PICK x : x = Head(cola_new)
    OBVIOUS
  <2>2. x \in Lugares["new"] /\ Muda("new", x, "lp", x)
    BY <1>1, <2>1, Traslados
  <2>3. UNCHANGED <<sc, consola, esta_suspendido>>
    BY <1>1 DEF SacarDeNew, sockets, suspension
  <2>4. x.pc = 0
    BY <2>2 DEF Suspensores, Edades, Lugares
  <2>5. EstadoEn("lp", x)' = EstadoEn("new", x)
    BY <2>4 DEF EstadoEn
  <2> QED
    BY <1>m, <2>2, <2>3, <2>5
<1>2. CASE UNCHANGED cpu /\ SacarDeSuspendedReady /\ cola_suspended_ready # <<>>
  <2>1. PICK x : x = Head(cola_suspended_ready)
    OBVIOUS
  <2>2. x \in Lugares["suspended_ready"] /\ Muda("suspended_ready", x, "lp", x)
    BY <1>2, <2>1, Traslados
  <2>3. UNCHANGED <<sc, consola, esta_suspendido>>
    BY <1>2 DEF SacarDeSuspendedReady, sockets, suspension
  <2>4. x.pc # 0
    BY <2>2 DEF Suspensores, Edades, Lugares
  <2>5. EstadoEn("lp", x)' = EstadoEn("suspended_ready", x)
    BY <2>4 DEF EstadoEn
  <2> QED
    BY <1>m, <2>2, <2>3, <2>5
<1>3. CASE UNCHANGED cpu /\ RecibirTablas
  <2>1. PICK x : x = lp.pcb
    OBVIOUS
  <2>2. PICK y : y = lp'.pcb
    OBVIOUS
  <2>3. x \in Lugares["lp"] /\ y.id = x.id /\ y.pc = x.pc /\ Muda("lp", x, "lp", y)
    BY <1>3, <2>1, <2>2, Traslados
  <2>4. UNCHANGED <<sc, consola, esta_suspendido>>
    BY <1>3 DEF RecibirTablas, suspension
  <2>5. EstadoEn("lp", y)' = EstadoEn("lp", x)
    BY <2>3 DEF EstadoEn
  <2> QED
    BY <1>m, <2>3, <2>4, <2>5
<1>4. CASE UNCHANGED cpu /\ RecibirSyscall
  <2>1. PICK x : x = Head(syscalls).pcb
    OBVIOUS
  <2>2. x \in Lugares["syscalls"] /\ Muda("syscalls", x, "sc", x)
    BY <1>4, <2>1, Traslados
  <2>3. UNCHANGED <<consola, esta_suspendido>> /\ Lugares["sc"] = {}
    BY <1>4 DEF RecibirSyscall, sockets, suspension, Lugares, ScDuenio
  <2>4. sc'.en \in EnEjecucion
    <3>1. DOMAIN syscalls = {1} /\ syscalls[1] = Head(syscalls) /\ Head(syscalls) \in Syscalls
      BY <1>4, UnaSyscall DEF RecibirSyscall
    <3>2. Head(syscalls).instruccion \in {"IO", "EXIT"}
      BY <3>1 DEF Ubicados, SinDesalojo, Syscalls
    <3> QED
      BY <1>4, <3>2 DEF RecibirSyscall, En, EnEjecucion
  <2>5. EstadoEn("sc", x)' = EstadoEn("syscalls", x)
    BY <2>4 DEF EstadoEn, EnEjecucion
  <2> QED
    BY <1>m, <2>2, <2>3, <2>5
<1>5. CASE UNCHANGED cpu /\ TomarBloqueado /\ ~caido'
  <2>1. PICK x : x = Head(cola_blocked)
    OBVIOUS
  <2>2. x \in Lugares["blocked"] /\ Muda("blocked", x, "io", x)
    BY <1>5, <2>1, Traslados DEF TomarBloqueado
  <2>3. UNCHANGED <<sc, consola, esta_suspendido>>
    BY <1>5 DEF TomarBloqueado, sockets, suspension
  <2>4. EstadoEn("io", x)' = EstadoEn("blocked", x)
    BY <2>3 DEF EstadoEn, Bloqueo
  <2> QED
    BY <1>m, <2>2, <2>3, <2>4
<1>6. CASE CpuRecibir
  <2>1. PICK x : x = Head(dispatch)
    OBVIOUS
  <2>2. x \in Lugares["dispatch"] /\ Muda("dispatch", x, "cpu", x)
    BY <1>6, <2>1, TrasladosCpu
  <2>3. UNCHANGED <<sc, consola, esta_suspendido>>
    BY <1>6 DEF CpuRecibir, sockets, suspension
  <2>4. EstadoEn("cpu", x)' = EstadoEn("dispatch", x)
    BY DEF EstadoEn
  <2> QED
    BY <1>m, <2>2, <2>3, <2>4
<1>7. CASE CpuIO \/ CpuExit
  <2>1. PICK x : x = cpu
    OBVIOUS
  <2>2. PICK y : y = IF CpuIO THEN [cpu EXCEPT !.pc = @ + 1] ELSE cpu
    OBVIOUS
  <2>3. x \in Lugares["cpu"] /\ y.id = x.id /\ Muda("cpu", x, "syscalls", y)
    BY <1>7, <2>1, <2>2, TrasladosCpu
  <2>4. UNCHANGED <<sc, consola, esta_suspendido>>
    BY <1>7 DEF CpuIO, CpuExit, sockets, suspension
  <2>5. EstadoEn("syscalls", y)' = EstadoEn("cpu", x)
    BY DEF EstadoEn
  <2> QED
    BY <1>m, <2>3, <2>4, <2>5
<1> QED
  BY <1>1, <1>2, <1>3, <1>4, <1>5, <1>6, <1>7

\* Every step of the kernel is a step of the life cycle, or none.
LEMMA PasoDeCiclo ==
  ASSUME TypeOK, Inductiva, TypeOK', Inductiva', Next
  PROVE  Ciclo!Next \/ Estados' = Estados
<1>i. Cuentas /\ Ubicados /\ Suspensores /\ Ubicados' /\ ~caido
  BY DEF Inductiva, Next
<1>1. CASE UNCHANGED cpu /\ HiloRecibirProcesos
  BY <1>i, <1>1, PasoSinMudanza, PasoLlegar DEF HiloRecibirProcesos, Ciclo!Next
<1>2. CASE UNCHANGED cpu /\ HiloPasarAReady
  BY <1>i, <1>2, PasoSinMudanza, PasoPorDentro, PasoAdmitir DEF HiloPasarAReady, Ciclo!Next
<1>3. CASE UNCHANGED cpu /\ HiloSyscall
  BY <1>i, <1>3, PasoSinMudanza, PasoPorDentro, PasoBloquear, PasoTerminar, PasoResponder
     DEF HiloSyscall, Ciclo!Next
<1>4. CASE UNCHANGED cpu /\ HiloIO
  BY <1>i, <1>4, PasoSinMudanza, PasoPorDentro, PasoDesbloquear DEF HiloIO, Ciclo!Next
<1>5. CASE UNCHANGED cpu /\ \E b \in Bloqueos : Suspensor(b)
  BY <1>i, <1>5, PasoSinMudanza, PasoSuspender DEF Suspensor, Ciclo!Next
<1>6. CASE \/ UNCHANGED cpu /\ AtenderPedido
           \/ EsperarReady \/ EsperarFin \/ AvisarFin \/ CpuAcceder
  BY <1>i, <1>6, PasoSinMudanza
<1>7. CASE Despachar
  BY <1>i, <1>7, PasoSinMudanza, PasoEjecutar DEF Ciclo!Next
<1>8. CASE CpuRecibir \/ CpuIO \/ CpuExit
  BY <1>i, <1>8, PasoPorDentro
<1> QED
  BY <1>1, <1>2, <1>3, <1>4, <1>5, <1>6, <1>7, <1>8
     DEF Next, DelKernel, HiloReadyAExecuting, HiloCpu

\* The kernel, with its semaphores, sockets and suspensors, implements the
\* seven-state life cycle: what CicloDeVida allows of the admissions, of the CPU and
\* of a suspension is all that its threads ever do.
THEOREM ElKernelImplementaElCiclo == Spec => ImplementaCicloDeVida
<1>1. Init => Ciclo!Init
  <2> SUFFICES ASSUME Init PROVE Ciclo!Init
    OBVIOUS
  <2>1. ASSUME NEW p \in Procesos PROVE Estado(p) = "ausente"
    <3>1. consola[p] = "sin_conectar"
      BY DEF Init, KernelInit
    <3> QED
      BY <3>1, InitTypeOK, InitUbicados, LosEstados DEF EstadoPorLugar
  <2> QED
    BY <2>1 DEF Ciclo!Init
<1>2. TypeOK /\ Inductiva /\ TypeOK' /\ Inductiva' /\ [Next]_vars
        => [Ciclo!Next]_([p \in Procesos |-> Estado(p)])
  <2> SUFFICES ASSUME TypeOK, Inductiva, TypeOK', Inductiva', [Next]_vars
               PROVE  Ciclo!Next \/ Estados' = Estados
    BY DEF Estados
  <2>1. CASE Next
    BY <2>1, PasoDeCiclo
  <2>2. CASE UNCHANGED vars
    <3>1. Quieto
      BY <2>2, Quietos
    <3>2. UNCHANGED <<sc, consola, esta_suspendido>>
      BY <2>2 DEF vars, kernel_vars, sockets, suspension
    <3> QED
      BY <3>1, <3>2, NadieSeMuda DEF Inductiva
  <2> QED
    BY <2>1, <2>2
<1> QED
  BY <1>1, <1>2, TiposCorrectos, SiempreInductiva, PTL DEF Spec, ImplementaCicloDeVida, Ciclo!Spec
=============================================================================
