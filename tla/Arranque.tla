------------------------------ MODULE Arranque ------------------------------
(***************************************************************************)
(* The start of the four programs, in any order: who listens, who          *)
(* connects, and the handshakes until each of them starts its threads.     *)
(*                                                                         *)
(* connect succeeds as soon as the other side listens; the connection, and *)
(* the number sent over it, then wait for accept.  The kernel tries again  *)
(* until it connects.  The CPU and the consoles do not, and do not look at *)
(* what connect returns: their next send kills them.                       *)
(***************************************************************************)
EXTENDS Naturals, Sequences

CONSTANT Consolas

VARIABLES
  memoria, cpu, kernel,     \* where the main function of each program is
  consola,
  escuchando,               \* the ports somebody listens on
  pendientes,               \* connections not yet accepted, by port, and what was sent
  respuestas                \* the answers to each client, not yet received

vars == <<memoria, cpu, kernel, consola, escuchando, pendientes, respuestas>>

Programas == {"memoria", "cpu", "kernel"}
Puertos == {"memoria", "dispatch", "interrupt", "consolas"}
Clientes == {"cpu", "kernel"}

CREAR_PROCESO == 1

Mensaje(quien, dice) == [quien |-> quien, dice |-> dice]
Mensajes == [quien: Clientes \cup Consolas, dice: {555, 222, 333, 111, CREAR_PROCESO}]

Init ==
  /\ memoria = "apagada" /\ cpu = "apagada" /\ kernel = "apagada"
  /\ consola = [c \in Consolas |-> "apagada"]
  /\ escuchando = {}
  /\ pendientes = [p \in Puertos |-> <<>>]
  /\ respuestas = [c \in Clientes |-> <<>>]

-----------------------------------------------------------------------------
\* Sockets

Escuchar(puerto) == escuchando' = escuchando \cup {puerto}

\* connect, and the send of what the client says first.
Conectar(cliente, puerto, dice) ==
  /\ puerto \in escuchando
  /\ pendientes' = [pendientes EXCEPT ![puerto] = Append(@, Mensaje(cliente, dice))]

\* accept, recv, and the 1 or 0 that is answered.
Aceptar(puerto, esperado) ==
  /\ pendientes[puerto] # <<>>
  /\ pendientes' = [pendientes EXCEPT ![puerto] = Tail(@)]
  /\ respuestas' = [respuestas EXCEPT ![Head(pendientes[puerto]).quien] =
                      Append(@, IF Head(pendientes[puerto]).dice = esperado THEN 1 ELSE 0)]

Saluda(puerto, esperado) == Head(pendientes[puerto]).dice = esperado

\* main goes on, or returns and closes what it listens on.
Sigue(bien, puertos) ==
  escuchando' = IF bien THEN escuchando ELSE escuchando \ puertos

\* recv of an answer.  A server that has ended gives no byte, and respuesta, which
\* is not a 1 then, is not written.
Responde(cliente, servidor) == respuestas[cliente] # <<>> \/ servidor = "terminado"
Acepta(cliente) == respuestas[cliente] # <<>> /\ Head(respuestas[cliente]) = 1

\* Mutant: the answer is left in the socket.
Recibir_sin_quitar(cliente) == UNCHANGED respuestas

Recibir(cliente) ==
  respuestas' = [respuestas EXCEPT ![cliente] = IF @ = <<>> THEN @ ELSE Tail(@)]

-----------------------------------------------------------------------------
\* memoria/main_memoria.c, main

MemoriaArranca ==
  /\ memoria = "apagada"
  /\ Escuchar("memoria")
  /\ memoria' = "aceptar_kernel"
  /\ UNCHANGED <<cpu, kernel, consola, pendientes, respuestas>>

\* The first connection has to be the kernel's.
MemoriaAceptaKernel ==
  /\ memoria = "aceptar_kernel"
  /\ Aceptar("memoria", 555)
  /\ memoria' = IF Saluda("memoria", 555) THEN "aceptar_cpu" ELSE "terminado"
  /\ Sigue(Saluda("memoria", 555), {"memoria"})
  /\ UNCHANGED <<cpu, kernel, consola>>

\* And the second one the CPU's; what it needs to translate addresses follows
\* the 1, and the threads start.
MemoriaAceptaCpu ==
  /\ memoria = "aceptar_cpu"
  /\ Aceptar("memoria", 222)
  /\ memoria' = IF Saluda("memoria", 222) THEN "lista" ELSE "terminado"
  /\ Sigue(Saluda("memoria", 222), {"memoria"})
  /\ UNCHANGED <<cpu, kernel, consola>>

-----------------------------------------------------------------------------
\* cpu/cpu.c, main

\* Mutant: the two servers of the CPU are set up after its connection to memory.
CpuArranca_al_reves ==
  /\ cpu = "apagada"
  /\ cpu' = "conectar_memoria"
  /\ UNCHANGED <<memoria, kernel, consola, escuchando, pendientes, respuestas>>

CpuArranca ==
  /\ cpu = "apagada"
  /\ Escuchar("dispatch")
  /\ cpu' = "aceptar_dispatch"
  /\ UNCHANGED <<memoria, kernel, consola, pendientes, respuestas>>

CpuAceptaDispatch ==
  /\ cpu = "aceptar_dispatch"
  /\ Aceptar("dispatch", 333)
  /\ cpu' = IF Saluda("dispatch", 333) THEN "escuchar_interrupt" ELSE "terminado"
  /\ Sigue(Saluda("dispatch", 333), {"dispatch", "interrupt"})
  /\ UNCHANGED <<memoria, kernel, consola>>

\* Mutant: the second server is never set up.
CpuEscuchaInterrupt_olvidado ==
  /\ cpu = "escuchar_interrupt"
  /\ cpu' = "aceptar_interrupt"
  /\ UNCHANGED <<memoria, kernel, consola, escuchando, pendientes, respuestas>>

\* Only now does the CPU listen for the kernel's second connection.
CpuEscuchaInterrupt ==
  /\ cpu = "escuchar_interrupt"
  /\ Escuchar("interrupt")
  /\ cpu' = "aceptar_interrupt"
  /\ UNCHANGED <<memoria, kernel, consola, pendientes, respuestas>>

CpuAceptaInterrupt ==
  /\ cpu = "aceptar_interrupt"
  /\ Aceptar("interrupt", 111)
  /\ cpu' = IF Saluda("interrupt", 111) THEN "conectar_memoria" ELSE "terminado"
  /\ Sigue(Saluda("interrupt", 111), {"dispatch", "interrupt"})
  /\ UNCHANGED <<memoria, kernel, consola>>

\* crear_conexion of the CPU: one attempt.
CpuConectaMemoria ==
  /\ cpu = "conectar_memoria"
  /\ \/ /\ Conectar("cpu", "memoria", 222)
        /\ cpu' = "esperar_memoria"
     \/ /\ "memoria" \notin escuchando
        /\ cpu' = "terminado"
        /\ UNCHANGED pendientes
  /\ Sigue("memoria" \in escuchando, {"dispatch", "interrupt"})
  /\ UNCHANGED <<memoria, kernel, consola, respuestas>>

CpuRecibeMemoria ==
  /\ cpu = "esperar_memoria"
  /\ Responde("cpu", memoria)
  /\ Recibir("cpu")
  /\ cpu' = IF Acepta("cpu") THEN "lista" ELSE "terminado"
  /\ Sigue(Acepta("cpu"), {"dispatch", "interrupt"})
  /\ UNCHANGED <<memoria, kernel, consola, pendientes>>

-----------------------------------------------------------------------------
\* kernel/kernel.c, main

KernelArranca ==
  /\ kernel = "apagada"
  /\ Escuchar("consolas")
  /\ kernel' = "conectar_memoria"
  /\ UNCHANGED <<memoria, cpu, consola, pendientes, respuestas>>

\* crear_conexion of the kernel: it waits a second and tries again.
KernelConecta(desde, puerto, dice, hasta) ==
  /\ kernel = desde
  /\ Conectar("kernel", puerto, dice)
  /\ kernel' = hasta
  /\ UNCHANGED <<memoria, cpu, consola, escuchando, respuestas>>

KernelRecibe(desde, servidor, hasta) ==
  /\ kernel = desde
  /\ Responde("kernel", servidor)
  /\ Recibir("kernel")
  /\ kernel' = IF Acepta("kernel") THEN hasta ELSE "terminado"
  /\ Sigue(Acepta("kernel"), {"consolas"})
  /\ UNCHANGED <<memoria, cpu, consola, pendientes>>

KernelConectaMemoria   == KernelConecta("conectar_memoria", "memoria", 555, "esperar_memoria")
KernelRecibeMemoria    == KernelRecibe("esperar_memoria", memoria, "conectar_dispatch")
KernelConectaDispatch  == KernelConecta("conectar_dispatch", "dispatch", 333, "esperar_dispatch")
KernelRecibeDispatch   == KernelRecibe("esperar_dispatch", cpu, "conectar_interrupt")
KernelConectaInterrupt == KernelConecta("conectar_interrupt", "interrupt", 111, "esperar_interrupt")
KernelRecibeInterrupt  == KernelRecibe("esperar_interrupt", cpu, "lista")

\* recibir_procesos: from here on, the console is a process of Kernel.
KernelAceptaConsola ==
  /\ kernel = "lista"
  /\ pendientes["consolas"] # <<>>
  /\ consola' = [consola EXCEPT ![Head(pendientes["consolas"]).quien] = "atendida"]
  /\ pendientes' = [pendientes EXCEPT !["consolas"] = Tail(@)]
  /\ UNCHANGED <<memoria, cpu, kernel, escuchando, respuestas>>

-----------------------------------------------------------------------------
\* consola/consola.c, main: the process is sent when the kernel listens, which
\* it does long before it accepts.
ConsolaConecta(c) ==
  /\ consola[c] = "apagada"
  /\ \/ /\ Conectar(c, "consolas", CREAR_PROCESO)
        /\ consola' = [consola EXCEPT ![c] = "esperando"]
     \/ /\ "consolas" \notin escuchando
        /\ consola' = [consola EXCEPT ![c] = "terminado"]
        /\ UNCHANGED pendientes
  /\ UNCHANGED <<memoria, cpu, kernel, escuchando, respuestas>>

-----------------------------------------------------------------------------

Memoria == MemoriaAceptaKernel \/ MemoriaAceptaCpu

Cpu ==
  \/ CpuAceptaDispatch \/ CpuEscuchaInterrupt \/ CpuAceptaInterrupt
  \/ CpuConectaMemoria \/ CpuRecibeMemoria

Kernel ==
  \/ KernelConectaMemoria \/ KernelRecibeMemoria
  \/ KernelConectaDispatch \/ KernelRecibeDispatch
  \/ KernelConectaInterrupt \/ KernelRecibeInterrupt
  \/ KernelAceptaConsola

Next ==
  \/ MemoriaArranca \/ CpuArranca \/ KernelArranca
  \/ \E c \in Consolas : ConsolaConecta(c)
  \/ Memoria \/ Cpu \/ Kernel

\* A program that has been started goes on; nobody has to start one.
Equidad == WF_vars(Memoria) /\ WF_vars(Cpu) /\ WF_vars(Kernel)

Spec == Init /\ [][Next]_vars

SpecJusta == Spec /\ Equidad

-----------------------------------------------------------------------------
\* Properties

\* The type of every variable; no client ever has two answers to read.
TypeOK ==
  /\ memoria \in {"apagada", "aceptar_kernel", "aceptar_cpu", "lista", "terminado"}
  /\ cpu \in {"apagada", "aceptar_dispatch", "escuchar_interrupt", "aceptar_interrupt",
              "conectar_memoria", "esperar_memoria", "lista", "terminado"}
  /\ kernel \in {"apagada", "conectar_memoria", "esperar_memoria", "conectar_dispatch",
                 "esperar_dispatch", "conectar_interrupt", "esperar_interrupt", "lista",
                 "terminado"}
  /\ consola \in [Consolas -> {"apagada", "esperando", "atendida", "terminado"}]
  /\ escuchando \subseteq Puertos
  /\ pendientes \in [Puertos -> Seq(Mensajes)]
  /\ \A i \in DOMAIN pendientes["consolas"] : pendientes["consolas"][i].quien \in Consolas
  /\ respuestas \in [Clientes -> {<<>>, <<0>>, <<1>>}]

\* Memory takes its first connection for the kernel's and its second for the
\* CPU's, and the CPU tries to connect only once: in whatever order the three are
\* started, and not only in that of the README, none of them gives up.
NadieTermina == "terminado" \notin {memoria, cpu, kernel}

\* Why: how far each program has come when another is where it is, ...
Posiciones ==
  /\ memoria \in {"apagada", "aceptar_kernel"} =>
       kernel \in {"apagada", "conectar_memoria", "esperar_memoria"}
  /\ memoria = "apagada" => kernel # "esperar_memoria"
  /\ memoria \in {"aceptar_cpu", "lista"} => kernel \notin {"apagada", "conectar_memoria"}
  /\ cpu \in {"apagada", "aceptar_dispatch"} =>
       kernel \in {"apagada", "conectar_memoria", "esperar_memoria", "conectar_dispatch",
                   "esperar_dispatch"}
  /\ cpu = "apagada" => kernel # "esperar_dispatch"
  /\ cpu = "escuchar_interrupt" => kernel \in {"esperar_dispatch", "conectar_interrupt"}
  /\ cpu = "aceptar_interrupt" =>
       kernel \in {"esperar_dispatch", "conectar_interrupt", "esperar_interrupt"}
  /\ cpu \in {"conectar_memoria", "esperar_memoria", "lista"} =>
       kernel \in {"esperar_interrupt", "lista"}
  /\ memoria = "lista" => cpu \in {"esperar_memoria", "lista"}
  /\ cpu = "lista" => memoria = "lista"

Escuchan ==
  /\ "memoria" \in escuchando <=> memoria # "apagada"
  /\ "dispatch" \in escuchando <=> cpu # "apagada"
  /\ "interrupt" \in escuchando <=>
       cpu \in {"aceptar_interrupt", "conectar_memoria", "esperar_memoria", "lista"}

\* ... and what is in the sockets between the three then.
Si(condicion, s) == IF condicion THEN s ELSE <<>>

EnSockets ==
  /\ pendientes["memoria"] =
       IF memoria = "aceptar_kernel"
         THEN Si(kernel = "esperar_memoria", <<Mensaje("kernel", 555)>>)
         ELSE Si(memoria = "aceptar_cpu" /\ cpu = "esperar_memoria", <<Mensaje("cpu", 222)>>)
  /\ pendientes["dispatch"] =
       Si(cpu = "aceptar_dispatch" /\ kernel = "esperar_dispatch", <<Mensaje("kernel", 333)>>)
  /\ pendientes["interrupt"] =
       Si(cpu = "aceptar_interrupt" /\ kernel = "esperar_interrupt", <<Mensaje("kernel", 111)>>)
  /\ respuestas["cpu"] = Si(cpu = "esperar_memoria" /\ memoria = "lista", <<1>>)
  /\ respuestas["kernel"] =
       Si(\/ kernel = "esperar_memoria" /\ memoria \in {"aceptar_cpu", "lista"}
          \/ kernel = "esperar_dispatch" /\ cpu # "aceptar_dispatch"
          \/ kernel = "esperar_interrupt" /\ cpu # "aceptar_interrupt", <<1>>)

\* The invariant that the proofs show inductive.
Inductiva == NadieTermina /\ Posiciones /\ Escuchan /\ EnSockets

\* Each of the three waits for the other two somewhere: once they have all been
\* started, they all come to the end of their start.
TodosListos ==
  memoria # "apagada" /\ cpu # "apagada" /\ kernel # "apagada"
    ~> memoria = "lista" /\ cpu = "lista" /\ kernel = "lista"

\* The kernel listens to consoles before it looks for memory and the CPU, and
\* accepts them after: one that came early is attended all the same.
ConsolaAtendida ==
  \A c \in Consolas :
    consola[c] = "esperando" /\ memoria # "apagada" /\ cpu # "apagada" ~> consola[c] = "atendida"

=============================================================================
