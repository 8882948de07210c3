--------------------------- MODULE Arranque_proofs ---------------------------
(***************************************************************************)
(* Theorems about Arranque, for every set of consoles.                     *)
(***************************************************************************)
EXTENDS Arranque, SequenceTheorems, TLAPS

\* A queue with one message, or one answer.
LEMMA Uno ==
  ASSUME NEW x
  PROVE  /\ Append(<<>>, x) = <<x>>
         /\ <<x>> # <<>>
         /\ Head(<<x>>) = x
         /\ Tail(<<x>>) = <<>>
  OBVIOUS

\* What a send leaves in a queue, ...
LEMMA ColaPush ==
  ASSUME NEW S, NEW s \in Seq(S), NEW x \in S
  PROVE  /\ Append(s, x) \in Seq(S)
         /\ DOMAIN Append(s, x) = DOMAIN s \cup {Len(s) + 1}
         /\ \A i \in DOMAIN s : Append(s, x)[i] = s[i]
         /\ Append(s, x)[Len(s) + 1] = x
  BY AppendProperties

\* ... and what an accept leaves.
LEMMA ColaPop ==
  ASSUME NEW S, NEW s \in Seq(S), s # <<>>
  PROVE  /\ Head(s) = s[1] /\ 1 \in DOMAIN s
         /\ Tail(s) \in Seq(S)
         /\ \A i \in DOMAIN Tail(s) : i + 1 \in DOMAIN s /\ Tail(s)[i] = s[i + 1]
  BY EmptySeq, HeadTailProperties

-----------------------------------------------------------------------------
\* The inductive invariant

\* Nobody started, nobody listens, nothing sent.
LEMMA InitInductiva == Init => TypeOK /\ Inductiva
  BY DEF Init, TypeOK, Inductiva, NadieTermina, Posiciones, Escuchan, EnSockets, Si,
         Puertos, Clientes, Mensajes

\* The only message of a port is the expected one: it is taken, and answered with a 1.
LEMMA AceptarUno ==
  ASSUME TypeOK, NEW p \in Puertos, NEW c \in Clientes, NEW n,
         pendientes[p] = <<Mensaje(c, n)>>, respuestas[c] = <<>>,
         Aceptar(p, n)
  PROVE  /\ Saluda(p, n)
         /\ pendientes' = [pendientes EXCEPT ![p] = <<>>]
         /\ respuestas' = [respuestas EXCEPT ![c] = <<1>>]
<1>1. Head(pendientes[p]) = Mensaje(c, n) /\ Tail(pendientes[p]) = <<>>
  BY Uno
<1>2. Mensaje(c, n).quien = c /\ Mensaje(c, n).dice = n
  BY DEF Mensaje
<1>3. Append(respuestas[c], 1) = <<1>>
  BY Uno
<1> QED
  BY <1>1, <1>2, <1>3 DEF Aceptar, Saluda, TypeOK

\* Every step of the four programs; the consoles' touch none of it.
LEMMA NextInductiva ==
  ASSUME TypeOK, Inductiva, [Next]_vars
  PROVE  Inductiva'
<1> USE Uno DEF TypeOK, Inductiva, NadieTermina, Posiciones, Escuchan, EnSockets, Si, Mensaje,
        Puertos, Clientes
<1>1. CASE MemoriaArranca
  BY <1>1 DEF MemoriaArranca, Escuchar
<1>2. CASE MemoriaAceptaKernel
  <2>1. pendientes["memoria"] = <<Mensaje("kernel", 555)>> /\ respuestas["kernel"] = <<>>
    BY <1>2 DEF MemoriaAceptaKernel, Aceptar
  <2>2. /\ Saluda("memoria", 555)
        /\ pendientes' = [pendientes EXCEPT !["memoria"] = <<>>]
        /\ respuestas' = [respuestas EXCEPT !["kernel"] = <<1>>]
    BY <1>2, <2>1, AceptarUno DEF MemoriaAceptaKernel
  <2>3. /\ memoria = "aceptar_kernel" /\ memoria' = "aceptar_cpu"
        /\ UNCHANGED <<cpu, kernel, consola, escuchando>>
    BY <1>2, <2>2 DEF MemoriaAceptaKernel, Sigue
  <2>4. kernel = "esperar_memoria"
    BY <2>1, <2>3
  <2>5. /\ pendientes'["memoria"] = <<>> /\ respuestas'["kernel"] = <<1>>
        /\ \A q \in Puertos \ {"memoria"} : pendientes'[q] = pendientes[q]
        /\ respuestas'["cpu"] = respuestas["cpu"]
    BY <2>2
  <2>6. NadieTermina' /\ Posiciones' /\ Escuchan'
    BY <2>3, <2>4
  <2>7. EnSockets'
    BY <2>3, <2>4, <2>5
  <2> QED
    BY <2>6, <2>7
<1>3. CASE MemoriaAceptaCpu
  <2>1. pendientes["memoria"] = <<Mensaje("cpu", 222)>> /\ respuestas["cpu"] = <<>>
    BY <1>3 DEF MemoriaAceptaCpu, Aceptar
  <2>2. /\ Saluda("memoria", 222)
        /\ pendientes' = [pendientes EXCEPT !["memoria"] = <<>>]
        /\ respuestas' = [respuestas EXCEPT !["cpu"] = <<1>>]
    BY <1>3, <2>1, AceptarUno DEF MemoriaAceptaCpu
  <2> QED
    BY <1>3, <2>1, <2>2 DEF MemoriaAceptaCpu, Sigue
<1>4. CASE CpuArranca
  BY <1>4 DEF CpuArranca, Escuchar
<1>5. CASE CpuAceptaDispatch
  <2>1. pendientes["dispatch"] = <<Mensaje("kernel", 333)>> /\ respuestas["kernel"] = <<>>
    BY <1>5 DEF CpuAceptaDispatch, Aceptar
  <2>2. /\ Saluda("dispatch", 333)
        /\ pendientes' = [pendientes EXCEPT !["dispatch"] = <<>>]
        /\ respuestas' = [respuestas EXCEPT !["kernel"] = <<1>>]
    BY <1>5, <2>1, AceptarUno DEF CpuAceptaDispatch
  <2> QED
    BY <1>5, <2>1, <2>2 DEF CpuAceptaDispatch, Sigue
<1>6. CASE CpuEscuchaInterrupt
  BY <1>6 DEF CpuEscuchaInterrupt, Escuchar
<1>7. CASE CpuAceptaInterrupt
  <2>1. pendientes["interrupt"] = <<Mensaje("kernel", 111)>> /\ respuestas["kernel"] = <<>>
    BY <1>7 DEF CpuAceptaInterrupt, Aceptar
  <2>2. /\ Saluda("interrupt", 111)
        /\ pendientes' = [pendientes EXCEPT !["interrupt"] = <<>>]
        /\ respuestas' = [respuestas EXCEPT !["kernel"] = <<1>>]
    BY <1>7, <2>1, AceptarUno DEF CpuAceptaInterrupt
  <2> QED
    BY <1>7, <2>1, <2>2 DEF CpuAceptaInterrupt, Sigue
<1>8. CASE CpuConectaMemoria
  BY <1>8 DEF CpuConectaMemoria, Conectar, Sigue
<1>9. CASE CpuRecibeMemoria
  BY <1>9 DEF CpuRecibeMemoria, Responde, Recibir, Acepta, Sigue
<1>10. CASE KernelArranca
  BY <1>10 DEF KernelArranca, Escuchar
<1>11. CASE KernelConectaMemoria
  BY <1>11 DEF KernelConectaMemoria, KernelConecta, Conectar
<1>12. CASE KernelRecibeMemoria
  BY <1>12 DEF KernelRecibeMemoria, KernelRecibe, Responde, Recibir, Acepta, Sigue
<1>13. CASE KernelConectaDispatch
  BY <1>13 DEF KernelConectaDispatch, KernelConecta, Conectar
<1>14. CASE KernelRecibeDispatch
  BY <1>14 DEF KernelRecibeDispatch, KernelRecibe, Responde, Recibir, Acepta, Sigue
<1>15. CASE KernelConectaInterrupt
  BY <1>15 DEF KernelConectaInterrupt, KernelConecta, Conectar
<1>16. CASE KernelRecibeInterrupt
  BY <1>16 DEF KernelRecibeInterrupt, KernelRecibe, Responde, Recibir, Acepta, Sigue
<1>17. CASE KernelAceptaConsola
  BY <1>17 DEF KernelAceptaConsola
<1>18. CASE \E c \in Consolas : ConsolaConecta(c)
  BY <1>18 DEF ConsolaConecta, Conectar
<1>19. CASE UNCHANGED vars
  BY <1>19 DEF vars
<1> QED
  BY <1>1, <1>2, <1>3, <1>4, <1>5, <1>6, <1>7, <1>8, <1>9, <1>10,
     <1>11, <1>12, <1>13, <1>14, <1>15, <1>16, <1>17, <1>18, <1>19
     DEF Next, Memoria, Cpu, Kernel

-----------------------------------------------------------------------------
\* Types: only the sequences say more than the inductive invariant.

\* What a step does to the sockets: a client sends, a server accepts.
Envia(p, m) == pendientes' = [pendientes EXCEPT ![p] = Append(@, m)]
Quita(p) == pendientes[p] # <<>> /\ pendientes' = [pendientes EXCEPT ![p] = Tail(@)]

Envios ==
  \/ pendientes' = pendientes
  \/ \E p \in Puertos \ {"consolas"}, c \in Clientes, n \in {555, 222, 333, 111} :
       Envia(p, Mensaje(c, n))
  \/ \E c \in Consolas : Envia("consolas", Mensaje(c, CREAR_PROCESO))
  \/ \E p \in Puertos : Quita(p)

\* Each step of a main sends at most one message or takes at most one.
LEMMA PasoEnvios == Next => Envios
<1>1. ASSUME NEW p \in Puertos, NEW n, Aceptar(p, n) PROVE Envios
  BY <1>1 DEF Aceptar, Envios, Quita
<1>2. ASSUME NEW p \in Puertos \ {"consolas"}, NEW c \in Clientes,
             NEW n \in {555, 222, 333, 111}, Conectar(c, p, n)
      PROVE  Envios
  <2>1. Envia(p, Mensaje(c, n))
    BY <1>2 DEF Conectar, Envia
  <2> QED
    BY <2>1 DEF Envios
<1>3. pendientes' = pendientes => Envios
  BY DEF Envios
<1>4. ASSUME Memoria PROVE Envios
  <2>1. Aceptar("memoria", 555) \/ Aceptar("memoria", 222)
    BY <1>4 DEF Memoria, MemoriaAceptaKernel, MemoriaAceptaCpu
  <2> QED
    BY <1>1, <2>1 DEF Puertos
<1>5. ASSUME Cpu PROVE Envios
  <2>1. CpuConectaMemoria => Conectar("cpu", "memoria", 222) \/ pendientes' = pendientes
    BY DEF CpuConectaMemoria
  <2>2. CpuEscuchaInterrupt \/ CpuRecibeMemoria => pendientes' = pendientes
    BY DEF CpuEscuchaInterrupt, CpuRecibeMemoria
  <2>3. CpuAceptaDispatch => Aceptar("dispatch", 333)
    BY DEF CpuAceptaDispatch
  <2>4. CpuAceptaInterrupt => Aceptar("interrupt", 111)
    BY DEF CpuAceptaInterrupt
  <2> QED
    BY <1>1, <1>2, <1>3, <1>5, <2>1, <2>2, <2>3, <2>4 DEF Cpu, Puertos, Clientes
<1>6. ASSUME Kernel PROVE Envios
  <2>1. KernelConectaMemoria => Conectar("kernel", "memoria", 555)
    BY DEF KernelConectaMemoria, KernelConecta
  <2>2. KernelConectaDispatch => Conectar("kernel", "dispatch", 333)
    BY DEF KernelConectaDispatch, KernelConecta
  <2>3. KernelConectaInterrupt => Conectar("kernel", "interrupt", 111)
    BY DEF KernelConectaInterrupt, KernelConecta
  <2>4. KernelRecibeMemoria \/ KernelRecibeDispatch \/ KernelRecibeInterrupt =>
          pendientes' = pendientes
    BY DEF KernelRecibeMemoria, KernelRecibeDispatch, KernelRecibeInterrupt, KernelRecibe
  <2>5. KernelAceptaConsola => Quita("consolas")
    BY DEF KernelAceptaConsola, Quita
  <2>6. Quita("consolas") => Envios
    BY DEF Envios, Puertos
  <2> QED
    BY <1>2, <1>3, <1>6, <2>1, <2>2, <2>3, <2>4, <2>5, <2>6 DEF Kernel, Puertos, Clientes
<1>7. ASSUME NEW c \in Consolas, ConsolaConecta(c) PROVE Envios
  BY <1>7 DEF ConsolaConecta, Conectar, Envios, Envia
<1>8. ASSUME MemoriaArranca \/ CpuArranca \/ KernelArranca PROVE Envios
  BY <1>8, <1>3 DEF MemoriaArranca, CpuArranca, KernelArranca
<1> QED
  BY <1>4, <1>5, <1>6, <1>7, <1>8 DEF Next

\* The queues keep their type, ...
LEMMA ColasTypeOK ==
  ASSUME TypeOK, Envios
  PROVE  /\ pendientes' \in [Puertos -> Seq(Mensajes)]
         /\ \A i \in DOMAIN pendientes'["consolas"] :
              pendientes'["consolas"][i].quien \in Consolas
<1> USE DEF TypeOK, Envia, Quita
<1>1. ASSUME pendientes' = pendientes
      PROVE  /\ pendientes' \in [Puertos -> Seq(Mensajes)]
             /\ \A i \in DOMAIN pendientes'["consolas"] :
                  pendientes'["consolas"][i].quien \in Consolas
  BY <1>1
<1>2. ASSUME NEW p \in Puertos \ {"consolas"}, NEW c \in Clientes,
             NEW n \in {555, 222, 333, 111}, Envia(p, Mensaje(c, n))
      PROVE  /\ pendientes' \in [Puertos -> Seq(Mensajes)]
             /\ \A i \in DOMAIN pendientes'["consolas"] :
                  pendientes'["consolas"][i].quien \in Consolas
  <2>1. Mensaje(c, n) \in Mensajes
    BY DEF Mensaje, Mensajes
  <2>2. Append(pendientes[p], Mensaje(c, n)) \in Seq(Mensajes)
    BY <2>1, ColaPush
  <2>3. pendientes'["consolas"] = pendientes["consolas"]
    BY <1>2 DEF Puertos
  <2>4. pendientes' \in [Puertos -> Seq(Mensajes)]
    BY <1>2, <2>2
  <2> QED
    BY <2>3, <2>4
<1>3. ASSUME NEW c \in Consolas, Envia("consolas", Mensaje(c, CREAR_PROCESO))
      PROVE  /\ pendientes' \in [Puertos -> Seq(Mensajes)]
             /\ \A i \in DOMAIN pendientes'["consolas"] :
                  pendientes'["consolas"][i].quien \in Consolas
  <2> DEFINE s == pendientes["consolas"]
             m == Mensaje(c, CREAR_PROCESO)
  <2>1. m \in Mensajes /\ m.quien = c
    BY DEF Mensaje, Mensajes
  <2>2. s \in Seq(Mensajes) /\ "consolas" \in Puertos
    BY DEF Puertos
  <2>3. /\ Append(s, m) \in Seq(Mensajes)
        /\ \A i \in DOMAIN Append(s, m) :
             Append(s, m)[i] = m \/ (i \in DOMAIN s /\ Append(s, m)[i] = s[i])
    <3> HIDE DEF s, m
    <3>1. /\ Append(s, m) \in Seq(Mensajes)
          /\ DOMAIN Append(s, m) = DOMAIN s \cup {Len(s) + 1}
          /\ \A i \in DOMAIN s : Append(s, m)[i] = s[i]
          /\ Append(s, m)[Len(s) + 1] = m
      BY <2>1, <2>2, ColaPush
    <3>2. ASSUME NEW i \in DOMAIN Append(s, m)
          PROVE  Append(s, m)[i] = m \/ (i \in DOMAIN s /\ Append(s, m)[i] = s[i])
      <4>1. i \in DOMAIN s \/ i = Len(s) + 1
        BY <3>1, Zenon
      <4> QED
        BY <4>1, <3>1, Zenon
    <3> QED
      BY <3>1, <3>2
  <2>4. pendientes'["consolas"] = Append(s, m)
    BY <1>3, <2>2
  <2>5. pendientes' \in [Puertos -> Seq(Mensajes)]
    BY <1>3, <2>2, <2>3
  <2>6. \A i \in DOMAIN Append(s, m) : Append(s, m)[i].quien \in Consolas
    BY <2>1, <2>3
  <2> QED
    BY <2>4, <2>5, <2>6
<1>4. ASSUME NEW p \in Puertos, Quita(p)
      PROVE  /\ pendientes' \in [Puertos -> Seq(Mensajes)]
             /\ \A i \in DOMAIN pendientes'["consolas"] :
                  pendientes'["consolas"][i].quien \in Consolas
  <2>1. /\ Tail(pendientes[p]) \in Seq(Mensajes)
        /\ \A i \in DOMAIN Tail(pendientes[p]) :
             i + 1 \in DOMAIN pendientes[p] /\ Tail(pendientes[p])[i] = pendientes[p][i + 1]
    BY <1>4, ColaPop
  <2>2. CASE p = "consolas"
    BY <1>4, <2>1, <2>2
  <2>3. CASE p # "consolas"
    BY <1>4, <2>1, <2>3 DEF Puertos
  <2> QED
    BY <2>2, <2>3
<1> QED
  <2> HIDE DEF TypeOK, Envia, Quita
  <2>1. CASE pendientes' = pendientes
    BY <1>1, <2>1
  <2>2. CASE \E p \in Puertos \ {"consolas"}, c \in Clientes, n \in {555, 222, 333, 111} :
               Envia(p, Mensaje(c, n))
    BY <1>2, <2>2
  <2>3. CASE \E c \in Consolas : Envia("consolas", Mensaje(c, CREAR_PROCESO))
    BY <1>3, <2>3
  <2>4. CASE \E p \in Puertos : Quita(p)
    BY <1>4, <2>4
  <2> QED
    BY <2>1, <2>2, <2>3, <2>4 DEF Envios

\* ... and a console is where consola.c can be.
LEMMA ConsolasTypeOK ==
  ASSUME TypeOK, Next
  PROVE  consola' \in [Consolas -> {"apagada", "esperando", "atendida", "terminado"}]
<1> USE DEF TypeOK
<1>1. CASE consola' = consola
  BY <1>1
<1>2. CASE KernelAceptaConsola
  BY <1>2 DEF KernelAceptaConsola
<1>3. CASE \E c \in Consolas : ConsolaConecta(c)
  BY <1>3 DEF ConsolaConecta
<1>4. Kernel => KernelAceptaConsola \/ consola' = consola
  BY DEF Kernel, KernelConectaMemoria, KernelRecibeMemoria, KernelConectaDispatch,
         KernelRecibeDispatch, KernelConectaInterrupt, KernelRecibeInterrupt,
         KernelConecta, KernelRecibe
<1>5. Memoria \/ MemoriaArranca \/ CpuArranca \/ KernelArranca => consola' = consola
  BY DEF Memoria, MemoriaAceptaKernel, MemoriaAceptaCpu, MemoriaArranca, CpuArranca, KernelArranca
<1>6. Cpu => consola' = consola
  BY DEF Cpu, CpuAceptaDispatch, CpuEscuchaInterrupt, CpuAceptaInterrupt,
         CpuConectaMemoria, CpuRecibeMemoria
<1> QED
  BY <1>1, <1>2, <1>3, <1>4, <1>5, <1>6 DEF Next

\* recv and the answers of accept replace the answer of one client.
LEMMA RespuestasFuncion ==
  ASSUME TypeOK, Next
  PROVE  respuestas' = [c \in Clientes |-> respuestas'[c]]
<1> USE DEF TypeOK
<1>1. CASE respuestas' = respuestas
  BY <1>1
<1>2. ASSUME NEW p, NEW n, Aceptar(p, n)
      PROVE  respuestas' = [c \in Clientes |-> respuestas'[c]]
  BY <1>2 DEF Aceptar
<1>3. ASSUME NEW c, Recibir(c)
      PROVE  respuestas' = [d \in Clientes |-> respuestas'[d]]
  BY <1>3 DEF Recibir
<1>4. ASSUME Memoria
      PROVE  \E p, n : Aceptar(p, n)
  BY <1>4 DEF Memoria, MemoriaAceptaKernel, MemoriaAceptaCpu
<1>5. ASSUME Cpu
      PROVE  respuestas' = respuestas \/ (\E p, n : Aceptar(p, n)) \/ \E c : Recibir(c)
  BY <1>5 DEF Cpu, CpuAceptaDispatch, CpuEscuchaInterrupt, CpuAceptaInterrupt,
              CpuConectaMemoria, CpuRecibeMemoria
<1>6. ASSUME Kernel
      PROVE  respuestas' = respuestas \/ \E c : Recibir(c)
  BY <1>6 DEF Kernel, KernelConectaMemoria, KernelRecibeMemoria, KernelConectaDispatch,
              KernelRecibeDispatch, KernelConectaInterrupt, KernelRecibeInterrupt,
              KernelAceptaConsola, KernelConecta, KernelRecibe
<1>7. ASSUME \/ MemoriaArranca \/ CpuArranca \/ KernelArranca
             \/ \E c \in Consolas : ConsolaConecta(c)
      PROVE  respuestas' = respuestas
  BY <1>7 DEF MemoriaArranca, CpuArranca, KernelArranca, ConsolaConecta
<1> QED
  BY <1>1, <1>2, <1>3, <1>4, <1>5, <1>6, <1>7 DEF Next

\* main goes through its own steps, and listens on ports only.
LEMMA PasoProgramas ==
  ASSUME TypeOK, Next
  PROVE  /\ memoria' \in {"apagada", "aceptar_kernel", "aceptar_cpu", "lista", "terminado"}
         /\ cpu' \in {"apagada", "aceptar_dispatch", "escuchar_interrupt", "aceptar_interrupt",
                      "conectar_memoria", "esperar_memoria", "lista", "terminado"}
         /\ kernel' \in {"apagada", "conectar_memoria", "esperar_memoria", "conectar_dispatch",
                         "esperar_dispatch", "conectar_interrupt", "esperar_interrupt", "lista",
                         "terminado"}
         /\ escuchando' \subseteq Puertos
<1> USE DEF TypeOK
<1>1. ASSUME NEW p \in Puertos, Escuchar(p) PROVE escuchando' \subseteq Puertos
  BY <1>1 DEF Escuchar
<1>2. ASSUME NEW b, NEW P, Sigue(b, P) PROVE escuchando' \subseteq Puertos
  BY <1>2 DEF Sigue
<1>3. escuchando' = escuchando => escuchando' \subseteq Puertos
  OBVIOUS
<1>4. CASE MemoriaArranca
  BY <1>1, <1>4 DEF MemoriaArranca, Puertos
<1>5. CASE CpuArranca
  BY <1>1, <1>5 DEF CpuArranca, Puertos
<1>6. CASE KernelArranca
  BY <1>1, <1>6 DEF KernelArranca, Puertos
<1>7. CASE MemoriaAceptaKernel
  BY <1>2, <1>7 DEF MemoriaAceptaKernel
<1>8. CASE MemoriaAceptaCpu
  BY <1>2, <1>8 DEF MemoriaAceptaCpu
<1>9. CASE CpuAceptaDispatch
  BY <1>2, <1>9 DEF CpuAceptaDispatch
<1>10. CASE CpuEscuchaInterrupt
  BY <1>1, <1>10 DEF CpuEscuchaInterrupt, Puertos
<1>11. CASE CpuAceptaInterrupt
  BY <1>2, <1>11 DEF CpuAceptaInterrupt
<1>12. CASE CpuConectaMemoria
  BY <1>2, <1>12 DEF CpuConectaMemoria
<1>13. CASE CpuRecibeMemoria
  BY <1>2, <1>13 DEF CpuRecibeMemoria
<1>14. ASSUME NEW d, NEW p, NEW n, NEW h, KernelConecta(d, p, n, h)
      PROVE  UNCHANGED <<memoria, cpu, escuchando>> /\ kernel' = h
  BY <1>14 DEF KernelConecta
<1>15. ASSUME NEW d, NEW v, NEW h, KernelRecibe(d, v, h)
      PROVE  /\ UNCHANGED <<memoria, cpu>> /\ kernel' \in {h, "terminado"}
             /\ escuchando' \subseteq Puertos
  BY <1>2, <1>15 DEF KernelRecibe
<1>16. CASE KernelConectaMemoria \/ KernelConectaDispatch \/ KernelConectaInterrupt
  BY <1>14, <1>16 DEF KernelConectaMemoria, KernelConectaDispatch, KernelConectaInterrupt
<1>17. CASE KernelRecibeMemoria \/ KernelRecibeDispatch \/ KernelRecibeInterrupt
  BY <1>15, <1>17 DEF KernelRecibeMemoria, KernelRecibeDispatch, KernelRecibeInterrupt
<1>18. CASE KernelAceptaConsola
  BY <1>18 DEF KernelAceptaConsola
<1>19. CASE \E c \in Consolas : ConsolaConecta(c)
  BY <1>19 DEF ConsolaConecta
<1> QED
  BY <1>4, <1>5, <1>6, <1>7, <1>8, <1>9, <1>10, <1>11, <1>12, <1>13, <1>16, <1>17, <1>18, <1>19
     DEF Next, Memoria, Cpu, Kernel

\* What is left in a type follows from the inductive invariant after the step.
LEMMA NextTypeOK ==
  ASSUME TypeOK, Inductiva, [Next]_vars
  PROVE  TypeOK'
<1>1. CASE UNCHANGED vars
  BY <1>1 DEF vars, TypeOK
<1>2. CASE Next
  <2>1. Inductiva'
    BY NextInductiva
  <2>2. \A c \in Clientes : respuestas'[c] \in {<<>>, <<1>>}
    BY <2>1 DEF Inductiva, EnSockets, Si, Clientes
  <2>3. respuestas' \in [Clientes -> {<<>>, <<0>>, <<1>>}]
    BY <1>2, <2>2, RespuestasFuncion
  <2>4. /\ memoria' \in {"apagada", "aceptar_kernel", "aceptar_cpu", "lista", "terminado"}
        /\ escuchando' \subseteq Puertos
        /\ cpu' \in {"apagada", "aceptar_dispatch", "escuchar_interrupt", "aceptar_interrupt",
                     "conectar_memoria", "esperar_memoria", "lista", "terminado"}
        /\ kernel' \in {"apagada", "conectar_memoria", "esperar_memoria", "conectar_dispatch",
                        "esperar_dispatch", "conectar_interrupt", "esperar_interrupt", "lista",
                        "terminado"}
    BY <1>2, PasoProgramas
  <2> QED
    BY <1>2, <2>3, <2>4, PasoEnvios, ColasTypeOK, ConsolasTypeOK DEF TypeOK
<1> QED
  BY <1>1, <1>2

-----------------------------------------------------------------------------
\* Theorems

\* In every state that can be reached, the two together.
LEMMA Invariante == Spec => [](TypeOK /\ Inductiva)
<1>1. Init => TypeOK /\ Inductiva
  BY InitInductiva
<1>2. TypeOK /\ Inductiva /\ [Next]_vars => (TypeOK /\ Inductiva)'
  BY NextInductiva, NextTypeOK
<1> QED
  BY <1>1, <1>2, PTL DEF Spec

\* Whatever the consoles and the order of the start, every variable has its type:
\* no client ever finds two answers where its main receives one.
THEOREM TiposCorrectos == Spec => []TypeOK
  BY Invariante, PTL

\* How far each program is when another is where it is, and what is in the
\* sockets between the three then: at most the one handshake under way.
THEOREM UnSaludoPorVez == Spec => []Inductiva
  BY Invariante, PTL

\* However the three are started and whatever the consoles do, each connection is
\* accepted by the main that expects it: none of the three gives up.
THEOREM NingunoTermina == Spec => []NadieTermina
<1>1. Inductiva => NadieTermina
  BY DEF Inductiva
<1> QED
  BY <1>1, Invariante, PTL

=============================================================================
