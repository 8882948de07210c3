------------------------------ MODULE Memoria ------------------------------
(***************************************************************************)
(* The memory module (src/memoria): two threads that share the page        *)
(* tables, the bitmap of frames, the frames and the swap files.            *)
(*                                                                         *)
(*   hk   hilo_kernel   creates, suspends and frees the processes          *)
(*   hc   hilo_cpu      gives the CPU the frame of a page, bringing the    *)
(*                      page from swap when it is absent; reads; writes    *)
(*                                                                         *)
(* A first level table is named by its process, and a page by its two      *)
(* entries; nothing in the code reuses a table number.  A page holds one   *)
(* value.  One action is one access to what the other thread uses too: the *)
(* bitmap, and the swap file and the frames while a page moves.            *)
(***************************************************************************)
EXTENDS Clock

CONSTANTS
  Procesos,
  CantidadDePaginas,        \* how many pages each process has
  ENTRADAS_POR_TABLA,
  MARCOS_POR_PROCESO,
  CantidadDeMarcos,         \* TAMANIO_MEMORIA / TAMANIO_PAGINA
  ALGORITMO_REEMPLAZO,
  BitsSinIniciar,           \* what malloc may leave in a bit_modificacion: 2 is any
                            \* value but 0 and 1
  Valores,                  \* what the programs write
  BASURA,                   \* what was never written: fread past the end of a swap file
  NULO

ASSUME MemoriaAssumption ==
  /\ ENTRADAS_POR_TABLA \in Nat \ {0}
  /\ MARCOS_POR_PROCESO \in Nat \ {0}
  /\ CantidadDeMarcos \in Nat \ {0}
  /\ CantidadDePaginas \in [Procesos -> 1..(ENTRADAS_POR_TABLA * ENTRADAS_POR_TABLA)]
  /\ ALGORITMO_REEMPLAZO \in {"CLOCK", "CLOCK-M"}
  /\ BitsSinIniciar \subseteq 0..2 /\ BitsSinIniciar # {}
  /\ NULO \notin Procesos
  /\ BASURA \notin Valores

VARIABLES
  tablas,          \* whether the tables of each process exist
  tabla,           \* its second level tables, one entry per page
  puntero_clock,   \* punteros_clock
  bitmap,          \* the frames whose bit is 1 in bitmap_memoria
  memoria_real,    \* the content of each frame
  swap,            \* the content of each page of each swap file
  hk, hc,          \* what each thread is doing
  caido,           \* an invalid pointer was dereferenced
  indefinido       \* a new table was built over memory with a 1 in a bit_presencia

memoria_vars == <<tablas, tabla, puntero_clock, bitmap, memoria_real, swap, hk, hc,
                  caido, indefinido>>

-----------------------------------------------------------------------------
\* Data

Entradas == 0..(ENTRADAS_POR_TABLA - 1)
Posiciones == Entradas \X Entradas
Marcos == 0..(CantidadDeMarcos - 1)
Datos == Valores \cup {BASURA}
Pagina == [numero_frame: Marcos, bit_presencia: {0, 1}, bit_uso: {0, 1},
           bit_modificacion: 0..2]

Paginas(p) == 0..(CantidadDePaginas[p] - 1)
TodasLasPaginas == 0..(ENTRADAS_POR_TABLA * ENTRADAS_POR_TABLA - 1)

\* The page number the CPU splits into its two entries, and the inverse that
\* memory computes to find the page in the swap file.
Posicion(n) == <<n \div ENTRADAS_POR_TABLA, n % ENTRADAS_POR_TABLA>>
calcular_num_pagina(pos) == pos[1] * ENTRADAS_POR_TABLA + pos[2]

\* buscar_paginas_presentes
Presentes(p) == {pos \in Posiciones : tabla[p][pos].bit_presencia = 1}
Marco(p, pos) == tabla[p][pos].numero_frame

\* The number of the page of p in a frame: the last one found.
calcular_numero_de_pagina_a_reemplazar(p, marco) ==
  LET hallados == {calcular_num_pagina(pos) : pos \in {q \in Presentes(p) : Marco(p, q) = marco}}
  IN CHOOSE n \in hallados : \A m \in hallados : m <= n

\* The list of present pages sorted by frame, which the clocks go round.
Tam(p) == Cardinality(Presentes(p))
EnLista(p, k) ==
  CHOOSE pos \in Presentes(p) :
    Cardinality({q \in Presentes(p) : Marco(p, q) < Marco(p, pos)}) = k
PaginasEnMemoria(p) == [k \in 0..(Tam(p) - 1) |-> tabla[p][EnLista(p, k)]]

elegir_pagina_a_sacar(p) ==
  IF ALGORITMO_REEMPLAZO = "CLOCK"
    THEN clock_comun(PaginasEnMemoria(p), puntero_clock[p])
    ELSE clock_mejorado(PaginasEnMemoria(p), puntero_clock[p])

\* Tables with no page present, and the bit_modificacion that each page has.
TablaNueva(bits) == [pos \in Posiciones |->
  [numero_frame |-> 0, bit_presencia |-> 0, bit_uso |-> 0, bit_modificacion |-> bits[pos]]]
SinTabla == TablaNueva([pos \in Posiciones |-> 0])

HiloLibre == [op |-> "nada", id |-> NULO]
\* What hilo_cpu is doing, for which page, and with which frame.
Atender(en, p, pos, marco) == [en |-> en, id |-> p, pos |-> pos, marco |-> marco]
CpuLibre == Atender("libre", NULO, <<0, 0>>, 0)

MemoriaInit ==
  /\ tablas = [p \in Procesos |-> "sin_crear"]
  /\ tabla = [p \in Procesos |-> SinTabla]
  /\ puntero_clock = [p \in Procesos |-> 0]
  /\ bitmap = {}
  /\ memoria_real = [f \in Marcos |-> BASURA]
  /\ swap = [p \in Procesos |-> [n \in TodasLasPaginas |-> BASURA]]
  /\ hk = HiloLibre
  /\ hc = CpuLibre
  /\ caido = FALSE /\ indefinido = FALSE

-----------------------------------------------------------------------------
\* hilo_kernel

\* crear_tablas.  The entries come from malloc and nobody sets them: whatever
\* bit_modificacion they hold is kept, and a bit_presencia that happens to be 1
\* makes the page pass for present.  bit_uso and numero_frame are written
\* before they are read.
CrearTablas(p) ==
  /\ hk.op = "nada"
  /\ tablas[p] = "sin_crear"
  /\ tablas' = [tablas EXCEPT ![p] = "creadas"]
  /\ \/ /\ \E bits \in [Paginas(p) -> BitsSinIniciar] :
             tabla' = [tabla EXCEPT ![p] = TablaNueva([pos \in Posiciones |->
               IF calcular_num_pagina(pos) \in Paginas(p) THEN bits[calcular_num_pagina(pos)] ELSE 0])]
        /\ UNCHANGED indefinido
     \/ indefinido' = TRUE /\ UNCHANGED tabla
  /\ puntero_clock' = [puntero_clock EXCEPT ![p] = 0]
  /\ swap' = [swap EXCEPT ![p] = [n \in TodasLasPaginas |-> BASURA]]
  /\ UNCHANGED <<bitmap, memoria_real, hk, hc, caido>>

\* suspension_proceso: the pages are dealt with in order, while the other
\* thread goes on.
Suspender(p) ==
  /\ hk.op = "nada"
  /\ tablas[p] = "creadas"
  /\ hk' = [op |-> "suspender", id |-> p]
  /\ UNCHANGED <<tablas, tabla, puntero_clock, bitmap, memoria_real, swap, hc, caido,
                 indefinido>>

\* finalizacion_proceso: the swap file goes first.
Finalizar(p) ==
  /\ hk.op = "nada"
  /\ tablas[p] = "creadas"
  /\ hk' = [op |-> "finalizar", id |-> p]
  /\ swap' = [swap EXCEPT ![p] = [n \in TodasLasPaginas |-> BASURA]]
  /\ UNCHANGED <<tablas, tabla, puntero_clock, bitmap, memoria_real, hc, caido, indefinido>>

\* The page of the process the loop of hilo_kernel is at.
EnCurso ==
  CHOOSE pos \in Presentes(hk.id) : \A q \in Presentes(hk.id) :
    calcular_num_pagina(pos) <= calcular_num_pagina(q)

GuardarPaginaSuspendida ==
  /\ hk.op = "suspender"
  /\ Presentes(hk.id) # {}
  /\ tabla[hk.id][EnCurso].bit_modificacion = 1
  /\ swap' = [swap EXCEPT ![hk.id][calcular_num_pagina(EnCurso)] =
                memoria_real[Marco(hk.id, EnCurso)]]
  /\ tabla' = [tabla EXCEPT ![hk.id][EnCurso].bit_modificacion = 0]
  /\ UNCHANGED <<tablas, puntero_clock, bitmap, memoria_real, hk, hc, caido, indefinido>>

\* Mutant: poner_bit_en_0_bitmap is not called.
LiberarPagina_sin_bitmap ==
  /\ hk.op # "nada"
  /\ Presentes(hk.id) # {}
  /\ hk.op = "suspender" => tabla[hk.id][EnCurso].bit_modificacion # 1
  /\ tabla' = [tabla EXCEPT ![hk.id][EnCurso].bit_presencia = 0]
  /\ UNCHANGED <<tablas, puntero_clock, bitmap, memoria_real, swap, hk, hc, caido, indefinido>>

LiberarPagina ==
  /\ hk.op # "nada"
  /\ Presentes(hk.id) # {}
  /\ hk.op = "suspender" => tabla[hk.id][EnCurso].bit_modificacion # 1
  /\ tabla' = [tabla EXCEPT ![hk.id][EnCurso].bit_presencia = 0]
  /\ bitmap' = bitmap \ {Marco(hk.id, EnCurso)}
  /\ UNCHANGED <<tablas, puntero_clock, memoria_real, swap, hk, hc, caido, indefinido>>

\* The answer, once every page has been seen; finalizacion_proceso has freed
\* the tables.
ResponderKernel ==
  /\ hk.op # "nada"
  /\ Presentes(hk.id) = {}
  /\ tablas' = IF hk.op = "finalizar" THEN [tablas EXCEPT ![hk.id] = "liberadas"] ELSE tablas
  /\ hk' = HiloLibre
  /\ tabla' = IF hk.op = "finalizar" THEN [tabla EXCEPT ![hk.id] = SinTabla] ELSE tabla
  /\ UNCHANGED <<puntero_clock, bitmap, memoria_real, swap, hc, caido, indefinido>>

-----------------------------------------------------------------------------
\* hilo_cpu

\* solicitud_num_tabla_2 and solicitud_num_frame
SolicitudFrame(p, pos) ==
  /\ hc.en = "libre"
  /\ hc' = IF tabla[p][pos].bit_presencia = 1 THEN Atender("responder", p, pos, Marco(p, pos))
                                   ELSE Atender("falta", p, pos, 0)
  /\ UNCHANGED <<tablas, tabla, puntero_clock, bitmap, memoria_real, swap, hk, caido,
                 indefinido>>

\* Mutant: one frame more than MARCOS_POR_PROCESO.
HayLugar_uno_de_mas(p) == Tam(p) <= MARCOS_POR_PROCESO /\ bitmap # Marcos

HayLugar(p) == Tam(p) < MARCOS_POR_PROCESO /\ bitmap # Marcos

\* Mutant: the search starts after the last frame in use.
buscar_frame_libre_siguiente == Max(bitmap \cup {-1}) + 1

buscar_frame_libre == Min(Marcos \ bitmap)

\* cargar_a_memoria, with a place of its own for the page
BuscarMarcoLibre ==
  /\ hc.en = "falta"
  /\ HayLugar(hc.id)
  /\ hc' = [hc EXCEPT !.en = "cargar", !.marco = buscar_frame_libre]
  /\ UNCHANGED <<tablas, tabla, puntero_clock, bitmap, memoria_real, swap, hk, caido,
                 indefinido>>

\* The page hc serves, once it is in a frame.
Cargada(t) == [t EXCEPT ![hc.pos].bit_presencia = 1, ![hc.pos].bit_uso = 1,
                        ![hc.pos].numero_frame = hc.marco]

\* Mutant: poner_bit_en_1_bitmap is not called.
CargarMarco_sin_bitmap ==
  /\ hc.en = "cargar"
  /\ memoria_real' = [memoria_real EXCEPT ![hc.marco] = swap[hc.id][calcular_num_pagina(hc.pos)]]
  /\ tabla' = [tabla EXCEPT ![hc.id] = Cargada(@)]
  /\ hc' = [hc EXCEPT !.en = "responder"]
  /\ UNCHANGED <<tablas, puntero_clock, bitmap, swap, hk, caido, indefinido>>

CargarMarco ==
  /\ hc.en = "cargar"
  /\ memoria_real' = [memoria_real EXCEPT ![hc.marco] = swap[hc.id][calcular_num_pagina(hc.pos)]]
  /\ bitmap' = bitmap \cup {hc.marco}
  /\ tabla' = [tabla EXCEPT ![hc.id] = Cargada(@)]
  /\ hc' = [hc EXCEPT !.en = "responder"]
  /\ UNCHANGED <<tablas, puntero_clock, swap, hk, caido, indefinido>>

\* cargar_a_memoria, in the place of another page of the process.  list_get past
\* the end of the list gives NULL.  With no page to go round, clock_mejorado
\* never ends: nothing is enabled.
ElegirPaginaASacar ==
  /\ hc.en = "falta"
  /\ ~HayLugar(hc.id)
  /\ \/ /\ puntero_clock[hc.id] < Tam(hc.id)
        /\ LET c == elegir_pagina_a_sacar(hc.id)
               bajados == {EnLista(hc.id, k) : k \in c.bajados}
           IN
             /\ tabla' = [tabla EXCEPT ![hc.id] = [pos \in Posiciones |->
                  IF pos \in bajados THEN [@[pos] EXCEPT !.bit_uso = 0] ELSE @[pos]]]
             /\ puntero_clock' = [puntero_clock EXCEPT ![hc.id] = c.puntero]
             /\ hc' = [hc EXCEPT !.en = "sacar", !.marco = Marco(hc.id, EnLista(hc.id, c.victima))]
        /\ UNCHANGED caido
     \/ /\ puntero_clock[hc.id] >= Tam(hc.id)
        /\ ALGORITMO_REEMPLAZO = "CLOCK" \/ Tam(hc.id) > 0
        /\ caido' = TRUE
        /\ UNCHANGED <<tabla, puntero_clock, hc>>
  /\ UNCHANGED <<tablas, bitmap, memoria_real, swap, hk, indefinido>>

\* The victim, found again by its frame.
Victima == Posicion(calcular_numero_de_pagina_a_reemplazar(hc.id, hc.marco))

\* Mutant: the modified page is not saved.
GuardarVictima_olvidado ==
  /\ hc.en = "sacar"
  /\ hc' = [hc EXCEPT !.en = "reemplazar"]
  /\ tabla' = [tabla EXCEPT ![hc.id][Victima].bit_modificacion = 0]
  /\ UNCHANGED <<tablas, puntero_clock, bitmap, memoria_real, swap, hk, caido, indefinido>>

GuardarVictima ==
  /\ hc.en = "sacar"
  /\ \/ /\ tabla[hc.id][Victima].bit_modificacion = 1
        /\ swap' = [swap EXCEPT ![hc.id][calcular_num_pagina(Victima)] = memoria_real[hc.marco]]
        /\ tabla' = [tabla EXCEPT ![hc.id][Victima].bit_modificacion = 0]
     \/ tabla[hc.id][Victima].bit_modificacion # 1 /\ UNCHANGED <<swap, tabla>>
  /\ hc' = [hc EXCEPT !.en = "reemplazar"]
  /\ UNCHANGED <<tablas, puntero_clock, bitmap, memoria_real, hk, caido, indefinido>>

ReemplazarPagina ==
  /\ hc.en = "reemplazar"
  /\ memoria_real' = [memoria_real EXCEPT ![hc.marco] = swap[hc.id][calcular_num_pagina(hc.pos)]]
  /\ tabla' = [tabla EXCEPT ![hc.id] = Cargada([@ EXCEPT ![Victima].bit_presencia = 0])]
  /\ hc' = [hc EXCEPT !.en = "responder"]
  /\ UNCHANGED <<tablas, puntero_clock, bitmap, swap, hk, caido, indefinido>>

\* The pages that bit_de_uso_en_1 and bit_de_modificado_en_1 find: those of the
\* table in one first level entry that are in the frame.
EnMarco(p, entrada, marco) ==
  {pos \in Presentes(p) : pos[1] = entrada /\ Marco(p, pos) = marco}

\* solicitud_lectura: the value goes back to the CPU.
Lectura(p, entrada, marco) ==
  /\ hc.en = "libre"
  /\ tabla' = [tabla EXCEPT ![p] = [pos \in Posiciones |->
       IF pos \in EnMarco(p, entrada, marco) THEN [@[pos] EXCEPT !.bit_uso = 1] ELSE @[pos]]]
  /\ UNCHANGED <<tablas, puntero_clock, bitmap, memoria_real, swap, hk, hc, caido, indefinido>>

\* Mutant: bit_de_modificado_en_1 is not called.
Escritura_sin_modificado(p, entrada, marco, v) ==
  /\ hc.en = "libre"
  /\ memoria_real' = [memoria_real EXCEPT ![marco] = v]
  /\ tabla' = [tabla EXCEPT ![p] = [pos \in Posiciones |->
       IF pos \in EnMarco(p, entrada, marco) THEN [@[pos] EXCEPT !.bit_uso = 1] ELSE @[pos]]]
  /\ UNCHANGED <<tablas, puntero_clock, bitmap, swap, hk, hc, caido, indefinido>>

\* solicitud_escritura
Escritura(p, entrada, marco, v) ==
  /\ hc.en = "libre"
  /\ memoria_real' = [memoria_real EXCEPT ![marco] = v]
  /\ tabla' = [tabla EXCEPT ![p] = [pos \in Posiciones |->
       IF pos \in EnMarco(p, entrada, marco)
         THEN [@[pos] EXCEPT !.bit_uso = 1, !.bit_modificacion = 1] ELSE @[pos]]]
  /\ UNCHANGED <<tablas, puntero_clock, bitmap, swap, hk, hc, caido, indefinido>>

\* The threads, as the module that composes them with the CPU names them.
HiloKernel == GuardarPaginaSuspendida \/ LiberarPagina \/ ResponderKernel
HiloCpu == \/ BuscarMarcoLibre \/ CargarMarco
           \/ ElegirPaginaASacar \/ GuardarVictima \/ ReemplazarPagina

MemoriaTypeOK ==
  /\ tablas \in [Procesos -> {"sin_crear", "creadas", "liberadas"}]
  /\ tabla \in [Procesos -> [Posiciones -> Pagina]]
  /\ puntero_clock \in [Procesos -> Nat]
  /\ bitmap \subseteq Marcos
  /\ memoria_real \in [Marcos -> Datos]
  /\ swap \in [Procesos -> [TodasLasPaginas -> Datos]]
  /\ hk \in [op: {"nada", "suspender", "finalizar"}, id: Procesos \cup {NULO}]
  /\ hk.op # "nada" => hk.id \in Procesos
  /\ hc \in [en: {"libre", "falta", "cargar", "sacar", "reemplazar", "responder"},
             id: Procesos \cup {NULO}, pos: Posiciones, marco: Marcos]
  /\ hc.en # "libre" => hc.id \in Procesos
  /\ caido \in BOOLEAN /\ indefinido \in BOOLEAN
=============================================================================
