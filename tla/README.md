# A verification of the kernel, the CPU and the memory of Hijos de Odín

The repository (`src/`) holds four C programs that talk over TCP sockets and
simulate an operating system: **consoles** submit lists of instructions, a
**kernel** schedules the processes made of them, a **CPU** executes them and a
**memory** module pages them. This directory models what is hard about them:
threads, semaphores, shared sockets, timeouts and page replacement. The
identifiers are those of the source, in Spanish.

## 1. Inventory

### Kernel (`src/kernel`)

One process, five long-lived threads and one more per blocked process.

| thread | file | does |
|---|---|---|
| `recibir_procesos` | kernel.c:130 | accepts consoles, `ingreso_a_new` queues the PCB |
| `pasar_a_ready` | planificadorDeLargoPlazo.c:18 | long term: new or suspended-ready to ready, asks memory for the page tables |
| `ready_a_executing` | planificadorDeCortoPlazo.c:10 | short term: sends a PCB to the CPU (FIFO or SJF with preemption, "SRT") |
| `esperar_syscall` | kernel.c:178 | receives I/O, EXIT and DESALOJO from the CPU; blocks, ends or requeues the process |
| `hilo_io` | planificadorDeMedianoPlazo.c:72 | the one I/O device; afterwards the process is ready or suspended-ready |
| `hilo_suspensor` | planificadorDeMedianoPlazo.c:8 | sleeps `TIEMPO_MAXIMO_BLOQUEADO`, then suspends its process; cancelled when the I/O ends first |

State: `cola_new`, `cola_ready` (a list under SJF), `cola_blocked`,
`cola_suspended_ready`; seven counting semaphores; three mutexes, and a fourth,
`mx_cola_blocked`, that is declared and never taken; one socket to memory that
three kinds of thread use in turns, under `esperando_respuesta_memoria`.

What makes it correct: no process is lost, duplicated or in two queues; no
`queue_pop` finds its queue empty; one process on the CPU; the degree of
multiprogramming; each thread reads the answer to its own request; only a
blocked process is suspended; every console gets its answer.

### CPU (`src/cpu`)

`main` (cpu.c:128) receives a PCB; thread `executer` (cpu.c:157) runs its
instructions until I/O, EXIT or an interrupt, and sends the PCB back. Thread
`interrupt` (cpu.c:288) sets `interrupcion`. Reads and writes translate a logical address with the TLB and
two levels of page tables kept by memory (instrucciones.c:178).

What makes it correct: the TLB never gives the frame of a page that lost it; an
interrupt preempts the process it was meant for, once.

### Memory (`src/memoria`)

Two threads that share tables, the bitmap of frames, the frames and the swap
files. `hilo_kernel` creates the tables of a process, suspends it (its pages go to
swap) and frees it; `hilo_cpu` serves the CPU: second level table, frame (loading
the page, and evicting another of the process with CLOCK or CLOCK-M), read, write.

What makes it correct: two pages never share a frame; the bitmap agrees with the
tables; what is read is the last thing written, through any number of evictions
and suspensions; a process never has more than `MARCOS_POR_PROCESO` frames; the
clock pointer stays in range.

### Console (`src/consola`)

Reads a file, sends it, and waits for one answer.

### Start-up

Memory listens, and takes its first connection for the kernel's and its second for
the CPU's. The CPU listens for the kernel twice, one port after the other, and then
connects to memory, once. The kernel listens for consoles, connects to memory and
twice to the CPU, each time until it succeeds, and only then accepts consoles.

What makes it correct: nobody meets a client it did not expect or a port nobody
listens on, whatever program is started first, and the three waits end.

## 2. Modules and how they correspond to the code

```
 CicloDeVida               MemoriaPlana        (what is promised)
   ^       ^                     ^
KernelFIFO KernelSRT     Paginacion = Memoria + TLB + the accesses of the CPU
   |       |                          |
    Kernel                          Clock  <--- ClockPasoAPaso (the loops themselves)

 Arranque  (until the threads of the others start)
```

One action is one semaphore operation, or one access to something another thread
uses, with the local work that follows. A section under a mutex of its own that
waits for nothing inside is one action. Definitions called `..._sin_...`,
`..._olvidado` and the like, each right before the definition it spoils, are
mutants: plausible bugs, used only to see that a property notices them.

**`Kernel`**: the threads of the kernel that do not depend on the scheduling
algorithm. `rp`, `lp`, `sc`, `io` and `susp` say where each thread is, by the name
of what it is about to do, and hold the PCB it works with. `sem` has the seven
counting semaphores by name. A PCB is its process, how many I/O it has done (`pc`)
and its first level table, named by its owner. The two directions of each socket
are queues of whole messages. A block (`t_bloqueado`) is a process and the number
of the I/O that blocks it; its suspensor and its `esta_suspendido` go by that pair.

What the two modules that compose it have in common is here too: the accounts of its
semaphores (`CuentaNew`, `CuentaBlocked`, `PlazasDelKernel` and the like) and the places of
its PCBs (`LugaresDelKernel`).

- `cola_blocked` is pushed and popped without a mutex. The push is two actions,
  `BuscarUltimo` and `EnlazarBloqueado`; when a pop came in between, the second
  may lose the element (`cola_rota`), and certainly does if the node it found was
  freed as the only one. A later use of a broken list sets `caido`, where the
  model stops. Whatever the code does after that is undefined.
- `pthread_cancel` is deferred: `cancelado` is the pending request and `Cancelar`
  acts upon it at a cancellation point (`usleep`, either `sem_wait`). A suspensor
  that has passed the test inside `sem_wait` (`"listo"`) may still succeed.

**`KernelFIFO`**: `Kernel` with `ready_a_executing` under FIFO and a CPU that
executes a process until I/O or EXIT. `CpuAcceder` stands for the page accesses
that bring frames back to a suspended process. `CicloDeVida` is its abstraction:
the seven states, one CPU and the degree.

**`KernelSRT`**: `Kernel` with `ready_a_executing` under any other
`ALGORITMO_PLANIFICACION`, and the CPU with the interrupt. `cola_ready` stands for
`lista_ready`. `cp` is the scheduler at each of its accesses to `lista_ready`, to
`PCB_EJECUCION` (`ejecucion`, which it reads three times in one decision) and to its
sockets; `cpu` is the executer before an instruction (`"listo"`), before it checks for
interrupts (`"chequear"`) or without a process (`"libre"`, `nada_ejecutando` posted);
`limpiando` is the time between that post and the reset of `interrupcion`. Burst
estimates are left out: `Permanece` and `ElegirOtro` are both possible whenever some
estimates make them so, and `Sacar` takes any PCB. Everything shown holds therefore
for any estimates, also for those that `calcular_rafaga` gets wrong.

- Two overlapping accesses to `lista_ready` of which one is without the mutex may
  break it (`lista_rota`), and a second `enviar_syscall` of one PCB frees its
  instructions again (`doble_envio`): what follows is undefined, and the model stops.
- `anomalias` is a history variable. It names three things that the code does not
  exclude and after which scheduler and CPU disagree: an interrupt sent for, or pending
  when, a process has left the CPU by itself (`"interrupcion_tardia"`), PCB_EJECUCION
  set to a process already back (`"asignacion_tardia"`), and the wait for the preempted
  process ended by the post of another (`"aviso_ajeno"`). No action reads it. The
  properties that hold only without them say so, and each of the three is needed: with
  any one of them left out of the exceptions, `EjecucionFiel` is violated.

**`Arranque`**: the four `main` until their threads start. A connection waits in the
queue of its port with the number the client sends first; `connect` fails when nobody
listens, which the kernel tries again and the CPU and the consoles do not notice. Where
this module ends the others begin: its `"atendida"` is `RecibirProceso` of `Kernel`.

**`Clock`**: what `clock_comun` and `clock_mejorado` decide on the list of present
pages and the hand, in one step: the victim, the cleared bits and the new hand.
**`ClockPasoAPaso`** has the two loops of the C code, one iteration an action, and
shows that they end with that decision.

**`Memoria`**: the state of the memory module and its two threads. `hk` is the
request `hilo_kernel` is dealing with and `hc` that of `hilo_cpu`. A page is named
by its two entries, a table by its process; a page holds one value. What malloc
leaves in a new table is explored for `bit_modificacion` (`BitsSinIniciar`), the only
field read before it is written besides `bit_presencia`; a `bit_presencia` that
happens to be 1 sets `indefinido` and stops the model, as the frame number would be
garbage too. A NULL from `list_get` sets `caido`.

**`TLB`**: the entries, and the two clocks kept as orders (oldest first):
`clock()` moves on between two accesses, since each exchanges messages. It may not
move between two entries emptied by the same loop, so the order after
`limpiar_TLB` is any.

**`Paginacion`**: the CPU reading and writing through the TLB and memory, while
the kernel creates, suspends and frees processes. `acceso` is how far the access
is. `MemoriaPlana` is its abstraction: a memory of its own for each process.

What is assumed of the kernel there, that a process is suspended or freed only
while it is not in the CPU nor on its way, is what `SuspensionSoloBloqueado` and
`UnSoloProcesoEnCPU` establish of the kernel.

## 3. Runs

Each has a `.cfg` file of its name; `MCKernelFIFO`, `MCKernelSRT` and
`MCPaginacion` only name processes, values and symmetries.

| run | question | answer |
|---|---|---|
| `kernel_fifo` | Do the semaphores account for the queues, the places and the CPU? Does each thread get its own answer from memory? Is a process always in one place? Is it the seven-state life cycle? With the inductive invariant of the proofs. | yes |
| `kernel_fifo_suspension` | Does a late or cancelled suspensor ever suspend a process that went on? How many processes may hold frames? | no; the degree, plus the one that is ending |
| `kernel_fifo_vivacidad` | Is every console answered? | yes, unless the race on `cola_blocked` strikes, or the cancelled suspensor of the next row |
| `kernel_fifo_espera` | Is every console answered, lost blocks aside? | no: a suspensor cancelled between its two waits keeps `suspendiendo` |
| `kernel_srt` | Does PCB_EJECUCION name the process in the CPU when it decides something? Is the process preempted the one that was meant? Is no process lost or duplicated, nor a place of the degree? Is it the life cycle with preemption? Is every console answered? With the inductive invariant of the proofs. | yes: the places and the processes until a `doble_envio`, the rest unless one of the three `anomalias` occurs |
| `kernel_srt_permanece` | Is every console answered if an interrupt comes late? | no: the process it hits instead stays in `lista_ready` for good |
| `arranque` | In whatever order the programs are started, do the handshakes end, between the right ones? Is a console that came early attended? | yes |
| `clock` | Do the loops of the clocks end, and with the decisions of `Clock`? | yes |
| `paginacion_marcos` | With two threads on one bitmap, are frames exclusive, accounted for and within the limit? Is what `hilo_cpu` found out still so when it uses it (the inductive invariant of the proofs)? Is swap up to date? Do accesses end? | yes |
| `paginacion_tlb` | Is the TLB right, the hand in range, the memory a plain one? | yes, with CLOCK-M and at most two entries |
| `paginacion_obsoleta` | The same TLB with three entries? | no: of three entries with one frame only the oldest counts as obsolete |
| `paginacion_clock` | The same hand with CLOCK? | no: the loop breaks before the wrap, and the next `list_get` gives NULL |

The four that say no are the disagreements recorded in `PROJECT.json`, each with
the line of the code and the comment or script it contradicts.

**Bounds.** *Kernel*: three processes and two places make the third one wait for a
place, the only way in which a process that comes back from suspension competes
with a new one; one I/O each is enough for every path of every thread, and the
suspension run gives two, so that a cancelled suspensor of the first block lives on
during the second. `Suspendibles` are the processes whose I/O may outlast
`TIEMPO_MAXIMO_BLOQUEADO`; the others never wake their suspensor, as when the script
asks for short I/O. *Preemption*: two
processes with two places are one in the CPU and one that may take it over, again and
again, since an executing process may be preempted before any of its instructions; one
of them (`ConIO`) does I/O once, so that a system call that leaves the process alive
meets an interrupt, and the other ends, so that the process it makes room for does. Nobody
is suspended there: the suspensors are those of the FIFO runs. Three larger instances
were explored apart, for every property but liveness, and agree: both processes with I/O
(611 801 states, up to symmetry), one that may be suspended (273 828), and three
processes without I/O (98 259, liveness included). *Start*: two consoles are enough for a queue of them; the rest has no size.
*Clock*: up to four present pages, as `MARCOS_POR_PROCESO` in
most of `memoria/*.sh`. *Paging*: two frames with a process of two pages and one of
one, limited to one frame each, make both threads change the bitmap at once and
leave it full; three pages in two frames behind two TLB entries make a page come
back to another frame, and a frame be reused by a third page while the TLB still
has its first one. `paginacion_marcos` has one value to write and `paginacion_tlb`
two, so that an old value differs from the new one and from garbage. The first
explores two of the three values a fresh `bit_modificacion` may have, the second
the three. The frames are always enough for every process: so they are in the
repository's scripts (for instance `memoria/script4_veralgoritmo.sh` with 2048 / 256
= 8 frames, 3 per process and a degree of 2). With fewer, a process without frames
stays in `clock_mejorado` for ever. Two TLB entries are the value in
`cpu/script6.sh`, and `cpu/script4.sh` has one; the other scripts have four, which
`paginacion_obsoleta` speaks of.

**Fairness.** Weak, per thread: each is an operating system thread that goes on
when it can, both `usleep` end, and memory answers. No fairness is asked of the
consoles (they may never connect) or of the programs: in `KernelFIFO` the CPU goes on,
and the number of I/O is bounded by `MaxIO`, so a program ends; in `KernelSRT`
fairness is strong for the I/O or EXIT of each process, since a program is finite: one
that is in the CPU again and again, however often it is preempted, comes to that
instruction (each time it executes at least one before the check); in `Arranque` a
program that was started goes on, and nobody has to start one; in `Paginacion` only
`hilo_cpu` and the reception of its answer are fair, and `hilo_kernel`, the kernel and
the program need not be.

**Deadlock** is not checked where the system may stop: every process has ended, or
the model has stopped at `caido`, `lista_rota`, `doble_envio` or `indefinido`. What
must go on is stated as liveness.

## 4. Proofs

All with TLAPS, and for every value of the constants: the assumptions are those that
the modules declare, and where a theorem has a hypothesis it is named here.

| proofs in | of | what |
|---|---|---|
| `Kernel_proofs` | `Kernel` | what each step of its threads does to the types, the accounts, the places and the suspensors, whatever schedules them |
| `KernelFIFO_proofs` | `KernelFIFO` | types; the accounts of the semaphores; where each process is |
| `KernelFIFOMemoria_proofs` | | the suspensors, the socket to memory, what memory has; the inductive invariant; the refinement of `CicloDeVida` |
| `KernelSRT_proofs` | `KernelSRT` | types, accounts and places under preemption; who is executing and whom an interrupt hits; the suspensors; the refinement of `CicloDeVida` with preemption |
| `Paginacion_proofs` | `Paginacion` | types; frames, bitmap, limit; the hand of the clock |
| `PaginacionDatos_proofs` | | the TLB, swap, the refinement of `MemoriaPlana` |
| `ClockPasoAPaso_proofs` | `ClockPasoAPaso` | the loops of the clocks |
| `Arranque_proofs` | `Arranque` | the start |

### The kernel under FIFO

For every set of processes (not only a finite one), every degree, every `MaxIO` and every
choice of `Suspendibles`. The only assumptions are those of `Kernel`: `Suspendibles` are
processes, the degree is a positive number, `MaxIO` is a number, `NULO` is neither a
process nor a PCB. What is proved are all the invariants that the FIFO runs check and the
refinement; only the two liveness properties are not.

`Inductiva`, which `kernel_fifo` checks too, is a conjunction of five, each of which needs
those before it (`SiempreInductiva`):

- `Cuentas` (`CuentasCorrectas`), the semaphores. That no `queue_pop` finds its queue
  empty needs, of each queue, that its semaphore plus the posts still to come, less the
  waits already passed, is its length (`CuentaNew`, `CuentaReady`, `CuentaBlocked`), and
  that the long term scheduler, having chosen a queue, finds it filled (`HayParaSacar`):
  that choice is made before the pop, and it is right because nobody else takes from
  those queues, even when a process that has just come to suspended-ready is overtaken
  by a new one. `CuentaBlocked` holds until the list breaks, and `UnaSolaRotura` says
  that a second push on a broken list does not complete. From it `SoloCaePorLaCarrera`,
  `CPUExclusiva` and `GradoSiempreRespetado`. The proof goes thread by thread: for each
  action, the counters that it moves and, for the rest, that what they count did not
  change.
- `Ubicados` (`SiempreUbicados`), the places. There are ten, the queues, the sockets and
  the hands of the threads, and a process is in one of them once. The proof rests on the
  fact that every step takes one PCB from one place to another (`Muda`), or none; two
  steps bring one in or take one out. What makes it more than that is the race on
  `cola_blocked`: the PCB that a broken push loses is in no place (`Extraviado`), there
  is at most one, and until its suspensor is created the process just blocked is the last
  one of the queue. From it `NadieSePierdeNiDuplica`.
- `UnPedidoPorVez`, the socket to memory. Whoever is between its request and its answer
  has `esperando_respuesta_memoria`, nobody else is, and the two queues of the socket
  hold its one message, in one direction or the other. From it `CadaRespuestaASuDuenio`.
- `Suspensores`. A suspensor is created once for each block and not before; `suspendiendo`
  is held by one; and a suspensor that nobody has cancelled is that of a block that goes
  on (`SuspensorAlDia`). That last one is why a suspensor that wakes up late does no harm:
  `hilo_io` cancels before it lets the process go, and under the semaphore. From it
  `SoloSeSuspendeLoBloqueado`.
- `Memorias`, what memory has of a process in each place: no table, its table, or no
  frames. From it `LaTablaEsLaPropia` and `SuspendidoSinMarcos`.

`ResidentesSiempreAcotados` is a count. A process with frames is in a place that is
counted in the degree, or is the one being admitted, the one that the race lost, or the one
that is ending: that is the one that may be over. Each of these sets is bounded by what
`LugaresOcupados` counts of it, and the sums by `GradoRespetado`.

`ElKernelImplementaElCiclo` is the refinement. `EstadoEn` gives the state of a process
from its place alone, and `LosEstados` shows that this is what the mapping `Estado`
computes. A step that moves one PCB (`UnoSeMuda`) changes the state of that process only,
so each action is one transition of the life cycle or none. `Admitir` is the one with a
guard on all the processes: that there are less than the degree of them admitted is again
the count (`HayLugarParaAdmitir`); `Ejecutar` needs that the CPU and the path of the
system calls are free, which is `UnSoloProcesoEnCPU`.

### The kernel with preemption

From the same assumptions and `ConIOAssumption` (`ConIO` are processes). What is proved are
all the invariants that `kernel_srt` checks, `DesalojaAlQueDebe` and the refinement; only
`TodosFinalizan`, liveness, is not. `Inductiva`, which the run checks too, is a conjunction of
four (`SiempreInductiva`):

- `Cuentas` (`CuentasCorrectas`). Those of new, suspended-ready and blocked are the ones of
  FIFO, and so are their proofs: `Kernel_proofs` says of each step of `DelKernel` what it
  does to them, without naming a scheduler. `CuentaReady` is not there, because it is false:
  `esperar_syscall` posts `procesos_en_ready` with nothing in the list. What replaces it is
  `HayParaElegir`, that a scheduler that has found somebody in `lista_ready` still does when
  it removes: nobody else takes from the list, so it only grows. From it
  `SoloCaePorLaCarrera`. For the degree, the PCB the scheduler has removed and not sent
  (`LugarCp`) and the one in the CPU (`LugarCpu`) are places as well; the second stops being one
  when the system call is sent, not when the executer drops its copy, which is what `Banderas`
  keeps track of. From it `GradoSiempreRespetado`.
- `Ubicados` (`SiempreUbicados`), the places, now with the hands of the scheduler and of the
  executer. The steps of `Kernel` move a PCB between its own places as under FIFO; those of
  the preemption are six moves more, and `doble_envio` is the only step after which a PCB is
  in two places, which is why everything is said until then. From it
  `NadieSePierdeNiDuplica`. `ALoSumoUnExtraviado` says more than that property: besides
  those in a place, only one process may be without an answer, the one that the race lost.
- `Ejecucion` (`EjecucionCorrecta`), what scheduler, `esperar_syscall`, executer and the
  thread `interrupt` know of each other while `anomalias` is empty. One process at most is
  between its dispatch and the end of its system call (`EnCamino`), although no semaphore
  says so: the scheduler sends one only when `PCB_EJECUCION` was empty, or when the preempted
  one is back. One interrupt at most is under way (`Pendiente`), and then the scheduler is
  in `"esperar_desalojo"` and the process it named is still in the CPU. That the executer resets
  `interrupcion` after posting `nada_ejecutando` does no harm by itself: the DESALOJO it has
  sent must be received before the next process is sent, but not before the flag is reset, and
  a flag being reset (`limpiando`) is not counted as pending. From it `EjecucionSiempreFiel`,
  and `SoloDesalojaAlQueDebe`, an action property: the interrupt that the executer acts upon
  is the one it was sent. `Ejecucion` holds even if the CPU sends a PCB back twice, the
  last step of the model: then the scheduler is waiting.
- `Suspensores` (`SiempreSuspensores`). `Exclusion`, `EstaSuspendidoAlDia` and `Edades` are in
  `Kernel`, with the lemmas about them, and are those of FIFO. The suspensor of a block is
  created when the process may already be in I/O, or back in ready and executing; what makes
  the creation right is that it has not been blocked again (`SuspensorPorCrear`), as
  `esperar_syscall` itself is the one that would block it.

`ElKernelImplementaElCicloConDesalojo` is the refinement: until one of the `anomalias` or a
`doble_envio`, each step is a transition of the life cycle, `Desalojar` (from exec back to
ready) included, or none. The path is that of FIFO: the state of each process follows from
its place (`EstadoPorLugar`), as long as each is in one (`Situados`), so a step that moves one
PCB changes one state. Three transitions need more. `Admitir` is guarded by the degree:
the processes admitted are counted by `LugaresOcupados`, those on the path of the CPU as
one because `EnCamino` is at most one, but for the one that the race on `cola_blocked` lost
(`HayLugarParaAdmitir`). `Ejecutar` is guarded by the CPU being free, which `EjecucionSana`
gives: the scheduler sends when nobody is on that path, though it writes `PCB_EJECUCION`
only afterwards. `Desbloquear` needs `EstaSuspendidoAlDia`: `hilo_io` takes a process to
suspended-ready only if its suspension is complete, and to ready only if there is none.

`anomalias` may not be dropped: each of its three values has a run of the program after which
`EjecucionFiel` fails (section 2).

### Paging

For every set of processes, every number of pages, frames and entries, both clocks, both
policies of the TLB and any contents of fresh memory.

- `TipoCorrecto`, and `HilosSeparados`: `Spec => []Inductiva`; from it
  `UnaPaginaPorMarco`, `BitmapExacto`, `CupoDeMarcos`. That frames are exclusive is not
  inductive: `cargar_a_memoria` chooses a frame in one step and fills it in another, with
  `hilo_kernel` in between. `Turnos` says that the two threads never work on one
  process, and `Vigente` that what `hilo_cpu` has found out is still so when it is used:
  the page still absent, the frame still free or still that of its victim. The
  run `paginacion_marcos` checks `Inductiva`. That the list of present pages has one for
  every place, sorted by frame, is proved apart, by cardinality: the places are an
  injection from a finite set into one of its own size.
- `TLBChicaFiel`: with `ENTRADAS_TLB <= 2`, `Spec => [](TLBFiel /\ MarcoVigente)`, so the
  CPU never uses a frame its page has left (`MarcoSiempreVigente`). An entry whose page
  has lost its frame is not removed: `marco_obsoleto` recognises it, as the older of the
  entries with one frame. `TLBFiel`, that every entry is right or another of the same
  frame is younger in both orders, is kept because, with two entries, the one not being
  replaced is the other. Two is the limit: the run `paginacion_obsoleta` has the
  counterexample with three. `paginacion_tlb` checks `TLBFiel`.
- `SwapFielSiVigente`, `PlanaSiVigente`: for a TLB of **any** size, as long as
  `[]MarcoVigente`, swap is up to date and each program sees a plain memory. So the
  stale frame is the only thing that can go wrong. With two entries or less
  the hypothesis is a theorem, and `SwapSiempreFiel` and `ImplementaPlana` have none.
  The refinement maps a page to its value wherever it is, in a frame or in swap;
  a load, an eviction and a suspension move it, and do not change it because a victim
  whose bit is not set is the same in swap, and one whose bit is set has been written there
  by the time its frame is taken (`VictimaGuardada`).
- `SinCaidaSiHayMarcos`: with CLOCK-M, `[]HayMarcos => []SinCaida`, where `HayMarcos` says
  that memory has `MARCOS_POR_PROCESO` frames for each process that has any and for the
  one in the CPU. It makes sure that a process that finds no free frame has a page to give
  up, as the frames in use are at most those of the others; and the hand stays below
  `MARCOS_POR_PROCESO` because `clock_mejorado` wraps it. `SinCaidaConMemoria` is the
  case in which there are enough for all processes at once, as in the scripts, but for
  the degree. CLOCK is left out since it is false there (`paginacion_clock`).
- `UnaSolaDecision`: `Spec => []Coincide` of `ClockPasoAPaso`, for lists of any length:
  when a loop of `hilo_cpu.c` ends, it has chosen the victim, cleared the bits and
  left the hand that `Clock` gives, which is what makes the one step of `Memoria` for it
  right. The invariant, `Vueltas`, says what the hand has passed and cleared in each round:
  `clock_comun` may go once round the list and one page further, `clock_mejorado` once
  round each of its loops, the first one twice, and the fourth round ends at its first page.
  The run `clock` checks
  `Coincide` for up to four pages, and that the loops end, which is liveness and is not proved.

### The start

`Arranque_proofs` proves, for every set of consoles and with no assumption:

- `TiposCorrectos`: `Spec => []TypeOK`; no client has two answers to read.
- `UnSaludoPorVez`: `Spec => []Inductiva`.
- `NingunoTermina`: `Spec => []NadieTermina`: in whatever order they are started, none
  of the three programs gives up on the others.

`NadieTermina` is not inductive: that memory's first connection is the kernel's, and
that memory listens when the CPU makes its one attempt, follow from how far the kernel
must be for the CPU to get there. `Posiciones` says that of each pair of programs,
`Escuchan` says who listens, and `EnSockets` gives the content of every queue and of
every answer as a function of the three positions: at most the handshake under way.
`Inductiva` is their conjunction; `arranque` checks it too. The proof takes each action
in turn; that the queues keep their type, with any number of consoles in that of the
kernel, is proved apart, from what a `send` and an `accept` do to a sequence.

### Only model-checked

- `Paginacion`'s `SinCaida` when frames are short, which is not claimed.
- Liveness (`TodosFinalizan`, `AccesosTerminan`, `SiempreEncuentra`, the start and the
  preemptive kernel): it rests on fairness and `ENABLED`, out of the prover's reach.

## 5. Not modelled

- Burst estimates and clocks: any choice in `KernelSRT`.
- Two disagreements of the code with its own comments are in the model but have no run:
  `mx_cola_blocked` (semaforos.h:3-6) is never taken, which is what `cola_rota` comes
  from, and a new process can be admitted over one that is in suspended-ready
  (planificadorDeLargoPlazo.c:24 against the comment of its header), because the size is
  read before the pop and without the mutex.
- Sockets deliver whole messages: `recv` without `MSG_WAITALL` may not. Crashes of a
  module: the others do not handle them.
- The bytes of a page, the operands of the instructions, the logs.
- The values of the configuration files, and the reading of the console's file.

## 6. Plan

| step | module | of | state |
|---|---|---|---|
| 1 | `Kernel` | every kernel thread but the scheduling algorithm | done |
| 2 | `CicloDeVida` | what the kernel promises | done |
| 3 | `KernelFIFO` | 1 with the FIFO scheduler and a CPU, refines 2 | done |
| 4 | `KernelFIFO_proofs` | its invariants for all constants | done |
| 5 | `Clock`, `ClockPasoAPaso`, `Memoria`, `TLB`, `Paginacion`, `MemoriaPlana` | paging, refines a plain memory | done |
| 6 | `KernelSRT` | `Kernel` with the preemptive scheduler, the interrupt and the CPU that checks it, refines 2 with preemption | done |
| 6b | `Arranque`, `Arranque_proofs` | the start of the four programs, and that none gives up, for all consoles | done |
| 7 | `Paginacion_proofs`, `PaginacionDatos_proofs` | frames, bitmap, limit, hand; TLB, swap and the refinement of a plain memory, for all constants | done |
| 8 | `Kernel_proofs`, `KernelFIFO_proofs`, `KernelFIFOMemoria_proofs` | every invariant of `KernelFIFO`, and the refinement of `CicloDeVida` | done |
| 8b | `ClockPasoAPaso_proofs` | the loops of the clocks, for lists of any length | done |
| 9 | `KernelSRT_proofs` | every invariant of `KernelSRT`, whom an interrupt preempts, and the refinement of `CicloDeVida` with preemption | done |
| 10 | memory with fewer frames than processes need | what `hilo_cpu` does with a process without frames | then |
