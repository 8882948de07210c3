---------------------------- MODULE CicloDeVida ----------------------------
(***************************************************************************)
(* What the kernel promises to its processes: the seven-state life cycle,  *)
(* one CPU, and a degree of multiprogramming that no admission exceeds.    *)
(* A suspended-blocked process keeps its place until its I/O ends, as      *)
(* hilo_io does.                                                           *)
(***************************************************************************)
EXTENDS Naturals, FiniteSets

CONSTANTS Procesos, GRADO_MULTIPROGRAMACION

VARIABLE estado

EnMemoria == {p \in Procesos :
                estado[p] \in {"ready", "exec", "blocked", "suspended_blocked"}}

Pasar(p, desde, hasta) == estado[p] = desde /\ estado' = [estado EXCEPT ![p] = hasta]

Init == estado = [p \in Procesos |-> "ausente"]

Llegar(p)      == Pasar(p, "ausente", "new")
Admitir(p)     == /\ Cardinality(EnMemoria) < GRADO_MULTIPROGRAMACION
                  /\ Pasar(p, "new", "ready") \/ Pasar(p, "suspended_ready", "ready")
Ejecutar(p)    == /\ \A q \in Procesos : estado[q] # "exec"
                  /\ Pasar(p, "ready", "exec")
Bloquear(p)    == Pasar(p, "exec", "blocked")
Suspender(p)   == Pasar(p, "blocked", "suspended_blocked")
Desbloquear(p) == \/ Pasar(p, "blocked", "ready")
                  \/ Pasar(p, "suspended_blocked", "suspended_ready")
Terminar(p)    == Pasar(p, "exec", "exit")

Next == \E p \in Procesos :
  \/ Llegar(p) \/ Admitir(p) \/ Ejecutar(p) \/ Bloquear(p)
  \/ Suspender(p) \/ Desbloquear(p) \/ Terminar(p)

Spec == Init /\ [][Next]_estado

\* With preemption: the CPU takes the executing process back to ready.
Desalojar(p) == Pasar(p, "exec", "ready")

NextConDesalojo == Next \/ \E p \in Procesos : Desalojar(p)
=============================================================================
