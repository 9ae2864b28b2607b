----------------------------- MODULE PhaseMutex -----------------------------
(***************************************************************************)
(* What core/lock.py promises: at most one process is inside a locked      *)
(* phase of an environment.  The promise is kept for as long as it has     *)
(* not been forfeited; PhaseLock.tla shows what forfeits it.               *)
(***************************************************************************)
EXTENDS FiniteSets

CONSTANT Proc        \* processes that may run the phase

VARIABLES
    inPhase,         \* processes executing the locked phase
    promised         \* FALSE once the exclusion promise was forfeited

vars == <<inPhase, promised>>

Init == inPhase = {} /\ promised = TRUE

\* lock.acquire() returned: nobody else may be inside while the promise holds.
Enter(p) ==
    /\ p \notin inPhase
    /\ promised => inPhase = {}
    /\ inPhase' = inPhase \cup {p}
    /\ UNCHANGED promised

\* lock.release(), or the death of the process.
Leave(p) ==
    /\ p \in inPhase
    /\ inPhase' = inPhase \ {p}
    /\ UNCHANGED promised

Forfeit ==
    /\ promised' = FALSE
    /\ UNCHANGED inPhase

Next == \/ \E p \in Proc : Enter(p) \/ Leave(p)
        \/ Forfeit

Spec == Init /\ [][Next]_vars
=============================================================================
