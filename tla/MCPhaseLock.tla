---------------------------- MODULE MCPhaseLock ----------------------------
(* PhaseLock for TLC: see PhaseLock_safety.cfg, PhaseLock_exclusion.cfg.   *)
EXTENDS PhaseLock, TLC

\* The code treats all processes alike; sound for invariants only, so the run
\* that checks liveness does not use it.
AnyProcess == Permutations(Proc)
=============================================================================
