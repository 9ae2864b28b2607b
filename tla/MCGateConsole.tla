---------------------------- MODULE MCGateConsole ----------------------------
(* GateConsole for TLC: threads are interchangeable. *)
EXTENDS GateConsole, TLC

AnyThread == Permutations(Thread)
=============================================================================
