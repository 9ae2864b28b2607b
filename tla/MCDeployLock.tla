---------------------------- MODULE MCDeployLock ----------------------------
(* Two operators; a pool and a virtual server that needs it; an output with *)
(* both, and one with the server alone.                                    *)
EXTENDS DeployLock, TLC

MCSection == "pool" :> 1 @@ "vs" :> 2
MCNeeds   == "pool" :> {} @@ "vs" :> {"pool"}
MCContent == "v1" :> {"pool", "vs"} @@ "v2" :> {"vs"}

Symmetry == Permutations(Op)
=============================================================================
