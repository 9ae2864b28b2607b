---------------------------- MODULE MCDeployment ----------------------------
(***************************************************************************)
(* Two operators; a pool, a member and a virtual server of it, and a       *)
(* second virtual server in another VDOM; two outputs of transform.        *)
(***************************************************************************)
EXTENDS Deployment, TLC

MCSection == "pool" :> 1 @@ "member" :> 2 @@ "vs" :> 3 @@ "far" :> 3
MCNeeds   == "pool" :> {} @@ "member" :> {"pool"} @@ "vs" :> {"pool", "member"}
             @@ "far" :> {"pool"}
MCContent == "v1" :> {"pool", "member", "vs"} @@ "v2" :> {"pool", "far"}

Symmetry == Permutations(Op)
=============================================================================
