------------------------------ MODULE MCRollout ------------------------------
(***************************************************************************)
(* Rollout for TLC: two operators, two environments, pools of four.        *)
(***************************************************************************)
EXTENDS Rollout, TLC

MCReading == {<<1, 4>>, <<2, 4>>, <<3, 4>>, <<4, 4>>}
Symmetry  == Permutations(Env) \cup Permutations(Operator)
=============================================================================
