----------------------------- MODULE PhaseTable -----------------------------
(***************************************************************************)
(* What the phase section of the state ledger is read as by the gates and  *)
(* the dashboard: a table of phases in which a run changes the entry of    *)
(* its own phase only, from running to done or failed.  The promise is     *)
(* forfeited by what PipelineRun.tla names.                                *)
(***************************************************************************)
CONSTANT Phase

VARIABLES
    status,         \* [Phase -> {"pending", "running", "done", "failed"}]
    promised        \* FALSE once the table may no longer be trusted

vars == <<status, promised>>

Init ==
    /\ status = [ph \in Phase |-> "pending"]
    /\ promised = TRUE

Start(ph) ==
    /\ status' = [status EXCEPT ![ph] = "running"]
    /\ UNCHANGED promised

Finish(ph) ==
    /\ status[ph] = "running"
    /\ \E v \in {"done", "failed"} : status' = [status EXCEPT ![ph] = v]
    /\ UNCHANGED promised

\* The launcher overrules a run that reported success and then failed.
Overrule(ph) ==
    /\ status[ph] = "done"
    /\ status' = [status EXCEPT ![ph] = "failed"]
    /\ UNCHANGED promised

\* Without the promise anything may be read from the table.
Forfeit ==
    /\ promised' = FALSE
    /\ status' \in [Phase -> {"pending", "running", "done", "failed"}]

Next == \/ \E ph \in Phase : Start(ph) \/ Finish(ph) \/ Overrule(ph)
        \/ Forfeit

Spec == Init /\ [][Next]_vars
=============================================================================
