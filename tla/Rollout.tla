------------------------------- MODULE Rollout -------------------------------
(***************************************************************************)
(* The roll-out of environments: wizards lead operators through the steps  *)
(* (Wizard.tla), and once an environment is deployed and its               *)
(* post-validation decision is taken, ops-check watches it (OpsCheck.tla). *)
(* The check reads the configuration as the last transform left it.        *)
(***************************************************************************)
EXTENDS Wizard, OpsCheck

vars == <<wizardVars, opsVars>>

TypeOK == WizardTypeOK /\ OpsTypeOK

Init == WizardInit /\ OpsInit

\* Bound: a check may run at any time, but wizards and checks write no file of
\* each other's, so the checks are taken after the sessions.
Quiet == sessions = MaxSessions /\ \A o \in Operator : pc[o] = "off"

\* cmd_ops_check: without a configuration there is an error and no report.
Watch ==
    /\ Quiet
    /\ \E e \in Env :
          /\ "deploy" \in ran[e] /\ "config" \in disk[e]
          /\ \E r \in Reading \cup {Gone}, l \in Load, found \in SUBSET Member,
                named \in IF "discovery" \in disk[e] THEN SUBSET Member ELSE {{}},
                answer \in {"same", "other", "unread"} :
                OpsCheck(r, l, named, found, answer)
    /\ UNCHANGED wizardVars

Next == (WizardNext /\ UNCHANGED opsVars) \/ Watch

Spec == Init /\ [][Next]_vars
=============================================================================
