------------------------------ MODULE GateBoard ------------------------------
(***************************************************************************)
(* What docs/DECISION-PAGE-REFERENCE.md lets an operator rely on: a board  *)
(* of gates, each opened and closed by its own page and nothing else; a    *)
(* deploy signature that carries two names; a re-commit that takes back    *)
(* everything downstream of the scope; and kept copies of the board that   *)
(* can be brought back.  The order of the gates is not part of it.         *)
(***************************************************************************)
CONSTANTS Gate, User, Approver, NoUser

VARIABLES
    gate,           \* [Gate -> BOOLEAN], TRUE: resolved
    deploy,         \* the deploy approval
    locked,         \* the manifest's status is "locked"
    kept,           \* boards kept in snapshots
    promised        \* FALSE once requests overlapped or a write was cut short

vars == <<gate, deploy, locked, kept, promised>>

Unsigned == [resolved |-> FALSE, ready |-> FALSE, approver |-> NoUser, signer |-> NoUser]

Init ==
    /\ gate = [g \in Gate |-> FALSE]
    /\ deploy = Unsigned
    /\ locked = FALSE
    /\ kept = {}
    /\ promised = TRUE

Decide(g, open) ==
    /\ gate' = [gate EXCEPT ![g] = open]
    /\ UNCHANGED <<deploy, locked, kept, promised>>

\* A signature, by an approver who names somebody else.
Sign(u, a) ==
    /\ u \in Approver /\ a # u
    /\ deploy' = [resolved |-> TRUE, ready |-> TRUE, approver |-> a, signer |-> u]
    /\ UNCHANGED <<gate, locked, kept, promised>>

\* Parameters saved without a signature take an earlier signature back.
Draft(u) ==
    /\ deploy'.signer = u /\ ~deploy'.resolved
    /\ UNCHANGED <<gate, locked, kept, promised>>

\* The shell writes one field, and may declare the whole approval resolved.
Shell ==
    /\ deploy'.signer = deploy.signer
    /\ deploy.resolved => deploy'.resolved
    /\ UNCHANGED <<gate, locked, kept, promised>>

Lock == locked' = TRUE /\ UNCHANGED <<gate, deploy, kept, promised>>

\* The scope is committed again.
Recommit ==
    /\ gate' = [g \in Gate |-> g \in {"scope", "vdom"} /\ gate[g]]
    /\ deploy' = Unsigned
    /\ UNCHANGED <<locked, kept, promised>>

Keep ==
    /\ kept' = kept \cup {[gate |-> gate, deploy |-> deploy, locked |-> locked]}
    /\ UNCHANGED <<gate, deploy, locked, promised>>

Restore ==
    /\ [gate |-> gate', deploy |-> deploy', locked |-> locked'] \in kept
    /\ UNCHANGED <<kept, promised>>

Forfeit == promised' = FALSE

Next ==
    \/ \E g \in Gate, open \in BOOLEAN : Decide(g, open)
    \/ \E u \in User, a \in User : Sign(u, a)
    \/ \E u \in User : Draft(u)
    \/ Shell \/ Lock \/ Recommit \/ Keep \/ Restore \/ Forfeit

Spec == Init /\ [][Next]_vars
=============================================================================
