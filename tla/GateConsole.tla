----------------------------- MODULE GateConsole -----------------------------
(***************************************************************************)
(* One environment's decision manifest (core/decision_manifest.py) under   *)
(* the decision pages of the web console (ui/routes.py) and the decisions  *)
(* command of migrate.py.                                                  *)
(*                                                                         *)
(* A request loads the whole manifest, changes its copy and writes the     *)
(* whole copy back, once or several times; requests run in threads of the  *)
(* console, or in processes of their own, and nothing orders them.  What a *)
(* request does after its load is a list of instructions, todo, which the  *)
(* actions after the handlers carry out one write at a time.               *)
(*                                                                         *)
(* Of a manifest the model keeps which gates are resolved, the deploy      *)
(* approval, the lock and the audit list (as a set, one entry a request).  *)
(* "ready" stands for mode = execute with every box of the deploy          *)
(* checklist ticked and every field filled in; whom it names is kept.      *)
(***************************************************************************)
EXTENDS Naturals, Sequences

CONSTANTS
    Thread,         \* requests that can be in progress together
    User,
    Approver,       \* users with the approver or admin role
    NoUser,
    MaxRequests     \* bound on requests and shell commands together

ASSUME ApproversAreUsers == Approver \subseteq User /\ NoUser \notin User
ASSUME RequestsAreBounded == MaxRequests \in Nat

Phase == {"analyse", "transform", "deploy"}     \* those the console can run

\* vdom is vdom_mapping.resolved.
Gate == {"scope", "triage", "transform", "post", "vdom"}

VARIABLES
    disk,           \* decision-manifest.json
    torn,           \* TRUE: a writer died inside write_text, nothing parses
    log,            \* decisions.jsonl
    snaps,          \* manifest.v*.json
    committed,      \* discovery/<env>.json exists
    todo, copy, id, \* per thread: what is left, its manifest, its request
    requests,
    launched,       \* phases run_pipeline_phase was let to start
    opened,         \* history: gates some request opened
    bypassed,       \* history: the shell has written a deploy approval
    disturbed       \* history: requests overlapped, or a write was cut short

vars == <<disk, torn, log, snaps, committed, todo, copy, id, requests,
          launched, opened, bypassed, disturbed>>
files == <<log, snaps, committed>>
history == <<launched, opened, bypassed>>

Unsigned == [resolved |-> FALSE, ready |-> FALSE, approver |-> NoUser, signer |-> NoUser]

\* default_manifest()
Default == [gate |-> [g \in Gate |-> FALSE], deploy |-> Unsigned,
            locked |-> FALSE, audit |-> {}]

Manifest ==
    [gate : [Gate -> BOOLEAN],
     deploy : [resolved : BOOLEAN, ready : BOOLEAN,
               approver : User \cup {NoUser}, signer : User \cup {NoUser}],
     locked : BOOLEAN, audit : SUBSET (1..MaxRequests)]

TypeOK ==
    /\ disk \in Manifest
    /\ copy \in [Thread -> Manifest]
    /\ snaps \subseteq Manifest
    /\ torn \in BOOLEAN /\ committed \in BOOLEAN
    /\ log \subseteq 1..requests
    /\ requests \in 0..MaxRequests
    /\ id \in [Thread -> 0..requests]
    /\ launched \subseteq Phase
    /\ opened \subseteq Gate \cup {"deploy"}
    /\ bypassed \in BOOLEAN /\ disturbed \in BOOLEAN

Init ==
    /\ disk = Default /\ torn = FALSE
    /\ log = {} /\ snaps = {} /\ committed = FALSE
    /\ todo = [t \in Thread |-> <<>>]
    /\ copy = [t \in Thread |-> Default]
    /\ id = [t \in Thread |-> 0]
    /\ requests = 0
    /\ launched = {} /\ opened = {}
    /\ bypassed = FALSE /\ disturbed = FALSE
-----------------------------------------------------------------------------
\* Changes to a copy.
Nothing         == [to |-> "nothing"]
SetGate(g, v)   == [to |-> "gate", gate |-> g, value |-> v]
SetDeploy(d)    == [to |-> "deploy", deploy |-> d]
ShellDeploy(d)  == [to |-> "shell", deploy |-> d]
SetLocked       == [to |-> "lock"]
Reset           == [to |-> "reset"]

\* Fault of Apply: a re-commit resets the deploy approval to fewer fields.
ApplyDropsFields(m, c) ==
    CASE c.to = "gate"   -> [m EXCEPT !.gate[c.gate] = c.value]
      [] c.to \in {"deploy", "shell"} -> [m EXCEPT !.deploy = c.deploy]
      [] c.to = "lock"   -> [m EXCEPT !.locked = TRUE]
      [] c.to = "reset"  -> [m EXCEPT !.deploy = [resolved |-> FALSE]]
      [] OTHER           -> m

Apply(m, c) ==
    CASE c.to = "gate"   -> [m EXCEPT !.gate[c.gate] = c.value]
      [] c.to \in {"deploy", "shell"} -> [m EXCEPT !.deploy = c.deploy]
      [] c.to = "lock"   -> [m EXCEPT !.locked = TRUE]
      [] c.to = "reset"  -> [gate |-> [g \in Gate |-> g \in {"scope", "vdom"} /\ m.gate[g]],
                             deploy |-> Unsigned, locked |-> m.locked, audit |-> m.audit]
      [] OTHER           -> m

\* What a change opens.
Opens(c) ==
    IF c.to = "gate" /\ c.value THEN {c.gate}
    ELSE IF c.to \in {"deploy", "shell"} /\ c.deploy.resolved THEN {"deploy"}
    ELSE {}

\* Instructions.
Audit(c)    == [op |-> "audit", change |-> c]
Save(c)     == [op |-> "save", change |-> c]
Launch(ph)  == [op |-> "launch", phase |-> ph]
Commit      == [op |-> "commit"]
Discover    == [op |-> "discover"]
Copy        == [op |-> "copy"]
Reload      == [op |-> "reload"]

Due(t, op) == todo[t] # <<>> /\ Head(todo[t]).op = op
AboutToSave(t) == Due(t, "save") \/ Due(t, "audit")
Busy(t) == todo[t] # <<>>

\* One instruction done, m being the copy now; after the last one the copy is
\* gone.
Continue(t, m) ==
    /\ todo' = [todo EXCEPT ![t] = Tail(@)]
    /\ copy' = [copy EXCEPT ![t] = IF Len(todo[t]) = 1 THEN Default ELSE m]
    /\ id' = [id EXCEPT ![t] = IF Len(todo[t]) = 1 THEN 0 ELSE @]

\* load(): a reader that comes in after a writer truncated the file, or finds
\* it torn, parses nothing and saves the defaults.
Load(t, l) ==
    \/ ~torn /\ l = disk /\ UNCHANGED <<disk, torn>>
    \/ /\ torn \/ \E b \in Thread \ {t} : AboutToSave(b)
       /\ l = Default
       /\ disk' = Default /\ torn' = FALSE

Loadable == {disk, Default}

Ready(t) == ~Busy(t) /\ requests < MaxRequests

\* A request begins: its number, its copy and what it will do with it.
Begin(t, l, steps) ==
    /\ requests' = requests + 1
    /\ id' = [id EXCEPT ![t] = requests + 1]
    /\ copy' = [copy EXCEPT ![t] = l]
    /\ todo' = [todo EXCEPT ![t] = steps]
    /\ disturbed' = (disturbed \/ \E b \in Thread : Busy(b))
    /\ UNCHANGED <<files, history>>

Request(t, steps) == \E l \in Loadable : Load(t, l) /\ Begin(t, l, steps)

\* Decisions on single groups in the same form are audited, and so saved,
\* before the gate itself is touched.
Drafts == {<<>>, <<Audit(Nothing)>>}
-----------------------------------------------------------------------------
\* The handlers.  Any page loads the manifest, and nothing more when it is
\* only shown or the form is refused; that matters if the load saves defaults.
View(t) ==
    /\ ~Busy(t)
    /\ Load(t, Default) /\ disk # Default
    /\ disturbed' = (disturbed \/ \E b \in Thread : Busy(b))
    /\ UNCHANGED <<files, todo, copy, id, requests, history>>

\* import-scope: the flag is saved before it is known whether the commit that
\* the flag stands for may go ahead.
ImportScope(t, commit, force) ==
    \E l \in Loadable :
        LET was_committed == l.gate["scope"] \/ committed IN
        /\ Load(t, l)
        /\ Begin(t, l, <<Save(SetGate("scope", commit)), Audit(Nothing)>>
                       \o IF commit /\ (was_committed => force) THEN <<Commit>> ELSE <<>>)

\* analysis-triage: resolving it starts the transform phase.
AnalysisTriage(t, resolve) ==
    \E draft \in Drafts :
        Request(t, draft \o IF resolve
            THEN <<Audit(SetGate("triage", TRUE)), Save(Nothing), Launch("transform")>>
            ELSE <<Save(SetGate("triage", FALSE))>>)

TransformApproval(t, resolve) ==
    \E draft \in Drafts :
        Request(t, draft \o IF resolve
            THEN <<Audit(SetGate("transform", TRUE)), Save(Nothing)>>
            ELSE <<Save(SetGate("transform", FALSE))>>)

PostValidation(t, resolve) ==
    Request(t, <<Audit(SetGate("post", resolve)), Save(Nothing)>>)

\* Pages that decide nothing about a gate: save-override and delete-override
\* audit, the pre-flight validation and the network strategies save, the vdom
\* strategies do both.
Edit(t) ==
    \E steps \in {<<Audit(Nothing)>>, <<Save(Nothing)>>, <<Save(Nothing), Audit(Nothing)>>} :
        Request(t, steps)

\* import_avi_config: new raw data is staged, which takes the scope back, and
\* the scope only.
StageImport(t) == Request(t, <<Save(SetGate("scope", FALSE))>>)

\* The scope page creating a sub-task: the page saves, create_subtask loads the
\* parent's manifest, commits the child's scope, and saves the parent's again.
CreateSubtask(t) == Request(t, <<Save(Nothing), Reload, Save(Nothing)>>)

\* Fault of DeployApproval: the approver may be the operator.
DeployApprovalAlone(t, u, sign, ready, a) ==
    /\ sign => u \in Approver
    /\ Request(t, <<
           Audit(SetDeploy([resolved |-> sign /\ ready,
                           ready |-> ready, approver |-> a, signer |-> u])),
           Save(Nothing)>>)

\* Fault of DeployApproval: saved parameters leave an earlier signature valid.
DeployApprovalSticky(t, u, sign, ready, a) ==
    \E l \in Loadable :
        /\ sign => u \in Approver
        /\ Load(t, l)
        /\ Begin(t, l, <<
               Audit(SetDeploy([resolved |-> l.deploy.resolved \/ (sign /\ a # u /\ ready),
                                ready |-> ready, approver |-> a, signer |-> u])),
               Save(Nothing)>>)

\* deploy-approval: user u submits the checklist, naming a as the approver.
DeployApproval(t, u, sign, ready, a) ==
    /\ sign => u \in Approver
    /\ Request(t, <<
           Audit(SetDeploy([resolved |-> sign /\ a # u /\ ready,
                           ready |-> ready, approver |-> a, signer |-> u])),
           Save(Nothing)>>)

\* run-phase: the manual trigger, which leaves all checks to run_pipeline_phase.
TriggerPhase(t, phase) ==
    /\ Begin(t, Default, <<Launch(phase)>>)
    /\ UNCHANGED <<disk, torn>>

ExecuteDeploy(t) ==
    \E l \in Loadable :
        /\ l.deploy.resolved /\ l.deploy.ready
        /\ Load(t, l)
        /\ Begin(t, l, <<Launch("deploy")>>)

CreateSnapshot(t) == Request(t, <<Save(Nothing), Copy, Audit(Nothing)>>)

\* copy2 truncates and writes, as a save does; then load and audit.
RestoreSnapshot(t, s) ==
    /\ Begin(t, s, <<Save(Nothing), Reload, Audit(Nothing)>>)
    /\ UNCHANGED <<disk, torn>>

\* migrate.py decisions raw-set and raw-confirm, set and lock.
ShellGate(t, g, v) ==
    /\ g = "scope" \/ v
    /\ Request(t, <<Audit(SetGate(g, v))>>)

\* One key a call, so "ready" changes with the last of several calls, here one
\* step; --resolve declares the approval resolved, whatever it holds.
ShellSetsDeploy(t, ready, a, resolve) ==
    \E l \in Loadable :
        LET d == [l.deploy EXCEPT !.ready = ready, !.approver = a,
                                  !.resolved = @ \/ resolve] IN
        /\ ready = l.deploy.ready \/ a = l.deploy.approver
        /\ Load(t, l)
        /\ Begin(t, l, <<Audit(ShellDeploy(d))>>)

ShellLocks(t) == Request(t, <<Audit(SetLocked)>>)

\* migrate.py commit-import-scope: the commit without the page around it.
ShellCommits(t) ==
    /\ Begin(t, Default, <<Commit>>)
    /\ UNCHANGED <<disk, torn>>

\* migrate.py discover and import-avi-json write the discovery file and know
\* nothing of the manifest.
ShellDiscovers ==
    /\ requests < MaxRequests /\ requests' = requests + 1
    /\ committed' = TRUE
    /\ UNCHANGED <<disk, torn, log, snaps, todo, copy, id, history, disturbed>>

Page(t) ==
    \/ Edit(t) \/ StageImport(t) \/ CreateSubtask(t)
    \/ ExecuteDeploy(t) \/ CreateSnapshot(t)
    \/ \E s \in snaps : RestoreSnapshot(t, s)
    \/ \E phase \in Phase : TriggerPhase(t, phase)
    \/ \E resolve \in BOOLEAN :
          AnalysisTriage(t, resolve) \/ TransformApproval(t, resolve) \/ PostValidation(t, resolve)
    \/ \E commit, force \in BOOLEAN : ImportScope(t, commit, force)
    \/ \E u, a \in User, sign, ready \in BOOLEAN : DeployApproval(t, u, sign, ready, a)

Shell(t) ==
    \/ ShellLocks(t) \/ ShellCommits(t)
    \/ \E g \in Gate \ {"vdom"}, v \in BOOLEAN : ShellGate(t, g, v)
    \/ \E a \in User, ready, resolve \in BOOLEAN : ShellSetsDeploy(t, ready, a, resolve)
-----------------------------------------------------------------------------
\* The due change is made to m, and save() writes the whole of it.
Write(t, m) ==
    LET c == Head(todo[t]).change IN
    /\ Continue(t, Apply(m, c))
    /\ disk' = Apply(m, c) /\ torn' = FALSE
    /\ opened' = opened \cup Opens(c)
    /\ bypassed' = (bypassed \/ c.to = "shell")

\* Fault of AppendAudit: the entry reaches the manifest only.
AppendAuditUnlogged(t) ==
    /\ Due(t, "audit")
    /\ Write(t, [copy[t] EXCEPT !.audit = @ \cup {id[t]}])
    /\ UNCHANGED <<files, requests, launched, disturbed>>

\* append_audit(): the line in decisions.jsonl, then the manifest.  Nobody
\* reads the log, so nothing but a death can tell the two apart (see Die).
AppendAudit(t) ==
    /\ Due(t, "audit")
    /\ log' = log \cup {id[t]}
    /\ Write(t, [copy[t] EXCEPT !.audit = @ \cup {id[t]}])
    /\ UNCHANGED <<snaps, committed, requests, launched, disturbed>>

SaveManifest(t) ==
    /\ Due(t, "save")
    /\ Write(t, copy[t])
    /\ UNCHANGED <<files, requests, launched, disturbed>>

\* ensure_phase_gate, as run_pipeline_phase calls it: without the ledger.
PhaseGate(m, phase) ==
    /\ ~m.locked
    /\ CASE phase = "analyse" -> m.gate["scope"] /\ m.gate["triage"]
         [] phase = "transform" -> m.gate["triage"] /\ m.gate["vdom"]
         [] phase = "deploy" -> /\ m.gate["transform"]
                                /\ m.deploy.resolved /\ m.deploy.ready
                                /\ m.deploy.approver # NoUser

\* Fault of RunPhase: the gate is not asked.
RunPhaseUngated(t) ==
    /\ Due(t, "launch")
    /\ \E l \in Loadable : Load(t, l)
    /\ launched' = launched \cup {Head(todo[t]).phase}
    /\ Continue(t, copy[t])
    /\ UNCHANGED <<files, requests, opened, bypassed, disturbed>>

\* run_pipeline_phase: its own load, and the gate.  What it starts is
\* PipelineRun.tla.
RunPhase(t) ==
    /\ Due(t, "launch")
    /\ \E l \in Loadable :
          /\ Load(t, l)
          /\ launched' = launched \cup {ph \in {Head(todo[t]).phase} : PhaseGate(l, ph)}
    /\ Continue(t, copy[t])
    /\ UNCHANGED <<files, requests, opened, bypassed, disturbed>>

\* commit_import_scope, as far as the manifest is concerned: a load of its
\* own, the gate, and the reset if a scope was committed before.
CommitScope(t) ==
    /\ Due(t, "commit")
    /\ \E l \in Loadable :
          /\ Load(t, l)
          /\ \/ /\ ~l.gate["scope"]
                /\ Continue(t, l)
             \/ /\ l.gate["scope"]
                /\ copy' = [copy EXCEPT ![t] = l]
                /\ todo' = [todo EXCEPT ![t] =
                      (IF committed THEN <<Audit(Reset)>> ELSE <<>>) \o <<Discover>>]
                /\ UNCHANGED id
    /\ UNCHANGED <<files, requests, history, disturbed>>

\* The discovery is written, unless the import of the candidate fails.
WriteDiscovery(t) ==
    /\ Due(t, "discover")
    /\ committed' \in {committed, TRUE}
    /\ Continue(t, copy[t])
    /\ UNCHANGED <<disk, torn, log, snaps, requests, history, disturbed>>

\* copy2 of the file into a snapshot: a file that does not parse is kept as it
\* is, and parses no better when it is restored.
CopySnapshot(t) ==
    /\ Due(t, "copy")
    /\ \E m \in Loadable :
          /\ m = disk \/ (torn \/ \E b \in Thread \ {t} : AboutToSave(b))
          /\ snaps' = snaps \cup {m}
    /\ Continue(t, copy[t])
    /\ UNCHANGED <<disk, torn, log, committed, requests, history, disturbed>>

ReloadManifest(t) ==
    /\ Due(t, "reload")
    /\ \E l \in Loadable : Load(t, l) /\ Continue(t, l)
    /\ UNCHANGED <<files, requests, history, disturbed>>

\* A request ends half way: an exception, or the death of its process (all of
\* the console's requests then end so, one after the other).  What it was about
\* to audit may have reached the log.
Die(t) ==
    /\ Busy(t)
    /\ todo' = [todo EXCEPT ![t] = <<>>]
    /\ copy' = [copy EXCEPT ![t] = Default]
    /\ id' = [id EXCEPT ![t] = 0]
    /\ \/ UNCHANGED log
       \/ Due(t, "audit") /\ log' = log \cup {id[t]}
    /\ \/ UNCHANGED <<torn, disturbed>>
       \/ AboutToSave(t) /\ torn' = TRUE /\ disturbed' = TRUE
    /\ UNCHANGED <<disk, snaps, committed, requests, history>>

Next ==
    \/ \E t \in Thread :
          \/ View(t)
          \/ Ready(t) /\ (Page(t) \/ Shell(t))
          \/ AppendAudit(t) \/ SaveManifest(t) \/ RunPhase(t) \/ CommitScope(t)
          \/ WriteDiscovery(t) \/ CopySnapshot(t) \/ ReloadManifest(t)
          \/ Die(t)
    \/ ShellDiscovers

Spec == Init /\ [][Next]_vars
-----------------------------------------------------------------------------
Countersigned(d) ==
    /\ d.ready
    /\ d.signer \in Approver
    /\ d.approver # NoUser /\ d.approver # d.signer

\* As long as nobody uses the shell for it, a deploy approval that counts as
\* resolved was signed by an approver who named somebody else, whatever copies
\* were written over each other, restored or lost.
FourEyes ==
    disk.deploy.resolved /\ ~bypassed => Countersigned(disk.deploy)

\* No race, crash or restored snapshot opens a gate that nobody opened, and no
\* phase starts without somebody having opened what its gate asks for.
GatesWereOpened ==
    /\ \A g \in Gate : disk.gate[g] => g \in opened
    /\ disk.deploy.resolved => "deploy" \in opened
    /\ "analyse" \in launched => {"scope", "triage"} \subseteq opened
    /\ "transform" \in launched => {"triage", "vdom"} \subseteq opened
    /\ "deploy" \in launched => {"transform", "deploy"} \subseteq opened

\* decisions.jsonl has every entry that any manifest on disk has: append_audit
\* writes the line before it saves.
LoggedFirst ==
    /\ disk.audit \subseteq log
    /\ \A s \in snaps : s.audit \subseteq log

\* As long as requests come one after the other and no write is cut short, the
\* manifest is the board of GateBoard.tla.
Board(m) == [gate |-> m.gate, deploy |-> m.deploy, locked |-> m.locked]
GateBoard == INSTANCE GateBoard
    WITH gate <- disk.gate, deploy <- disk.deploy, locked <- disk.locked,
         kept <- {Board(s) : s \in snaps}, promised <- ~disturbed
ImplementsBoard == GateBoard!Spec

\* docs/DECISION-PAGE-REFERENCE.md, line 83, of a resolved triage:
\* "Automatically triggers run_pipeline_phase(dirs, env, "transform")".
TriageStartsTransform ==
    [][\A t \in Thread :
          /\ RunPhase(t) /\ Head(todo[t]).phase = "transform"
          /\ disk.gate["scope"] /\ disk.gate["triage"] /\ ~disk.locked /\ ~torn
          => "transform" \in launched']_vars
=============================================================================
