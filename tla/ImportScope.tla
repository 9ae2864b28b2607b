----------------------------- MODULE ImportScope -----------------------------
(***************************************************************************)
(* The files of the environments while payloads are staged, scopes are     *)
(* committed and committed again, sub-tasks are split off, phases run,     *)
(* manifests are copied and brought back, and environments are deleted     *)
(* (services/pipeline_service.py, services/common.py,                      *)
(* core/decision_manifest.py, the import page of ui/routes.py).            *)
(*                                                                         *)
(* Each of these operations writes several files, one after the other; the *)
(* process may die between any two writes, a parser or an analyser may     *)
(* raise, and a file may be held open so that it cannot be removed.        *)
(* Requests follow each other: what two of them do to one manifest at the  *)
(* same time is GateConsole.tla, and to one ledger PipelineRun.tla.        *)
(*                                                                         *)
(* Every file is known by the scope it was made from: a Build is a payload *)
(* together with the key decisions applied to it.                          *)
(***************************************************************************)
EXTENDS Naturals, FiniteSets

CONSTANTS
    Env,            \* names of environments
    Extends,        \* <<e, d>>: the name e starts with the name d and "-"
    Canonical,      \* what canonical_env_name makes of an environment's file names
    Gate,           \* triage, transform, deploy, post
    Content,        \* payloads that can be uploaded
    InUse,          \* environments imported and committed before
    Worked,         \* bound: environments whose pages and commands are used
    None,
    Unseen,         \* signed with no discovery there, or copied from no known one
    Budget,         \* bound on operations of several writes, copies and failures
    MaxSaved        \* bound on the copies kept of a manifest

\* Key decisions: the payload whose keys they are about, and what was chosen.
Keys  == [of : Content, choice : {"default", "edited"}] \cup {None}
Build == [snap : Content, keys : Keys]

ASSUME GatesOfThePhases == {"triage", "transform", "deploy"} \subseteq Gate
ASSUME WorkedAreEnvs == Worked \subseteq Env /\ InUse \subseteq Env /\ Env # {}
ASSUME NamesExtend == Extends \subseteq Env \X Env
ASSUME NoneIsNothing == /\ None \notin Content \cup Env \cup Build
                        /\ Unseen \notin Build \cup Content \cup {None}
ASSUME BudgetIsFinite == Budget \in Nat \ {0} /\ MaxSaved \in Nat

\* The flat files, by root directory: <env>.json, <env>-config.json,
\* <env>-analysis.html.  Each is given back to the environment its name is
\* read as, with suffixes taken off and "_" turned into "-", if there is one.
Root == {"discovery", "fortiadc", "reports"}
ASSUME NamesAreRead == Canonical \in [Root -> [Env -> Env \cup {None}]]

Phase == {"analyse", "transform", "deploy"}      \* those after discover

VARIABLES
    snap, man, led,     \* state/<env>/: raw snapshot, manifest, ledger
    disc,               \* discovery/<env>.json
    conf,               \* fortiadc/<env>-config.json
    rep,                \* reports/<env>-analysis.html and .md
    listed,             \* environments in config.yaml
    saved,              \* state/<env>/manifest.v*.json: copies of the manifest
    target,             \* what was last deployed from each environment
    pc, job,            \* the operation in progress: next write, arguments
    spent,
    loose,              \* history: approvals that did not grow on the discovery
    restored,           \* history: approvals brought back from another discovery
    held,               \* history: a file of the old scope could not be removed
    torn                \* history: the manifest may be of another payload

vars == <<snap, man, led, saved, disc, conf, rep, listed, target, pc, job,
          spent, loose, restored, held, torn>>
state   == <<snap, man, led, saved>>
outputs == <<disc, conf, rep>>
control == <<pc, job, spent>>
history == <<loose, restored, held, torn>>

\* A signature is known by the discovery that was there when it was given.
Approvals == [Gate -> Build \cup {None, Unseen}]
Manifest  == [scope : BOOLEAN, keys : Keys, parent : Env \cup {None},
              hash : Content \cup {None}, signed : Approvals]
Ledger    == [status : [Phase -> {"pending", "done"}],
              items : SUBSET Build]
Job       == [op : {"none", "stage", "commit", "subtask", "delete"}, env : Env,
              parent : Env \cup {None}, load : Content \cup {None}]

\* A copy of a manifest.  For history: the discovery its approvals are for and
\* the snapshot its keys are about, Unseen if they are of no single one.
Copy      == [copy : Manifest, disc : Build \cup {None, Unseen},
              raw : Content \cup {None, Unseen}]

ASSUME RecordsAreSomething == None \notin Manifest \cup Ledger

Unsigned  == [g \in Gate |-> None]
Default == [scope |-> FALSE, keys |-> None, parent |-> None,
            hash |-> None, signed |-> Unsigned]
NewLedger == [status |-> [ph \in Phase |-> "pending"], items |-> {}]
Idle    == [op |-> "none", env |-> CHOOSE e \in Env : TRUE, parent |-> None, load |-> None]

TypeOK ==
    /\ snap \in [Env -> Content \cup {None}]
    /\ man \in [Env -> Manifest \cup {None}]
    /\ led \in [Env -> Ledger \cup {None}]
    /\ saved \in [Env -> SUBSET Copy]
    /\ disc \in [Env -> Build \cup {None}]
    /\ conf \in [Env -> Build \cup {None}]
    /\ rep \in [Env -> Build \cup {None}]
    /\ target \in [Env -> Build \cup {None}]
    /\ listed \subseteq Env /\ job \in Job
    /\ spent \in 0..Budget
    /\ loose \subseteq Env /\ restored \subseteq Env
    /\ held \subseteq Env /\ torn \subseteq Env

-----------------------------------------------------------------------------
\* Loading creates the file where there is none.
ManifestOf(e) == IF man[e] = None THEN Default ELSE man[e]
LedgerOf(e)   == IF led[e] = None THEN NewLedger ELSE led[e]

\* canonical_env_name: whose the flat file of environment d in root r is read as.
ReadAs(r, d) == Canonical[r][d]

Marked(l, ph, s) == [l EXCEPT !.status[ph] = s]

\* What the builder makes of the snapshot and the manifest as they are.
Candidate(e) == [snap |-> snap[e], keys |-> ManifestOf(e).keys]

\* A manifest just staged and committed.
InitialManifest(c) == [Default EXCEPT !.scope = TRUE, !.hash = c,
                                      !.keys = [of |-> c, choice |-> "default"]]

\* Nothing yet; or sites in use, of one payload, which took some of the budget.
Init ==
    /\ \E used \in {{}, InUse} : \E c \in Content :
          /\ snap = [e \in Env |-> IF e \in used THEN c ELSE None]
          /\ man = [e \in Env |-> IF e \in used THEN InitialManifest(c) ELSE None]
          /\ led = [e \in Env |-> IF e \in used THEN NewLedger ELSE None]
          /\ disc = [e \in Env |->
                IF e \in used THEN [snap |-> c, keys |-> InitialManifest(c).keys]
                ELSE None]
          /\ spent = IF used = {} THEN 0 ELSE 1
    /\ saved = [e \in Env |-> {}]
    /\ conf = [e \in Env |-> None] /\ rep = [e \in Env |-> None]
    /\ target = [e \in Env |-> None]
    /\ listed = Env /\ pc = "idle" /\ job = Idle
    /\ loose = {} /\ restored = {} /\ held = {} /\ torn = {}

\* Let the next operation begin, or this one go on with its next write.
Spend             == spent < Budget /\ spent' = spent + 1
Begin(j, first)   == pc = "idle" /\ Spend /\ pc' = first /\ job' = j
Goes(here, there) == pc = here /\ pc' = there /\ UNCHANGED job
Step(here, there) == Goes(here, there) /\ UNCHANGED spent
End               == pc' = "idle" /\ job' = Idle
Quiet             == pc = "idle" /\ UNCHANGED control
-----------------------------------------------------------------------------
\* import_avi_config: snapshot, manifest, candidate, ledger.
StageSnapshot(e, c) ==
    /\ Begin([op |-> "stage", env |-> e, parent |-> None, load |-> c], "stage manifest")
    /\ snap' = [snap EXCEPT ![e] = c]
    /\ torn' = torn \cup {e}
    /\ UNCHANGED <<man, led, saved, outputs, listed, target, loose, restored, held>>

\* Fault of Staged: decisions are kept without looking at the hash.
StagedKeeps(m, c) ==
    [m EXCEPT !.scope = FALSE, !.hash = c,
              !.keys = IF m.keys # None THEN m.keys ELSE [of |-> c, choice |-> "default"]]

\* Decisions on keys survive if the text has the hash noted last time.
Staged(m, c) ==
    [m EXCEPT !.scope = FALSE, !.hash = c,
              !.keys = IF m.hash = c /\ m.keys # None THEN m.keys
                       ELSE [of |-> c, choice |-> "default"]]

StageManifest ==
    LET e == job.env IN
    /\ Step("stage manifest", "stage ledger")
    /\ man' = [man EXCEPT ![e] = Staged(ManifestOf(e), job.load)]
    /\ torn' = torn \ {e}
    /\ UNCHANGED <<snap, led, saved, outputs, listed, target, loose, restored, held>>

\* The candidate has been written; phase_start("discover") creates a ledger.
StageLedger ==
    LET e == job.env IN
    /\ pc = "stage ledger" /\ End /\ UNCHANGED spent
    /\ led' = [led EXCEPT ![e] = LedgerOf(e)]
    /\ UNCHANGED <<snap, man, saved, outputs, listed, target, history>>
-----------------------------------------------------------------------------
\* The import page.  A sub-task with its scope resolved is sent on to triage.
PageOpen(e) == ~(ManifestOf(e).parent # None /\ ManifestOf(e).scope)

Decided(m, choice, commit) ==
    [m EXCEPT !.scope = commit,
              !.keys = IF m.keys = None THEN None ELSE [m.keys EXCEPT !.choice = choice]]

\* ensure_import_scope_gate: with no inventory of keys there is nothing to ask for.
ScopeGate(m) == m.keys = None \/ m.scope

Committed(e) == ManifestOf(e).scope \/ disc[e] # None

\* Saved only; or confirmed and then refused, since a scope is committed
\* already and nobody asked to override it, or since there is no snapshot.
SaveScope(e, choice, commit) ==
    /\ Quiet /\ man[e] # None /\ PageOpen(e)
    /\ commit => Committed(e) \/ snap[e] = None
    /\ man' = [man EXCEPT ![e] = Decided(ManifestOf(e), choice, commit)]
    /\ UNCHANGED <<snap, led, saved, outputs, listed, target, history>>

\* Confirmed, with the override where one is needed: commit_import_scope finds
\* the flag it asks for just saved, and builds the candidate.
CommitScope(e, choice) ==
    /\ PageOpen(e) /\ snap[e] # None /\ ScopeGate(Decided(ManifestOf(e), choice, TRUE))
    /\ Begin([op |-> "commit", env |-> e, parent |-> None, load |-> None],
             IF disc[e] # None THEN "reset ledger" ELSE "discovery")
    /\ man' = [man EXCEPT ![e] = Decided(ManifestOf(e), choice, TRUE)]
    /\ UNCHANGED <<snap, led, saved, outputs, listed, target, history>>

\* Fault of ResetLedger: the unsupported items stay.
ResetLedgerKeepsItems ==
    LET e == job.env IN
    /\ Step("reset ledger", "reset manifest")
    /\ led' = [led EXCEPT ![e] = [LedgerOf(e) EXCEPT
                  !.status = NewLedger.status]]
    /\ UNCHANGED <<snap, man, saved, outputs, listed, target, history>>

\* prior_commit_exists: every phase after discover goes back to pending.
ResetLedger ==
    LET e == job.env IN
    /\ Step("reset ledger", "reset manifest")
    /\ led' = [led EXCEPT ![e] = NewLedger]
    /\ UNCHANGED <<snap, man, saved, outputs, listed, target, history>>

\* Fault of ResetManifest: the sections are dropped, not reset.
ResetManifestBare ==
    LET e == job.env IN
    /\ Step("reset manifest", "unlink config")
    /\ man' = [man EXCEPT ![e] = [ManifestOf(e) EXCEPT !.signed = None]]
    /\ restored' = restored \ {e}
    /\ UNCHANGED <<snap, led, saved, outputs, listed, target, loose, held, torn>>

\* Fault of ResetManifest: the deploy approval is forgotten.
ResetManifestButDeploy ==
    LET e == job.env IN
    /\ Step("reset manifest", "unlink config")
    /\ man' = [man EXCEPT ![e] = [ManifestOf(e) EXCEPT
                  !.signed = [Unsigned EXCEPT !["deploy"] = ManifestOf(e).signed["deploy"]]]]
    /\ restored' = restored \ {e}
    /\ UNCHANGED <<snap, led, saved, outputs, listed, target, loose, held, torn>>

ResetManifest ==
    LET e == job.env IN
    /\ Step("reset manifest", "unlink config")
    /\ man' = [man EXCEPT ![e] = [ManifestOf(e) EXCEPT !.signed = Unsigned]]
    /\ restored' = restored \ {e}
    /\ UNCHANGED <<snap, led, saved, outputs, listed, target, loose, held, torn>>

\* Fault of UnlinkConfig: nothing is unlinked.
UnlinkConfigNever ==
    /\ Step("unlink config", "unlink reports")
    /\ UNCHANGED <<state, outputs, listed, target, history>>

\* unlink(); a PermissionError is passed over.
UnlinkConfig ==
    LET e == job.env IN
    /\ Goes("unlink config", "unlink reports")
    /\ \/ conf' = [conf EXCEPT ![e] = None] /\ UNCHANGED <<held, spent>>
       \/ conf[e] # None /\ held' = held \cup {e} /\ Spend /\ UNCHANGED conf
    /\ UNCHANGED <<state, disc, rep, listed, target, loose, restored, torn>>

UnlinkReports ==
    LET e == job.env IN
    /\ Goes("unlink reports", "discovery")
    /\ \/ rep' = [rep EXCEPT ![e] = None] /\ UNCHANGED spent
       \/ rep[e] # None /\ Spend /\ UNCHANGED rep
    /\ UNCHANGED <<state, disc, conf, listed, target, history>>

\* With a discovery there before, everything made from it has been reset.
WriteDiscovery ==
    LET e == job.env IN
    /\ Step("discovery", "discovered")
    /\ disc' = [disc EXCEPT ![e] = Candidate(e)]
    /\ loose' = IF disc[e] # None THEN loose \ {e} ELSE loose
    /\ UNCHANGED <<state, conf, rep, listed, target, restored, held, torn>>

\* Fault of Discovered: the commit takes the analysis for done.
DiscoveredAll ==
    LET e == job.env IN
    /\ Step("discovered", "items")
    /\ led' = [led EXCEPT ![e] = Marked(LedgerOf(e), "analyse", "done")]
    /\ UNCHANGED <<snap, man, saved, outputs, listed, target, history>>

Discovered ==
    LET e == job.env IN
    /\ Step("discovered", "items")
    /\ led' = [led EXCEPT ![e] = LedgerOf(e)]
    /\ UNCHANGED <<snap, man, saved, outputs, listed, target, history>>

\* The automatic analysis: findings go into the ledger, then the reports are
\* written, then the phase is done.  An exception only ends the analysis.
AfterAnalysis ==
    /\ IF job.op = "subtask" THEN pc' = "bypass" /\ UNCHANGED job ELSE End
    /\ UNCHANGED spent

ListFindings ==
    LET e == job.env IN
    /\ Step("items", "reports")
    /\ \/ led' = [led EXCEPT ![e] = [LedgerOf(e) EXCEPT !.items = @ \cup {disc[e]}]]
       \/ UNCHANGED led       \* nothing found
    /\ UNCHANGED <<snap, man, saved, outputs, listed, target, history>>

WriteReports ==
    /\ Step("reports", "analysed")
    /\ rep' = [rep EXCEPT ![job.env] = disc[job.env]]
    /\ UNCHANGED <<state, disc, conf, listed, target, history>>

Analysed ==
    LET e == job.env IN
    /\ pc = "analysed" /\ AfterAnalysis
    /\ led' = [led EXCEPT ![e] = Marked(LedgerOf(e), "analyse", "done")]
    /\ UNCHANGED <<snap, man, saved, outputs, listed, target, history>>

AnalysisRaises ==
    /\ pc \in {"items", "reports", "analysed"} /\ AfterAnalysis
    /\ UNCHANGED <<state, outputs, listed, target, history>>
-----------------------------------------------------------------------------
\* create_subtask: a name nobody used, the parent's snapshot and decisions, a
\* commit, the discover phase marked done, the parent's manifest saved.
Fresh(e) == /\ snap[e] = None /\ man[e] = None /\ led[e] = None /\ saved[e] = {}
            /\ disc[e] = None /\ conf[e] = None /\ rep[e] = None /\ target[e] = None

CopySnapshot(p, e) ==
    /\ <<e, p>> \in Extends /\ Fresh(e) /\ snap[p] # None /\ PageOpen(p)
    /\ Begin([op |-> "subtask", env |-> e, parent |-> p, load |-> None], "child manifest")
    /\ snap' = [snap EXCEPT ![e] = snap[p]]
    /\ torn' = IF p \in torn THEN torn \cup {e} ELSE torn \ {e}
    /\ listed' = listed \ {e} /\ loose' = loose \ {e} /\ held' = held \ {e}
    /\ UNCHANGED <<man, led, saved, outputs, target, restored>>

ChildManifest ==
    LET e == job.env IN
    /\ Step("child manifest", "discovery")
    /\ man' = [man EXCEPT ![e] = [Default EXCEPT !.scope = TRUE, !.parent = job.parent,
                                                 !.keys = ManifestOf(job.parent).keys]]
    /\ UNCHANGED <<snap, led, saved, outputs, listed, target, history>>

Bypass ==
    LET e == job.env IN
    /\ Step("bypass", "parent manifest")
    /\ led' = [led EXCEPT ![e] = LedgerOf(e)]
    /\ UNCHANGED <<snap, man, saved, outputs, listed, target, history>>

ParentManifest ==
    LET p == job.parent IN
    /\ pc = "parent manifest" /\ End /\ UNCHANGED spent
    /\ man' = [man EXCEPT ![p] = ManifestOf(p)]
    /\ UNCHANGED <<snap, led, saved, outputs, listed, target, history>>
-----------------------------------------------------------------------------
\* The pages of the four gates sign, or take a signature back; see GateConsole.
Sign(e, g) ==
    /\ Quiet /\ man[e] # None
    /\ man' = [man EXCEPT ![e] = [ManifestOf(e) EXCEPT
                  !.signed[g] = IF disc[e] = None THEN Unseen ELSE disc[e]]]
    /\ loose' = IF disc[e] = None THEN loose \cup {e} ELSE loose
    /\ UNCHANGED <<snap, led, saved, outputs, listed, target, restored, held, torn>>

Withdraw(e, g) ==
    /\ Quiet /\ man[e] # None
    /\ man' = [man EXCEPT ![e].signed[g] = None]
    /\ UNCHANGED <<snap, led, saved, outputs, listed, target, history>>

\* create_snapshot: the manifest is saved, copied to a file beside it and saved
\* again, with an audit line.
CreateSnapshot(e) ==
    /\ pc = "idle" /\ Spend /\ UNCHANGED <<pc, job>> /\ Cardinality(saved[e]) < MaxSaved
    /\ man' = [man EXCEPT ![e] = ManifestOf(e)]
    /\ saved' = [saved EXCEPT ![e] = @ \cup
          {[copy |-> ManifestOf(e),
            disc |-> IF e \in loose \cup restored THEN Unseen ELSE disc[e],
            raw  |-> IF e \in torn THEN Unseen ELSE snap[e]]}]
    /\ UNCHANGED <<snap, led, outputs, listed, target, history>>

\* restore_snapshot: the file is copied over the manifest, whatever has become
\* of the snapshot and the discovery since.
RestoreSnapshot(e, k) ==
    /\ Quiet /\ k \in saved[e]
    /\ man' = [man EXCEPT ![e] = k.copy]
    /\ restored' = IF k.disc \in {None, disc[e]} THEN restored \ {e} ELSE restored \cup {e}
    /\ torn' = IF k.raw = snap[e] THEN torn \ {e} ELSE torn \cup {e}
    /\ UNCHANGED <<snap, led, saved, outputs, listed, target, loose, held>>

\* ensure_phase_gate.  The transform gate also asks for vdom_mapping.resolved,
\* which no code sets (GateConsole); here an editor has set it.
Open(e, ph) ==
    LET m == ManifestOf(e) IN
    CASE ph = "analyse"   -> m.scope /\ m.signed["triage"] # None
      [] ph = "transform" -> m.signed["triage"] # None
      [] ph = "deploy"    -> m.signed["transform"] # None /\ m.signed["deploy"] # None
      [] OTHER            -> FALSE

\* A phase that completes: each reads one file and writes another.
Analyse(e) ==
    /\ Quiet /\ Open(e, "analyse") /\ disc[e] # None
    /\ rep' = [rep EXCEPT ![e] = disc[e]]
    /\ led' = [led EXCEPT ![e] = [Marked(LedgerOf(e), "analyse", "done") EXCEPT
                                    !.items = @ \cup {disc[e]}]]
    /\ UNCHANGED <<snap, man, saved, disc, conf, listed, target, history>>

Transform(e) ==
    /\ Quiet /\ Open(e, "transform") /\ disc[e] # None
    /\ conf' = [conf EXCEPT ![e] = disc[e]]
    /\ led' = [led EXCEPT ![e] = Marked(LedgerOf(e), "transform", "done")]
    /\ UNCHANGED <<snap, man, saved, disc, rep, listed, target, history>>

Deploy(e) ==
    /\ Quiet /\ Open(e, "deploy") /\ conf[e] # None
    /\ target' = [target EXCEPT ![e] = conf[e]]
    /\ led' = [led EXCEPT ![e] = Marked(LedgerOf(e), "deploy", "done")]
    /\ UNCHANGED <<snap, man, saved, outputs, listed, history>>

\* discover and import-avi-json write the discovery and reset nothing.
ShellDiscovers(e, c) ==
    /\ pc = "idle" /\ Spend /\ UNCHANGED <<pc, job>>
    /\ disc' = [disc EXCEPT ![e] = [snap |-> c, keys |-> None]]
    /\ led' = [led EXCEPT ![e] = LedgerOf(e)]
    /\ loose' = loose \cup {e}
    /\ UNCHANGED <<snap, man, saved, conf, rep, listed, target, restored, held, torn>>
-----------------------------------------------------------------------------
\* delete_environment goes through its root directories in this order and
\* unlinks one file after the other.  What cannot be removed is reported and
\* left.  Of the flat files it takes those whose name is read as the
\* environment's or starts with its name and "-".
Takes(r, e, d) == \/ ReadAs(r, d) = e \/ <<d, e>> \in Extends
                  \/ d = e /\ r # "discovery"

TakesAny(e, d) == d = e \/ \E r \in Root : Takes(r, e, d)

DeleteEnvironment(e) ==
    /\ Begin([op |-> "delete", env |-> e, parent |-> None, load |-> None], "delete discovery")
    /\ UNCHANGED <<state, outputs, listed, target, history>>

\* One more file is gone; or what is left of this root stays.
StillDeleting(here) == pc = here /\ UNCHANGED control
Leaves(r, f) == \E d \in Env : Takes(r, job.env, d) /\ f[d] # None
LeftIf(some) == IF some THEN held' = held \cup {job.env} /\ Spend ELSE UNCHANGED <<held, spent>>

UnlinkDiscovery(d) ==
    /\ StillDeleting("delete discovery")
    /\ Takes("discovery", job.env, d) /\ disc[d] # None
    /\ disc' = [disc EXCEPT ![d] = None]
    /\ loose' = loose \cup {d}
    /\ UNCHANGED <<state, conf, rep, listed, target, restored, held, torn>>

DiscoveryDeleted ==
    /\ Goes("delete discovery", "delete state") /\ LeftIf(Leaves("discovery", disc))
    /\ loose' = loose \cup {d \in Env : TakesAny(job.env, d) /\ disc[d] # None}
    /\ UNCHANGED <<state, outputs, listed, target, restored, torn>>

UnlinkSnapshot ==
    LET e == job.env IN
    /\ StillDeleting("delete state") /\ snap[e] # None
    /\ snap' = [snap EXCEPT ![e] = None]
    /\ torn' = IF man[e] # None THEN torn \cup {e} ELSE torn
    /\ UNCHANGED <<man, led, saved, outputs, listed, target, loose, restored, held>>

UnlinkManifest ==
    LET e == job.env IN
    /\ StillDeleting("delete state") /\ man[e] # None
    /\ man' = [man EXCEPT ![e] = None]
    /\ torn' = torn \ {e} /\ restored' = restored \ {e}
    /\ UNCHANGED <<snap, led, saved, outputs, listed, target, loose, held>>

UnlinkLedger ==
    LET e == job.env IN
    /\ StillDeleting("delete state") /\ led[e] # None
    /\ led' = [led EXCEPT ![e] = None]
    /\ UNCHANGED <<snap, man, saved, outputs, listed, target, history>>

UnlinkCopy ==
    LET e == job.env IN
    /\ StillDeleting("delete state")
    /\ \E k \in saved[e] : saved' = [saved EXCEPT ![e] = @ \ {k}]
    /\ UNCHANGED <<snap, man, led, outputs, listed, target, history>>

StateDeleted ==
    LET e == job.env IN
    /\ Goes("delete state", "delete config")
    /\ LeftIf(snap[e] # None \/ man[e] # None \/ led[e] # None \/ saved[e] # {})
    /\ UNCHANGED <<state, outputs, listed, target, loose, restored, torn>>

UnlinkConfigOf(d) ==
    /\ StillDeleting("delete config")
    /\ Takes("fortiadc", job.env, d) /\ conf[d] # None
    /\ conf' = [conf EXCEPT ![d] = None]
    /\ UNCHANGED <<state, disc, rep, listed, target, history>>

\* Fault of ConfigDeleted: the root directory is left out.
ConfigSkipped ==
    /\ Step("delete config", "delete reports")
    /\ UNCHANGED <<state, outputs, listed, target, history>>

ConfigDeleted ==
    /\ Goes("delete config", "delete reports") /\ LeftIf(Leaves("fortiadc", conf))
    /\ UNCHANGED <<state, outputs, listed, target, loose, restored, torn>>

UnlinkReportsOf(d) ==
    /\ StillDeleting("delete reports")
    /\ Takes("reports", job.env, d) /\ rep[d] # None
    /\ rep' = [rep EXCEPT ![d] = None]
    /\ UNCHANGED <<state, disc, conf, listed, target, history>>

ReportsDeleted ==
    /\ Goes("delete reports", "unlist") /\ LeftIf(Leaves("reports", rep))
    /\ UNCHANGED <<state, outputs, listed, target, loose, restored, torn>>

Unlist ==
    LET e == job.env IN
    /\ pc = "unlist" /\ End /\ UNCHANGED spent
    /\ listed' = listed \ {e}
    /\ loose' = IF e \in held THEN loose ELSE loose \ {e}
    /\ UNCHANGED <<state, outputs, target, restored, held, torn>>
-----------------------------------------------------------------------------
\* An exception ends a stage, a commit or a sub-task with an error message.
Raise ==
    /\ job.op \in {"stage", "commit", "subtask"}
    /\ pc \notin {"items", "reports", "analysed"} /\ End /\ Spend
    /\ UNCHANGED <<state, outputs, listed, target, history>>

\* The console dies and is started again.  Python hashes a text differently in
\* every process, so no hash noted before will ever match again.
Restart ==
    /\ pc # "idle" /\ End /\ Spend
    /\ man' = [e \in Env |-> IF man[e] = None THEN None ELSE [man[e] EXCEPT !.hash = None]]
    /\ saved' = [e \in Env |-> {[k EXCEPT !.copy = [@ EXCEPT !.hash = None]] : k \in saved[e]}]
    /\ UNCHANGED <<snap, led, outputs, listed, target, history>>

StageStep   == StageManifest \/ StageLedger
CommitStep  == \/ ResetLedger \/ ResetManifest \/ UnlinkConfig \/ UnlinkReports
               \/ WriteDiscovery \/ Discovered
               \/ ListFindings \/ WriteReports \/ Analysed \/ AnalysisRaises
SubtaskStep == ChildManifest \/ Bypass \/ ParentManifest
DeleteStep  == \/ \E d \in Env : UnlinkDiscovery(d) \/ UnlinkConfigOf(d) \/ UnlinkReportsOf(d)
               \/ UnlinkSnapshot \/ UnlinkManifest \/ UnlinkLedger \/ UnlinkCopy
               \/ DiscoveryDeleted \/ StateDeleted \/ ConfigDeleted \/ ReportsDeleted
               \/ Unlist

Page(e) ==
    \/ \E choice \in {"default", "edited"}, commit \in BOOLEAN : SaveScope(e, choice, commit)
    \/ \E g \in Gate : Sign(e, g) \/ Withdraw(e, g)
    \/ CreateSnapshot(e) \/ \E k \in saved[e] : RestoreSnapshot(e, k)
    \/ Analyse(e) \/ Transform(e) \/ Deploy(e)

Console(e) ==
    \/ /\ e \in Worked
       /\ \/ \E c \in Content : StageSnapshot(e, c)
          \/ \E choice \in {"default", "edited"} : CommitScope(e, choice)
    \/ \E p \in Env : CopySnapshot(p, e)
    \/ DeleteEnvironment(e)

\* The "read-only" buttons run the discover and analyse commands of the shell,
\* and the first writes a discovery whatever its name ("discover_dry") says.
ReadonlyAction(e) == (\E c \in Content : ShellDiscovers(e, c)) \/ Analyse(e)

Next ==
    \/ \E e \in Worked : Page(e) \/ ReadonlyAction(e)
    \/ \E e \in Env : Console(e)
    \/ StageStep \/ CommitStep \/ SubtaskStep \/ DeleteStep
    \/ Raise \/ Restart

Spec == Init /\ [][Next]_vars
-----------------------------------------------------------------------------
\* What the overview shows as completed (get_pipeline_status): the ledger's
\* word, taken back while the gate of that phase is closed.
Shown(e, ph) == /\ man[e] # None /\ led[e] # None
                /\ led[e].status[ph] = "done" /\ Open(e, ph)

\* Listed in the configuration, with a snapshot on disk, or the environment a
\* discovery's file name is read as (load_known_envs).
Known(e) == \/ e \in listed \/ snap[e] # None
            \/ \E d \in Env : disc[d] # None /\ ReadAs("discovery", d) = e

\* An approval on file is for the discovery on file, at every write of every
\* operation: a re-commit revokes before it replaces.  The exceptions are those
\* noted in loose (signing with nothing there, a discovery written from
\* the shell, or one removed by a deletion that left the manifest behind) and
\* in restored: bringing back a copy of the manifest brings back approvals that
\* a re-commit has revoked, until the next re-commit.
SignaturesFollowDiscovery ==
    \A e \in Env \ (loose \cup restored) : man[e] # None =>
        \A g \in Gate : man[e].signed[g] \in {None, disc[e]}

\* What the overview shows as completed was made from the discovery on file,
\* whatever failed on the way, and whatever approvals were brought back: those
\* open gates again, and the ledger still knows what was done since.
ShownIsCurrent ==
    \A e \in Env \ loose :
        /\ Shown(e, "analyse") => rep[e] = disc[e]
        /\ Shown(e, "transform") => conf[e] = disc[e]
        /\ Shown(e, "deploy") /\ e \notin held => target[e] = disc[e]

\* The items to triage come from the discovery on file.
TriageListIsCurrent ==
    \A e \in Env \ loose : led[e] # None => led[e].items \subseteq {disc[e]}

\* A deployment pushes what its approval was given for, unless the approval was
\* brought back with a copy of the manifest that is older than the discovery.
DeployedAsSigned ==
    [][\A e \in Env \ (loose \cup held \cup restored) :
          Deploy(e) => conf[e] = man[e].signed["deploy"]]_vars

\* Key decisions are about the snapshot they are applied to.  Not so (torn) after
\* a staging or a deletion that died between the two files, nor with decisions
\* copied when another payload was staged and brought back since.
KeysAreAboutTheSnapshot ==
    \A e \in Env \ torn : man[e] # None /\ man[e].keys # None => man[e].keys.of = snap[e]

\* An environment deleted without an error is known no more and has no file
\* left, so that a new one of that name starts from nothing; but for the
\* discovery of a name that is not read as itself (with "_" in it), which stays.
DeletedIsGone ==
    [][\A e \in Env \ held : Unlist /\ job.env = e =>
          /\ ~Known(e)'
          /\ man'[e] = None /\ led'[e] = None /\ saved'[e] = {}
          /\ conf'[e] = None /\ rep'[e] = None
          /\ ReadAs("discovery", e) = e => disc'[e] = None]_vars
=============================================================================
