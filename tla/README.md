# avi2fortiadc in TLA+

This directory holds TLA+ modules that model the stateful core of the
Avi-to-FortiADC migration tool, configurations with which TLC checks them, and
proofs checked by TLAPS. Definitions follow the Python code, not its
documentation; `PROJECT.json` maps each of them to its lines. Where the code
and its documentation disagree, a run shows it (see *What the runs show*).

## The system

An operator migrates one *environment* at a time: discover or import the Avi
configuration, analyse, transform, deploy to FortiADC, run both in parallel,
switch DNS. Every piece of state is a file, and each is written as a whole by
whoever changed its own copy:

| Component | State | Operations | Interacts with |
|---|---|---|---|
| Phase lock, `core/lock.py` | `state/<env>-<phase>.lock` | acquire, release, break when older than 4 h | `cmd_deploy` |
| State ledger, `core/state_ledger.py` | `ledger.json`: phase status, unsupported items, audit list | phase_start/done/failed, add_unsupported | every phase command, the console, the gates |
| Phase execution, `services/pipeline_service.py`, `migrate.py` | one process per command, one child per console request | run_pipeline_phase, cmd_analyse, cmd_transform, cmd_deploy, 180 s timeout | ledger, lock, manifest |
| Decision manifest, `core/decision_manifest.py`, `ui/routes.py`, `migrate.py decisions` | `decision-manifest.json`, snapshots, `decisions.jsonl` | the decision pages, snapshot and restore, raw-set/confirm/set/lock | phase execution asks its gates |
| Import and re-commit, `services/pipeline_service.py` | raw snapshot, candidate, `discovery/<env>.json` | import_avi_config, commit_import_scope, create_subtask | manifest, ledger, reports |
| Environments, `services/common.py`, `services/pipeline_service.py` | names, directories, `config.yaml` | delete_environment, canonical name | everything above |
| Resolver and analysis, `core/resolver.py`, `analyzers/`, `core/intelligence.py` | none of their own | trace a selection, list what must be triaged | the import-scope page, commit, analyse |
| Collectors and transformers, `collectors/`, `transformers/`, `registry.py`, `core/base.py` | none of their own | collect, flag, translate | discover, transform, the transform review |
| Deployer, `deployers/`, `validators/`, `core/fortiadc_client.py` | the objects on the device | pre-migration checks, deploy_all | `cmd_deploy`; people with other tools |
| Governance and accounts, `core/governance.py`, `services/user_service.py` | governance records; users and roles | run_governance_gate, save_record; create/update/delete user | `cmd_deploy`, the pages |
| Audit chain and event bus, `core/audit_export.py`, `core/events.py` | JSONL logs | emit, chain, verify, export | `cmd_deploy`, every phase |
| Wizard, `wizard.py` | `wizard_state.json`, one for all environments | seven steps in order | runs the commands and the cut-over script |
| Operations automation, `core/ops_automation.py`, `validators/config_diff.py` | `health-history.json` | ops-check | reads configuration, discovery, device |
| Cut-over scripts, `scripts/*.sh` | records of a DNS service | lower TTLs, switch, roll back | started by the wizard |
| Reports and pages, `reporters/`, `services/analytics_service.py`, `ui/` | none of their own | format and show | read ledger, manifest, discovery |
| Knowledge base and language models, `core/rag/`, `core/llm_gateway.py` | an index of texts | index, search, ask | nothing: they advise a reader |

What is hard about it:

* **Concurrency.** The console is Flask in its default threaded mode, its
  phases are child processes, and operators run the same commands in shells.
  Only the deploy command takes a lock, and that lock is itself a file tested,
  read and written in separate calls.
* **Stale copies.** Ledger and manifest are loaded, changed and saved as a
  whole, with an unbounded time in between (a child process, a prompt).
* **Crashes and timeouts.** `write_text` truncates before it writes; a reader
  of a truncated file silently starts from defaults; the console kills its
  child after 180 s, wherever the child is.
* **Protocol order.** Gates, snapshots, re-commits and the shell can be used
  in any order, by people with different roles. (The documentation has the
  gates resolved one after the other; the handlers do not ask for it.)
* **Partial failure.** A re-commit, a deletion and a deployment are many writes
  or calls; each may fail alone, some failures are passed over on purpose, and a
  call to the device may take effect and lose its answer.
* **Several pieces of code for one question.** What a selection includes, which
  VDOM a tenant goes to, what a type is called and whether a section is complete
  are each decided in two to five places that must agree.

What makes each component correct: the lock excludes; the ledger's claims are
true and its audit list complete; a console request ends and its lock is given
back; a gate is open only because somebody opened it, a deploy approval carries
two names, the log is complete; an approval is for the discovery on file and a
deployment pushes what was approved, whatever failed on the way; a deletion
leaves nothing that a new environment of the name would start from; what is committed was shown, and
what is called ready is complete; objects are pushed after what they need, and
"done, failed=0" means they are there; a log that verifies says what it
said when it was chained; steps succeed in order although records of them get
lost; a check that saw nothing does not say that all is well.

## Modules

| Module | What it is |
|---|---|
| `PhaseMutex` | abstract: who is inside a locked phase |
| `PhaseLock` | the lock file, one action per system call; implements `PhaseMutex` |
| `MCPhaseLock` | symmetry for TLC |
| `PhaseLockProofs` | proofs about `PhaseLock` |
| `StateLedger` | operators: a ledger's contents and what each mutator does to a copy |
| `PhaseTable` | abstract: the phase table as gates and dashboard read it |
| `PipelineRun` | console requests, their children, shell commands and their ledger copies; extends `StateLedger`, implements `PhaseTable` |
| `PipelineRunProofs` | proofs about `PipelineRun` |
| `GateBoard` | abstract: a board of gates, a signature, kept boards |
| `GateConsole` | the manifest under the decision pages and the decisions command; implements `GateBoard` |
| `MCGateConsole` | symmetry for TLC |
| `GateConsoleProofs` | proofs about `GateConsole`, and that it implements `GateBoard` |
| `ImportScope` | the files of environments: stage, commit, re-commit, sub-task, phases, copies of the manifest, deletion, write by write |
| `MCImportScope` | two sites in use, of which one reads the other's files as its own, and a sub-task; symmetry |
| `ImportScopeProofs` | proofs about `ImportScope` |
| `HashChain` | operators: lines of the log, chaining and verifying |
| `DeployParams` | the constants of a deployment, with what is assumed of them |
| `Deployment` | `cmd_deploy` on a shared device, with its gate, checks, ledger and log; instantiates `HashChain` |
| `MCDeployment` | a configuration of four objects in two versions |
| `DeploymentProofs` | proofs about `Deployment` and `HashChain` |
| `DeployLock` | `cmd_deploy` over its lock file: composes `Deployment` and `PhaseLock` |
| `MCDeployLock` | a configuration of two objects in two versions; symmetry |
| `DeployLockProofs` | proofs about `DeployLock`, from those about its two parts |
| `AviGraph` | operators: an export, its references, types and tenants |
| `ScopeTrace` | the worklist over an export, and the closure it must find |
| `Translation` | from export to configuration: page, commit, triage, mapping, transform, review; extends `ScopeTrace` |
| `MCTranslation` | the two exports |
| `TranslationProofs` | proofs about `ScopeTrace` and `Translation` |
| `Wizard` | wizards of several operators over one state file |
| `OpsCheck` | operators and state of the check after the roll-out |
| `Rollout` | composes `Wizard` and `OpsCheck` |
| `MCRollout` | readings of a pool of four; symmetry |
| `RolloutProofs` | proofs about `Wizard`, `OpsCheck` and `Rollout` |

Operators named `...` with a comment "Fault of X" next to X are wrong versions
of X; the specifications do not use them. Each property is known to fail when
one of them takes X's place.

### PhaseLock

`pc` says where a process is in `acquire()`: before `exists()`, before
`_read_lock()`, before and inside `write_text`, in the phase. `file` is what
the path holds (absent, empty, garbled, fresh, stale) and `owner` whom a
readable file names. `attached` is the set of processes whose descriptor is
still the linked file, because a writer whose file was unlinked writes nothing
anyone sees. The age of a file is one bit: `GrowStale` may come at any time
after the write. `Release` unlinks the path whoever wrote it, as the code does.
`Kill` may strike between any two calls. Two history variables record the two
things the lock takes on trust: `overlapped` (two `acquire()` calls ran at the
same time) and `overran` (a lock went stale while its owner was in the phase).

### PipelineRun

A console request `r` is `run_pipeline_phase` after its gate: it loads the
ledger (`Request`), saves phase_start and starts its child (`StartChild`), and
saves phase_done or phase_failed from *the same copy* when the child has ended
(`Reap`). The child has the same name `r`; commands typed into a shell are in
`Cli`. `cli[p]` is where a command is: before its ledger (`boot`), with the
ledger open, with the lock, between phase_start and phase_done, and after.
`disk` is the file, `uiMem` and `cliMem` are the copies, `torn` says that a
writer died inside `write_text`. `ReleaseLock` may fail to unlink the lock, which
`release()` passes over; the file then stays until it is stale. The lock is a perfect one here; `PhaseLock`
is the real one. `Loaded` is `_load()`: a reader other than the writer may find
the file truncated and get a new ledger. `Timeout` may come as soon as the
child runs, wherever it is; `ConsoleDies` leaves the children running.

The audit list is kept as a set of events without time, so a repeated event is
the same event. The phases of an instance are those the console can start;
discover and the milestones of the post-validation page are not in it.

### GateConsole

One environment's manifest, reduced to five resolved flags (`scope`, `triage`,
`transform`, `post`, `vdom`), the deploy approval, the lock and the audit list.
`ready` stands for "mode is execute and every box of the checklist is filled
in"; the approver's name is kept, since the signature is about it. A handler is
one action that loads (`Load`) and fixes what the request will do (`todo`); the
writes follow one at a time, so that other requests come in between any two of
them. `Load` is `load()`: the file, or the defaults, *saved*, when the file does
not parse. The actions after the handlers carry instructions out:
`AppendAudit`, `SaveManifest`, `RunPhase` (the gate of run_pipeline_phase, with
a load of its own), `CommitScope` and `WriteDiscovery` (commit_import_scope),
`CopySnapshot`, `ReloadManifest`. `Die` ends a request between any two.
`ShellDiscovers` is the one that writes the discovery and no manifest.

The log line and the save that follows it are one action, except when the
request dies between them; nobody reads the log, so no one could tell. Restoring
a snapshot is a save of the snapshot's contents, which is what `copy2` does to
the file. The shell's `deploy_approval` keys other than the checklist's are left
out; a checklist takes several calls, of which the model takes the last.

### ImportScope

A file is known by what it was made from: a `Build` is a payload with the key
decisions applied to it, so that "this configuration comes from that discovery"
is an equation. `snap`, `man`, `led` are the three files in `state/<env>/`;
`disc`, `conf`, `rep` the discovery, the target configuration and the reports;
`listed` is `config.yaml`; `target` what was last deployed. A signature is known
by the discovery that was there when it was given. `pc` names the next write of
the operation in progress (`"reset ledger"`, `"reset manifest"`, `"unlink
config"`, ...), one action per write in the order of `commit_import_scope`,
`import_avi_config`, `create_subtask` and `delete_environment`. `Raise` ends an
operation with an exception between any two writes, `Restart` is the death of
the console; after it no hash noted before matches, since Python's `hash()` of a
text differs in every process. `UnlinkConfig`, `UnlinkReports` and every unlink of a
deletion may fail.

`saved` holds the copies that `create_snapshot` made of a manifest;
`RestoreSnapshot` brings one back, with the approvals and key decisions it had,
whatever was committed or staged since. Four history variables name the only
ways the properties may be escaped: `loose` (signed with nothing there, a
discovery written from the shell, or one removed while the manifest is left),
`restored` (approvals brought back that are for another discovery; the next
re-commit revokes them), `held` (a file of the old scope could not be removed) and
`torn` (a staging or deletion died between the snapshot and the manifest, or key
decisions on another payload were brought back). These are facts about the code: after
a re-commit a restore re-opens the gates, and a `Transform` and `Deploy` then push
a discovery that nobody signed; nothing in the code notices. What does not depend
on approvals, `ShownIsCurrent` and `TriageListIsCurrent`, holds after a restore too.

Flat files are found by name. `Canonical` is what `canonical_env_name` makes of the
name a file of an environment has in each root directory (`_` becomes `-`, suffixes
go), so the discovery of `dc_eu` is read as that of `dc-eu`, while `-config` is no
suffix it knows, and a configuration is read as nobody's; `Extends` says which
names start with another and a dash. `Takes` is the test of `delete_environment`:
a file read as the environment's, one whose name starts with it and a dash, one
in its own directory. A deletion removes the files of each root one after the
other in any order (`UnlinkDiscovery`, `UnlinkManifest`, ...), and the step to the
next root leaves behind what could not be removed. Of an environment with `_` in
its name the discovery is never taken and no error is reported, against "Delete
all artifacts associated with an environment" (`pipeline_service.py:1556`);
`DeletedIsGone` excepts that file. Not modelled: environments named like a root
directory or a state file, and the guesses of `resolve_env_file`, which only
readers make. `Shown` is what the overview says of an environment.

### Deployment and HashChain

`pc[p]` is where a `cmd_deploy` is: at the governance prompt, between reading
and writing the record, before the lock, logging in, at the checks, pushing,
finishing.
`copy` is the governance file as it was read, `left` the objects not yet pushed,
`run[p].conf` the configuration, read *before* the prompt. `dev` maps an object
to who wrote it last: nobody, other people, or a version of the configuration.
`PushFails` has both outcomes of a failed call, refused and applied with the
answer lost. `blind` says that the list of virtual servers could not be read,
which the check takes for an empty one. The lock is a perfect one that may be
left behind, by `Kill` or by a `release()` whose unlink fails, and goes stale. `Meddle` is other people's work on the
device, `Transform` another output while runs are open. A line of the log keeps
its body, what it was hashed from at each chaining and its link; SHA-256 is
injective, so a hash is what was hashed. There are two logs, as in the code: the
one the bus writes and the audit command chains, and the one `cmd_deploy` chains.
`Tamper` edits a line of either or takes one out; `chained` is the history of how a
log was chained last, and as what. What an attacker of the log could do beyond that
is not hidden by it: hashes computed anew, as by chaining again, and lines missing
at the end do not show, and `TamperingShows` says so.

Chaining a log a second time hashes the old `entry_hash` into the new one, and
`verify_chain` leaves it out, so a log that nobody touched reads as tampered from then
on; `cmd_deploy` chains its log in every deployment. `core/audit_export.py:14` says
"Hash chaining is additive — existing logs can be upgraded", which is true of a log
that was never chained, and only of that. No property claims either; the model has
the code's `Chain`, and `TamperingShows` promises acceptance for logs chained once.

The steps of `Deployment` that touch the lock are made of a part that does and a part
that does not (`Refused`, `Enter`, `Ends`); `Command(p)` are the others.

### DeployLock

Here the process `p` has two places: `pc[p]` in the command, `at[p]` in `acquire()`
and `release()`. It tries the lock (`Try`) one system call at a time; `Conflict` is
the exit of a process that is refused, `Enter` the last write together with the
command's entry, `Leave` the `finally`. A killed process dies in both
(`Killed`). Nothing in the commands looks at the lock: two processes that are both
let in both push. `Held` is the refinement mapping: the lock of `Deployment` is the
owner of the lock file while that can be read and is fresh.

### AviGraph, ScopeTrace and Translation

An export is a sequence of objects with a type, a name, a tenant, references
`<<type, name>>` and one bit `ok`: FortiADC has its like. `seen` and `queue` are
the two variables of the worklist that the page and the commit each have a copy
of; `Visit` is one turn of it and `LeastClosed` the reference definition.
`job` is the request that traces; `page` what the page showed, `disc` what the
commit kept, `listed` the items in the ledger, `conf` what was built. The five
tables `DeferWord`, `FlagWord`, `CompatWord`, `Family` and `CollectWord` are the
names one type goes by in five places, spelled as the code spells them, because
it matters who looks up whose words. Each transformer and each
collector appears as the condition under which it returns or flags an object.
`conf` keeps the deferrals it was built under.
Requests follow each other: what two of them do to a manifest is `GateConsole`.

### Wizard, OpsCheck and Rollout

A wizard reads the whole file (`Start`, `Reload`), holds `copy` while a step runs,
and writes it back in two halves, `Empties` and `Fills`, between which it may be
stopped or another wizard may read an empty file. `done` is taken from the file
once per session, as in `main`. `disk` has the artefacts whose presence a phase
checks. `ran` is the history of steps that succeeded, `shared` says that two
wizards were open at a time. `DeleteEnvironment` is the console's, which leaves
the wizard's file alone. `OpsCheck` is one action: the readings, the advisors and
the verdict; it keeps the last share of healthy members. Each advisor may fail to
read the pool by itself. `PoolDrifts` compares the members the discovery names (none
without a discovery or a pool of the name) with those the appliance answers (none if
it cannot be read). A service whose pool has no members to name and no answer is not
in any alert, and the check ends with no action required. The history changes no
verdict: the branch for a falling trend is behind the one for less than three
quarters, and from a share of at most 1 nothing at or above three quarters is a
fall by more than a quarter. `HealthWatcher`'s docstring (`ops_automation.py:75`:
"computes health scores, detects trends") and the alert "health declining" (561)
say otherwise; the model has the branch, which is never taken. `Rollout` composes the two, which share
`disk`: a check needs a deployed environment with a configuration.

### How the modules share one system

Each module takes from the others what it does not look into itself: `PipelineRun`
and `Deployment` take the lock as the mutual exclusion of `PhaseLock`, which for
`Deployment` is what `DeployLock` shows;
`ImportScope` and `Translation` run requests one after the other because
`GateConsole` (manifest) and `PipelineRun` (ledger) have the overlapping ones;
`ImportScope` knows a file by its build, and what a build contains is
`Translation`; `Deployment` starts from an open gate, which is `GateConsole`'s, and
from the configurations that `Translation` makes; in `Wizard` a command succeeds
or fails, and why is in the other five.

## What the runs show

| Run | Result |
|---|---|
| `lock_safety` | As long as no two `acquire()` calls overlap and no phase outlives its lock, at most one process is in a phase, its own fresh file is on disk, and the lock implements the mutex, whatever is killed and whatever files are left behind. A dead owner's lock gives way. |
| `lock_exclusion` | The exclusion `core/lock.py` promises without that condition does not hold: two processes pass `exists()` together. |
| `pipeline_safety` | No interleaving of stale saves, torn files, timeouts and deaths makes the ledger call a phase done that no command completed; every way out of `cmd_deploy` gives the lock back; while runs do not overlap, a run touches its own phase only and moves it as the table says; every console request ends. |
| `pipeline_audit` | The ledger is not append-only: one request, with nobody else about, overwrites its own child's audit events. |
| `gates_safety` | No lost update, torn file, crash or restored snapshot makes an unsigned deploy approval count (unless the shell wrote it), opens a gate nobody opened or starts a phase whose gates nobody opened; `decisions.jsonl` has every entry of every manifest; requests one after the other implement the board. |
| `gates_triage` | A resolved triage never starts the transform: its gate asks for `vdom_mapping.resolved`, which nothing sets. |
| `scope_files` | Whatever dies, raises or cannot be removed, at whichever write: an approval on file is for the discovery on file and a deployment pushes what it was approved for, unless a copy of the manifest from before a re-commit was brought back; what the overview shows as completed was made from the discovery on file, and triage items come from it, even then; key decisions are about the snapshot, unless a copy from another payload was brought back; a deletion without an error leaves an environment unknown and no file but perhaps the discovery of a name with `_`. |
| `deploy_safety` | While nothing of a run failed nobody's object stands before what it needs; "done, execute, failed=0" means that the device has the configuration; a log that verifies says what it said when it was last chained, or the beginning of it, and one chained once and left alone verifies; only a run with `--execute` and the lock writes; a virtual server that the check could see is not overwritten. |
| `deploy_lock` | Over the lock file, system call by system call, two deployments behave as over a lock taken in one step, as long as no two `acquire()` calls overlap and none outlives its lock. When two are let in, what `Deployment` promises goes, but a run that wrote still has its governance record, unless two saved at once. The type invariants of both modules are checked here. |
| `translation` | Both traces find exactly the closure of their roots, and look at each name once; what the commit keeps, the page had shown (except objects of tenants that own nothing but certificates and the like, and except a switch that is on with nothing selected: the commit then filters nothing, while the page traces from nothing); a section that the review calls ready is complete; virtual servers that fall together in a VDOM were reported, but for unmapped shared ones, which the transform puts in root and the review does not look at. |
| `translation_defer` | A pool deferred on the triage page is built all the same, against `docs/OPERATIONAL-GLOSSARY.md:13`: the page saves the decision as `pools:<name>` and transform looks up `pool:<name>`. |
| `rollout` | No step of an environment succeeds before the ones before it, however wizards overwrite each other's records; the file claims only what succeeded; a check that ends with no action required has seen three quarters of the members up, or all members in place, or had none to look for. |

The `decisions` command needs no run of its own: it fills in and resolves a deploy
approval with nobody's signature, against `docs/DECISION-PAGE-REFERENCE.md:158`, and
`FourEyes` excepts what the shell wrote (`bypassed`). `GatesWereOpened` says that
somebody once opened a gate that is open; since `opened` only grows, it does not see a
reset gate that a stale save or a restored snapshot brings back. `ImplementsBoard`
and, next to the files, `SignaturesFollowDiscovery` do.

Sizes (distinct states, depth): `lock_safety` 12.9 thousand; `pipeline_safety` 394
thousand, 21; `gates_safety` 2.1 million; `scope_files` 3.2 million, 32; `deploy_safety`
8.6 million, 28; `deploy_lock` 1.9 million, 30; `translation` 2.0 million, 29;
`rollout` 2.8 million, 40.

**Bounds.** `PhaseLock` needs none beyond three processes: a holder, a
challenger and the bystander that a wrong release lets in. `PipelineRun` has two
console requests and one shell command of which two are launched
(`MaxLaunches`): two runs overlapping at every point, or one after the other,
with a phase that takes the lock and one that does not. The audit violation
needs one. `GateConsole` has two threads and three requests (`MaxRequests`, shell
commands included): two requests interleave write by write, and a third before,
between or after them makes the snapshot, the lost file or the second signature
they can go wrong with. Three requests are too few to reach a launched deploy
through all its gates; the proofs below cover every number. The violations use
one thread: no concurrency is needed for them. `ImportScope` has two sites, `dc-eu` and `dc_eu`, that are both
new or both in use with one payload (`InUse`, which counts as one operation), and the name of a sub-task of
the first; two payloads; and three operations (`Budget`), of which each of several
writes, each copy of a manifest, each discovery written from the shell and each failure to remove a file, exception or
restart takes one: a commit on top of a site in use and its failure, a copy, a
re-commit and a restore, or a deletion and its leftovers. One copy is kept
(`MaxSaved`); single-write requests are not counted. The pages of one environment
only are used (`Worked`). `Unseen` stands for approvals and key decisions that are of no
single discovery or payload. `Deployment` has two operators and two runs (`MaxRuns`), so that two runs
overlap or one repeats the other; three sections, two versions of the configuration and one
change by other people, on the device or in a log (`MaxMeddling`; logs are
edited after the last run in TLC, since nothing in a run reads them, and the theorem
has no such bound on how often); transforms go on while there is a run to come
that may read their output; one use of the audit
command (`MaxChains`), which with the log of an earlier version gives logs that are chained never,
once, twice, and chained and then grown. `DeployLock` has two operators and two runs
too, a pool and a virtual server that needs it, and a version without the pool; no
change by others and no audit command, which do not look at the lock and are in
the run of `Deployment`. `Translation` has two exports of seven
objects: in one, two tenants own a virtual service and a pool of the same names,
a service is shared through GSLB and a certificate belongs to a tenant that owns
nothing else; in the other, shared objects are used by a tenant, some cannot be
translated and a policy set is referred to in the other spelling; two edits of the
manifest or further payloads (`MaxEdits`) suffice to change the selection between
page and commit, or map two tenants to one VDOM. `Rollout` has two operators, two
environments, three sessions (`MaxSessions`), six successful steps (`MaxRuns`) and
one deletion: two sessions that overwrite each other and a third that reads what is
left. Checks are taken after the sessions (`Quiet`), since wizards and checks
write no file of each other's. Symmetry is used for invariants,
`ImplementsBoard` and `DeploysAsOne`, none of which depends on a name; it is not
used with liveness.

**Fairness.** `PhaseLock`: a running process keeps running and time passes
(`WF` on the steps of acquire and release, and on `GrowStale`); nobody is made to
launch, to die or to stay dead, and `DeadOwnerGivesWay` says so in its premise.
`PipelineRun`: the console's threads go on and its timer fires (`WF` on
`StartChild`, `Reap`, `Timeout`); a child owes nothing, since it may hang on a
device. The other modules have no liveness property, because nothing in the code
makes their steps happen: people sign, commit, deploy and answer prompts when
they like, and a wizard never retries on its own. `CHECK_DEADLOCK FALSE` is set where
the bound on launches or requests lets the system stop.

## What is proved

All of the theorems hold for every set of processes, users and threads
and every bound, from the assumptions named in the modules (distinct model
values, approvers are users, the bounds are natural numbers).

* `PhaseLockProofs`: `TypeCorrect`, `Exclusion`, `Coverage`, `Implements`.
  `ExclusiveWhenQuiet` is not inductive: a second process could be about to
  write. The invariant adds three parts. `OneAcquirer`: in a quiet run at most one
  process is anywhere between `path.exists()` and the end of its `write_text`.
  `WriterIsAlone`: nobody is in a phase once that process has decided to write.
  `WriterIsAttached`: the file it truncated is still the one it is about to
  write. The refinement is proved step by step on top of them.
* `PipelineRunProofs`: `TypeCorrect`, `DoneWasEarned`, `LockIsGivenBack`, `Implements`.
  `DoneIsEarned` speaks of the file, which is overwritten from copies, so the
  invariant says the same of every open copy, that a command past its last
  statement earned its phase, and that a request waiting for a child that
  exited with 0 earned its own.
  For the refinement of `PhaseTable` that is not enough: a run that is alone writes
  back copies it took before its child wrote. `TableInv` says that as long as no two
  runs had the ledger open, one run at most has it open now, its copies agree with
  the file on every phase but its own, and the entry of its own phase says how far
  it is. Once runs have overlapped, every step is a `Forfeit`.
* `GateConsoleProofs`: `TypeCorrect`, `FourEyesHold`, `NothingOpensItself`,
  `LogIsComplete`, `Implements`. The invariant says of each copy and each snapshot what the
  properties say of the file (`Sound`), and of each instruction still to be
  carried out that it is one a handler makes: in particular that an approval
  about to be written as resolved carries two names. All four follow from it
  because `opened`, `bypassed` and the log only grow.
  For the refinement of `GateBoard`, `BoardInv` says of an undisturbed run that at
  most one request is in progress, and that its copy is the file unless what it
  does next is a load, its end, or the first write of a restore (whose copy is a
  kept snapshot); and that the one approval the shell is about to write keeps the
  signer the file has. Each save is then a step of the board from its present
  state, although it was decided when the request began.

* `ImportScopeProofs`: all seven properties of the run. `ScopeInv` says how far the
  operation in progress has come: in `Current`, that every file made from a
  discovery is of the one on file *or* has been reset by the write that `pc`
  says was done; that the discovery about to be written is the candidate; that a
  deletion past a root has left nothing it takes there unless the name is in `held`;
  and that keys chosen in a manifest have the hash of the snapshot they are about,
  or none. Of every copy of a manifest it says for which discovery its approvals and
  about which payload its keys are, so that a restore either agrees with what is on
  file or is noted. The properties speak only of the finished state or of the file,
  so none is inductive alone. Assumptions: model values are distinct
  (`NoneIsNothing`, `RecordsAreSomething`) and pages are of environments
  (`WorkedAreEnvs`); of `Canonical` and `Extends` nothing is needed but their types.
* `DeploymentProofs`: the five of its run, and types and records. `DeployInv` adds who may hold the lock where, that
  what is no longer in `left` is on the device in this run's version unless the
  run failed or others changed it, that a run's record is in the file or in the
  copy about to be written, and where the hashes of a log's lines come from: from
  the lines that were last chained, or the line was never chained (`LogIs`).
  `TornIsNoRecord` is the assumption that a torn file
  is not a set of runs; `NeedsComeEarlier` is what DEPLOY_ORDER is for. What does
  not rest on the lock (types, records, logs) is proved for any step that treats the
  lock as it likes (`Unlocked`), so that it can be used where the lock fails.
* `DeployLockProofs`: the three of its run; over the real lock, `SoundOverTheFile`
  (order, and the meaning of "done") and `SeenServersSurvive`; and whatever the
  lock does, `VerdictsNeedNoLock`; from the two modules above by instantiation.
  Every step of the composition is a step of `PhaseLock` (`LockStep`), so the
  invariant of `PhaseLockProofs` holds; every step is one of the command whatever
  becomes of the lock (`CommandStep`), so types, records and logs hold; and while the
  trust of the lock holds, every step is one of `Deployment` or a stutter
  (`StepIsDeployments`), so `DeployInv` does. Two facts join the parts: `Places`, that
  a process is in the lock's phase exactly when the command is behind `acquire()`,
  and `SeenFree`, that while acquires do not overlap, a file that its reader
  found free stays free until it is written. This is the sense in which the
  theorems of `Deployment` are about the lock that the code has.
* `TranslationProofs`: `TypeCorrect`, `TraceFindsTheClosure`, `TracesComeToAnEnd`,
  `ClashesAreShown`, `ReadyIsComplete`, `CommittedWasShown`. `JobInv` is the invariant of a worklist
  algorithm: what is seen is in every closed set, and what is seen and no longer in
  the queue has its references seen. That it ends is proved with a measure: what is
  in the queue and what has not been seen, which every turn makes smaller. `BuildInv` relates configuration, discovery
  and deferrals: the configuration was made from the committed scope, and what it
  lacks was deferred or cannot be translated. `NamesAreTenants` assumes that a controller has one object of a type and
  a name in a tenant. For the last theorem, `PageInv` says that a page of the
  selection has a row or a tenant for all its trace must find, and `KeptInv` that a
  filtered discovery has nothing else; the commit also starts from the tenants' own
  objects, and `TenantsReferToNothing` (`get_dependencies` has no case for them) is
  why that adds nothing.
* `RolloutProofs`: all four. `RolloutInv` (`WizardInv` with the part of the check)
  says of every copy what `RecordIsEarned` says of the file, and of a wizard at a
  step that all earlier ones have succeeded: they were in a `done` that was
  earned, or it ran them itself. `NothingSeenIsNotClear` is about `AllClearIsSeen`.

Only model-checked: the liveness properties (`DeadOwnerGivesWay`,
`RequestsEnd`), which are beyond the prover.

## Not modelled

* *Accounts.* Rows of a database, each changed by one call; `GateConsole` holds for
  any set of users and roles, and no property follows a role through time.
* *What a payload contains.* Transformers convert the fields of one object; there
  is no state and no order in it. Which objects they return is in `Translation`.
  Types that are collected but have no transformer are represented by one.
* *The cut-over scripts.* `scripts/dns-cutover.sh` opens a file whose name is
  literally `$DISCOVERY` (a quoted here-document), so even its rehearsal ends with
  an error; in `Wizard` the step can only fail. What the scripts would do to a DNS
  service after that is not reached by any command of the tool.
* *Post-migration validation* (`validators/post_migration.py`): nothing calls it.
* *Knowledge base and language models*: they show texts to a reader; no phase or
  gate depends on them.
* *The pre-flight page* posts every object to the device with `?dry-run=1`; whether
  the device heeds that is the device's, and `OnlyExecuteWrites` takes it that it does.
* *Reports and pages* beyond the overview in `ImportScope`, the readiness card among them: they write nothing that is
  read again.
* *The ledger's* resolve_unsupported, which nothing calls, its list of translated
  objects, which no gate reads, and its flat copies; *exports* of the log.
* *Python's own atomicity* within one call, and disks that lose completed writes.

What would come next: `PipelineRun` over the lock file, in the way of `DeployLock`; its
console kills the deploy command after 180 s, inside `acquire()` too.
