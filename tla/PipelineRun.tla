----------------------------- MODULE PipelineRun -----------------------------
(***************************************************************************)
(* One environment's ledger while phases run against it: the web console's *)
(* run_pipeline_phase (services/pipeline_service.py), which starts         *)
(* "migrate.py <phase>" as a child and keeps its own copy of the ledger    *)
(* open around it; the phase commands of migrate.py, as such children or   *)
(* started from a shell; the 180 s timeout; and the death of either side.  *)
(*                                                                         *)
(* Each of these opens the ledger once, mutates its own copy and writes    *)
(* the whole copy back, so a write carries whatever its copy is missing.   *)
(* The deploy command takes the deploy lock after it opened the ledger.    *)
(* The lock itself is PhaseLock.tla; here it is a perfect one.             *)
(***************************************************************************)
EXTENDS StateLedger, Naturals, FiniteSets

CONSTANTS
    Req,            \* console requests; each has one child process
    Cli,            \* phase commands started from a shell
    NoProc, Dead,   \* the lock is free; its file is there and its holder gone
    MaxLaunches     \* bound on requests and shell commands together

ASSUME ActorsAreDistinct == /\ Req \cap Cli = {} /\ NoProc # Dead
                            /\ {NoProc, Dead} \cap (Req \cup Cli) = {}
ASSUME DeployIsAPhase == "deploy" \in Phase
ASSUME LaunchesAreBounded == MaxLaunches \in Nat

Proc == Req \cup Cli

VARIABLES
    disk,           \* ledger.json
    torn,           \* TRUE: a writer died inside write_text, nothing parses
    job,            \* the phase each request and command works on
    ui, uiMem,      \* run_pipeline_phase: where it is, its ledger copy
    cli, cliMem,    \* migrate.py: where it is, its ledger copy
    lock,           \* holder of the deploy lock
    launches,
    earned,         \* history: phases some command completed
    disturbed       \* history: two runs had the ledger open together, or a write
                    \* was cut short

vars == <<disk, torn, job, ui, uiMem, cli, cliMem, lock, launches, earned, disturbed>>
uiVars == <<ui, uiMem>>
cliVars == <<cli, cliMem>>

Running == {"boot", "open", "locked", "running", "finished"}
Ended   == {"off", "exit0", "exit1", "killed"}

NoCopy == NewLedger     \* where no StateLedger object exists

Ui(r)      == [role |-> "console", id |-> r]
Command(p) == [role |-> "migrate", id |-> p]

Actor  == [role : {"console"}, id : Req] \cup [role : {"migrate"}, id : Proc]
Event  == [by : Actor, phase : Phase \cup {"transform"},
           action : {"phase_start", "phase_done", "phase_failed", "unsupported_item"}]
Ledger == [status : [Phase -> Status], unsupported : SUBSET Proc, audit : SUBSET Event]

\* Types; and a request that has its ledger open but has not started its child
\* has none, and only deploy commands hold the deploy lock.
TypeOK ==
    /\ disk \in Ledger
    /\ uiMem \in [Req -> Ledger]
    /\ cliMem \in [Proc -> Ledger]
    /\ torn \in BOOLEAN
    /\ job \in [Proc -> Phase]
    /\ ui \in [Req -> {"idle", "loaded", "waiting"}]
    /\ cli \in [Proc -> Running \cup Ended]
    /\ \A r \in Req : ui[r] = "loaded" => cli[r] \in Ended
    /\ lock \in Proc \cup {NoProc, Dead}
    /\ lock \in Proc => job[lock] = "deploy"
    /\ launches \in 0..MaxLaunches
    /\ earned \subseteq Phase
    /\ disturbed \in BOOLEAN

Init ==
    /\ disk = NewLedger
    /\ torn = FALSE
    /\ job = [p \in Proc |-> "deploy"]
    /\ ui = [r \in Req |-> "idle"]
    /\ uiMem = [r \in Req |-> NoCopy]
    /\ cli = [p \in Proc |-> "off"]
    /\ cliMem = [p \in Proc |-> NoCopy]
    /\ lock = NoProc
    /\ launches = 0
    /\ earned = {}
    /\ disturbed = FALSE
-----------------------------------------------------------------------------
\* Who has the ledger open, and who is about to write it.
Open(a) == \/ a \in Req /\ ui[a] # "idle"
           \/ cli[a] \in Running \ {"boot"}

ConsoleAboutToSave(r) == ui[r] = "loaded" \/ (ui[r] = "waiting" /\ cli[r] \in Ended)
CommandAboutToSave(p) == cli[p] \in {"open", "locked", "running"}

AboutToSave(a) == (a \in Req /\ ConsoleAboutToSave(a)) \/ CommandAboutToSave(a)

\* StateLedger(env): what _load() can return to an actor other than the
\* writers.  write_text truncates before it writes, so a reader that comes in
\* between parses nothing and silently starts a new ledger.
Loaded(a) ==
    IF torn THEN {NewLedger}
    ELSE {disk} \cup {NewLedger : w \in {b \in Proc \ {a} : AboutToSave(b)}}

Overlap(a) == disturbed' = (disturbed \/ \E b \in Proc \ {a} : Open(b))

Save(l) == disk' = l /\ torn' = FALSE

\* A process dies: if it was writing the ledger, the file may be left torn.
CutShort(writing) ==
    \/ UNCHANGED <<torn, disturbed>>
    \/ writing /\ torn' = TRUE /\ disturbed' = TRUE
-----------------------------------------------------------------------------
\* run_pipeline_phase, up to its ledger: the gate let the request through.
Request(r, ph) ==
    /\ ui[r] = "idle" /\ cli[r] \in Ended
    /\ launches < MaxLaunches
    /\ launches' = launches + 1
    /\ ui' = [ui EXCEPT ![r] = "loaded"]
    /\ job' = [job EXCEPT ![r] = ph]
    /\ \E l \in Loaded(r) : uiMem' = [uiMem EXCEPT ![r] = l]
    /\ Overlap(r)
    /\ UNCHANGED <<disk, torn, cliVars, lock, earned>>

\* ledger.phase_start(phase), then subprocess.run starts the child.
StartChild(r) ==
    /\ ui[r] = "loaded"
    /\ LET l == PhaseStart(uiMem[r], Ui(r), job[r]) IN
       /\ uiMem' = [uiMem EXCEPT ![r] = l]
       /\ Save(l)
    /\ ui' = [ui EXCEPT ![r] = "waiting"]
    /\ cli' = [cli EXCEPT ![r] = "boot"]
    /\ UNCHANGED <<job, cliMem, lock, launches, earned, disturbed>>

\* The child ended.  Its exit code decides; an exception of the console's own
\* (the execution log cannot be written, say) is a failure as well.
Settle(r, failed) ==
    /\ ui[r] = "waiting" /\ cli[r] \in Ended
    /\ Save(IF failed THEN PhaseFailed(uiMem[r], Ui(r), job[r])
                      ELSE PhaseDone(uiMem[r], Ui(r), job[r]))
    /\ uiMem' = [uiMem EXCEPT ![r] = NoCopy]
    /\ ui' = [ui EXCEPT ![r] = "idle"]
    /\ UNCHANGED <<job, cliVars, lock, launches, earned, disturbed>>

\* Fault of Reap: the return code is not looked at.
ReapBlindly(r) == Settle(r, FALSE)

Reap(r) == \/ cli[r] = "exit0" /\ Settle(r, FALSE)
           \/ Settle(r, TRUE)

\* The process ends, and its copy of the ledger with it.
End(p, how) == /\ cli' = [cli EXCEPT ![p] = how]
               /\ cliMem' = [cliMem EXCEPT ![p] = NoCopy]

\* SIGKILL: no finally runs, so the lock stays; a write under way is torn.
KillProcess(p) ==
    /\ cli[p] \in Running
    /\ End(p, "killed")
    /\ lock' = IF lock = p THEN Dead ELSE lock
    /\ CutShort(CommandAboutToSave(p))
    /\ UNCHANGED <<disk, job, uiVars, launches, earned>>

\* Fault of Timeout: none is given to subprocess.run.
TimeoutMissing(r) == FALSE /\ KillProcess(r)

\* timeout=180: subprocess.run kills the child.
Timeout(r) == ui[r] = "waiting" /\ KillProcess(r)

\* The console dies; its children live on.
ConsoleDies ==
    /\ \E r \in Req : ui[r] # "idle"
    /\ ui' = [r \in Req |-> "idle"]
    /\ uiMem' = [r \in Req |-> NoCopy]
    /\ CutShort(\E r \in Req : ConsoleAboutToSave(r))
    /\ UNCHANGED <<disk, job, cliVars, lock, launches, earned>>
-----------------------------------------------------------------------------
\* An operator runs the command in a shell.
RunCommand(c, ph) ==
    /\ cli[c] \in Ended
    /\ launches < MaxLaunches
    /\ launches' = launches + 1
    /\ cli' = [cli EXCEPT ![c] = "boot"]
    /\ job' = [job EXCEPT ![c] = ph]
    /\ UNCHANGED <<disk, torn, uiVars, cliMem, lock, earned, disturbed>>

\* Past the gate: ledger = _make_ledger(env).
OpenLedger(p) ==
    /\ cli[p] = "boot"
    /\ cli' = [cli EXCEPT ![p] = "open"]
    /\ \E l \in Loaded(p) : cliMem' = [cliMem EXCEPT ![p] = l]
    /\ Overlap(p)
    /\ UNCHANGED <<disk, torn, job, uiVars, lock, launches, earned>>

\* Fault of TakeLock: taken by every phase.
TakeLockAlways(p) ==
    /\ cli[p] = "open" /\ lock = NoProc
    /\ lock' = p
    /\ cli' = [cli EXCEPT ![p] = "locked"]
    /\ UNCHANGED <<disk, torn, job, uiVars, cliMem, launches, earned, disturbed>>

\* deploy only: lock.acquire(), or exit 1 on LockConflict.
TakeLock(p) ==
    /\ cli[p] = "open" /\ job[p] = "deploy"
    /\ \/ /\ lock = NoProc
          /\ lock' = p
          /\ cli' = [cli EXCEPT ![p] = "locked"]
          /\ UNCHANGED cliMem
       \/ /\ lock # NoProc
          /\ End(p, "exit1")
          /\ UNCHANGED lock
    /\ UNCHANGED <<disk, torn, job, uiVars, launches, earned, disturbed>>

\* A mutator of the command's own ledger, with the save that ends it.
Mutate(p, l) == cliMem' = [cliMem EXCEPT ![p] = l] /\ Save(l)

BeginPhase(p) ==
    /\ cli[p] = IF job[p] = "deploy" THEN "locked" ELSE "open"
    /\ cli' = [cli EXCEPT ![p] = "running"]
    /\ Mutate(p, PhaseStart(cliMem[p], Command(p), job[p]))
    /\ UNCHANGED <<job, uiVars, lock, launches, earned, disturbed>>

\* _record_unsupported_from_bus: one item per run stands for any number.
RecordUnsupported(p) ==
    /\ cli[p] = "running" /\ p \notin cliMem[p].unsupported
    /\ Mutate(p, AddUnsupported(cliMem[p], Command(p), p))
    /\ UNCHANGED <<job, uiVars, cli, lock, launches, earned, disturbed>>

\* Fault of CompletePhase: the done mark goes to every phase up to this one.
CompletePhaseAll(p) ==
    /\ cli[p] = "running"
    /\ cli' = [cli EXCEPT ![p] = "finished"]
    /\ Mutate(p, [PhaseDone(cliMem[p], Command(p), job[p])
                    EXCEPT !.status = [ph \in Phase |-> "done"]])
    /\ earned' = earned \cup {job[p]}
    /\ UNCHANGED <<job, uiVars, lock, launches, disturbed>>

CompletePhase(p) ==
    /\ cli[p] = "running"
    /\ cli' = [cli EXCEPT ![p] = "finished"]
    /\ Mutate(p, PhaseDone(cliMem[p], Command(p), job[p]))
    /\ earned' = earned \cup {job[p]}
    /\ UNCHANGED <<job, uiVars, lock, launches, disturbed>>

\* release() passes over an OSError of unlink.
ReleaseLock(p) == lock' \in IF lock = p THEN {NoProc, Dead} ELSE {lock}

\* Fault of PreMigrationFails: sys.exit outside the try block.
PreMigrationLeavesLock(p) ==
    /\ cli[p] = "running" /\ job[p] = "deploy"
    /\ Save(PhaseFailed(cliMem[p], Command(p), job[p]))
    /\ End(p, "exit1")
    /\ UNCHANGED <<job, uiVars, lock, launches, earned, disturbed>>

\* deploy only: a blocking pre-migration result, phase_failed, sys.exit(1).
PreMigrationFails(p) ==
    /\ cli[p] = "running" /\ job[p] = "deploy"
    /\ Save(PhaseFailed(cliMem[p], Command(p), job[p]))
    /\ End(p, "exit1")
    /\ ReleaseLock(p)
    /\ UNCHANGED <<job, uiVars, launches, earned, disturbed>>

\* The command ends: 0 after its last statement, 1 on any exception, which
\* these commands do not catch.  deploy's finally releases the lock.
Exit(p) ==
    /\ \/ cli[p] = "finished" /\ End(p, "exit0")
       \/ cli[p] \in Running /\ End(p, "exit1")
    /\ ReleaseLock(p)
    /\ UNCHANGED <<disk, torn, job, uiVars, launches, earned, disturbed>>

\* Four hours later a lock that was left behind no longer counts.
LockGoesStale ==
    /\ lock = Dead
    /\ lock' = NoProc
    /\ UNCHANGED <<disk, torn, job, uiVars, cliVars, launches, earned, disturbed>>

CommandStep(p) ==
    \/ OpenLedger(p) \/ TakeLock(p) \/ BeginPhase(p) \/ RecordUnsupported(p)
    \/ CompletePhase(p) \/ PreMigrationFails(p) \/ Exit(p)

Next ==
    \/ \E r \in Req : \/ \E ph \in Phase : Request(r, ph)
                      \/ StartChild(r) \/ Reap(r) \/ Timeout(r)
    \/ \E c \in Cli : (\E ph \in Phase : RunCommand(c, ph)) \/ KillProcess(c)
    \/ \E p \in Proc : CommandStep(p)
    \/ ConsoleDies
    \/ LockGoesStale

\* The console's threads run and its timer fires.  A child owes nothing: it
\* may hang on a device for ever.
Fairness ==
    \A r \in Req : WF_vars(StartChild(r)) /\ WF_vars(Reap(r)) /\ WF_vars(Timeout(r))

Spec     == Init /\ [][Next]_vars
FairSpec == Spec /\ Fairness
-----------------------------------------------------------------------------
\* The ledger calls a phase done only if some migrate.py run got to the end of
\* that phase, whatever stale copies were written over each other.
DoneIsEarned ==
    \A ph \in Phase : disk.status[ph] = "done" => ph \in earned

\* Every way out of cmd_deploy goes through release(): a process that holds the
\* lock is still in the deploy phase.  (A holder that was killed, or could not
\* remove the file, leaves it to nobody: Dead.)
HolderIsDeploying ==
    lock \in Proc => cli[lock] \in {"locked", "running", "finished"}

\* A console request is answered even if its child hangs for ever.
RequestsEnd ==
    \A r \in Req : ui[r] = "loaded" ~> ui[r] = "idle"

\* As long as runs do not overlap and no write was cut short, a run touches
\* the status of its own phase only and moves it as PhaseTable says.
Table == INSTANCE PhaseTable
    WITH status <- disk.status, promised <- ~disturbed
ImplementsPhaseTable == Table!Spec

\* core/state_ledger.py, line 13: "The ledger is append-only for audit
\* events."
AuditAppendOnly ==
    [][disk.audit \subseteq disk'.audit]_vars
=============================================================================
