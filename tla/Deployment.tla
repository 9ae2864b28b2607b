----------------------------- MODULE Deployment -----------------------------
(***************************************************************************)
(* Deployments to the FortiADC from the command line: cmd_deploy with its  *)
(* governance gate (core/governance.py), the checks before                 *)
(* (validators/pre_migration.py), the ordered push                         *)
(* (deployers/fortiadc_deployer.py over core/fortiadc_client.py), the      *)
(* ledger's word on it, and the log it leaves (core/events.py,             *)
(* core/audit_export.py).                                                  *)
(*                                                                         *)
(* Several operators may run the command; the device is shared with people *)
(* who use other tools; any call to it may fail, or take effect and lose   *)
(* its answer; any process may be killed; the logs may be edited by hand.  *)
(* The phase lock is a variable, taken in one step (DeployLock.tla has the *)
(* file and its system calls); the deploy gate is taken as open            *)
(* (GateConsole.tla).                                                      *)
(***************************************************************************)
EXTENDS DeployParams, FiniteSets, Sequences

Event == Run \X {"start", "end"}

INSTANCE HashChain WITH Body <- Event

VARIABLES
    conf,           \* fortiadc/<env>-config.json
    dev,            \* the device: [Obj -> "absent", "foreign" or a version]
    govern,         \* state/<env>-governance.json: runs with a record, or Torn
    lock,           \* the phase lock
    ledger,         \* what the ledger says of the deploy phase
    bus, flat,      \* logs/<env>/deploy.jsonl and logs/<env>-deploy.jsonl
    pc, run, left, copy,    \* each process: place, locals, objects to go, file read
    chainer,        \* the copy of the log "audit chain" read, or None
    runs, meddling, chains, \* counters of the bounds
    wrote,          \* history: runs that changed the device
    clash,          \* history: a record may have been lost
    late,           \* history: objects others changed since the last checks passed
    chained         \* history of a log: how it was chained, and as what lines

vars == <<conf, dev, govern, lock, ledger, bus, flat, pc, run, left, copy, chainer,
          runs, meddling, chains, wrote, clash, late, chained>>
files  == <<conf, govern, ledger>>
logs   == <<bus, flat, chainer, chains, chained>>
bounds == <<runs, meddling>>

Inside == {"login", "check", "push", "finish"}     \* between acquire and release
Place  == {"idle", "approve", "record", "lock"} \cup Inside
Idle   == [id |-> 0, exec |-> FALSE, conf |-> None, failed |-> FALSE, blind |-> FALSE]
Locals == [id : 0..MaxRuns, exec : BOOLEAN, conf : Version \cup {None},
           failed : BOOLEAN, blind : BOOLEAN]
Word   == [status : {"pending", "in_progress", "failed", "done"}, exec : BOOLEAN,
           conf : Version \cup {None}, failed : BOOLEAN]
\* Never chained; once, with nothing done to it since; or else.
Chaining == [how : {"never", "once", "stale"}, was : Seq(Line)]
Said(status, r) == [status |-> status, exec |-> r.exec, conf |-> r.conf, failed |-> r.failed]

TypeOK ==
    /\ conf \in Version /\ dev \in [Obj -> {"absent", "foreign"} \cup Version]
    /\ govern \in (SUBSET Run) \cup {Torn} /\ lock \in Op \cup {None} /\ ledger \in Word
    /\ bus \in Seq(Line) /\ flat \in Seq(Line)
    /\ pc \in [Op -> Place] /\ run \in [Op -> Locals]
    /\ left \in [Op -> SUBSET Obj] /\ copy \in [Op -> SUBSET Run]
    /\ chainer \in Seq(Line) \cup {None}
    /\ runs \in 0..MaxRuns /\ meddling \in 0..MaxMeddling /\ chains \in 0..MaxChains
    /\ wrote \subseteq Run /\ clash \in BOOLEAN /\ late \subseteq Obj
    /\ chained \in [{"bus", "flat"} -> Chaining]

\* A log of a version of the tool that wrote to the flat path may be there.
Init ==
    /\ conf \in Version /\ dev = [o \in Obj |-> "absent"]
    /\ govern = {} /\ lock = None /\ ledger = Said("pending", Idle)
    /\ bus = << >> /\ flat \in {<< >>} \cup {<<Fresh(<<i, "start">>)>> : i \in {1} \cap Run}
    /\ pc = [p \in Op |-> "idle"] /\ run = [p \in Op |-> Idle]
    /\ left = [p \in Op |-> {}] /\ copy = [p \in Op |-> {}] /\ chainer = None
    /\ runs = 0 /\ meddling = 0 /\ chains = 0
    /\ wrote = {} /\ clash = FALSE /\ late = {}
    /\ chained = [f \in {"bus", "flat"} |-> [how |-> "never", was |-> << >>]]
-----------------------------------------------------------------------------
Go(p, from, to) == pc[p] = from /\ pc' = [pc EXCEPT ![p] = to]

\* The process ends, and its locals with it.
Exit(p) ==
    /\ pc' = [pc EXCEPT ![p] = "idle"] /\ run' = [run EXCEPT ![p] = Idle]
    /\ left' = [left EXCEPT ![p] = {}] /\ copy' = [copy EXCEPT ![p] = {}]

\* cmd_deploy reads the configuration before the prompts and the lock.
Start(p, exec) ==
    /\ runs < MaxRuns /\ runs' = runs + 1
    /\ Go(p, "idle", IF exec THEN "approve" ELSE "lock")
    /\ run' = [run EXCEPT ![p] = [Idle EXCEPT !.id = runs + 1, !.exec = exec, !.conf = conf]]
    /\ UNCHANGED <<files, dev, lock, logs, left, copy, meddling, wrote, clash, late>>

\* run_governance_gate: refused, or passed, on its merits or by an override;
\* save_record then loads the file, with nothing in it if it does not parse.
GateRefuses(p) ==
    /\ pc[p] = "approve" /\ Exit(p)
    /\ UNCHANGED <<files, dev, lock, logs, bounds, wrote, clash, late>>

LoadRecords(p) ==
    /\ Go(p, "approve", "record")
    /\ copy' = [copy EXCEPT ![p] = IF govern = Torn THEN {} ELSE govern]
    /\ clash' = (clash \/ \E q \in Op \ {p} : pc[q] = "record")
    /\ UNCHANGED <<files, dev, lock, logs, run, left, bounds, wrote, late>>

\* Fault of SaveRecord: the record replaces those of earlier runs.
SaveRecordAlone(p) ==
    /\ Go(p, "record", "lock")
    /\ govern' = {run[p].id}
    /\ UNCHANGED <<conf, ledger, dev, lock, logs, run, left, copy, bounds, wrote, clash, late>>

SaveRecord(p) ==
    /\ Go(p, "record", "lock")
    /\ govern' = copy[p] \cup {run[p].id}
    /\ UNCHANGED <<conf, ledger, dev, lock, logs, run, left, copy, bounds, wrote, clash, late>>
-----------------------------------------------------------------------------
\* lock.acquire() refuses the process, which exits, or lets it in.
Refused(p) ==
    /\ pc[p] = "lock" /\ Exit(p)
    /\ UNCHANGED <<files, dev, logs, bounds, wrote, clash, late>>

LockConflict(p) == lock # None /\ Refused(p) /\ UNCHANGED lock

Enter(p) ==
    /\ Go(p, "lock", "login")
    /\ UNCHANGED <<files, dev, logs, run, left, copy, bounds, wrote, clash, late>>

TakeLock(p) == lock = None /\ lock' = p /\ Enter(p)

\* The client logs in, unless it is a dry run.
LoginFails(p) ==
    /\ pc[p] = "login" /\ run[p].exec /\ Exit(p)
    /\ UNCHANGED <<files, dev, logs, bounds, wrote, clash, late>>

\* For history: a log is written to, or chained.
Touched(f)      == chained' = [chained EXCEPT ![f] =
                      [how |-> IF @.how = "once" THEN "stale" ELSE @.how, was |-> @.was]]
Chained(f, log) == chained' = [chained EXCEPT ![f] =
                      [how |-> IF @.how = "never" THEN "once" ELSE "stale", was |-> log]]

\* The event bus appends; what it wrote after a copy was taken for chaining is
\* gone when that copy is written back.
Emit(e) ==
    /\ bus' = Append(bus, Fresh(e))
    /\ Touched("bus")
    /\ UNCHANGED <<flat, chainer, chains>>

\* ledger.phase_start
Begin(p) ==
    /\ Go(p, "login", "check")
    /\ ledger' = Said("in_progress", run[p])
    /\ Emit(<<run[p].id, "start">>)
    /\ UNCHANGED <<conf, govern, dev, lock, run, left, copy, bounds, wrote, clash, late>>

\* run_pre_migration_checks.  Virtual servers are listed in the client's own
\* VDOM; if they cannot be listed, none is taken to exist.
Conflict(p) == \E o \in Servers \cap Home \cap Content[run[p].conf] : dev[o] # "absent"

\* Fault of ChecksPass: names are not compared.
ChecksPassAlways(p, blind) ==
    /\ Go(p, "check", "push")
    /\ run' = [run EXCEPT ![p].blind = blind]
    /\ left' = [left EXCEPT ![p] = Content[run[p].conf]]
    /\ late' = {}
    /\ UNCHANGED <<files, dev, lock, logs, copy, bounds, wrote, clash>>

ChecksPass(p, blind) ==
    /\ Go(p, "check", "push") /\ (blind \/ ~Conflict(p))
    /\ run' = [run EXCEPT ![p].blind = blind]
    /\ left' = [left EXCEPT ![p] = Content[run[p].conf]]
    /\ late' = {}
    /\ UNCHANGED <<files, dev, lock, logs, copy, bounds, wrote, clash>>

\* A conflict, an unreachable device, a missing VDOM, a full certificate store.
ChecksFail(p) ==
    /\ pc[p] = "check" /\ Exit(p)
    /\ ledger' = Said("failed", run[p])
    /\ UNCHANGED <<conf, govern, dev, logs, bounds, wrote, clash, late>>
-----------------------------------------------------------------------------
\* deploy_all: section after section; what failed is noted and passed over.

\* Fault of NextUp: the objects of the configuration in any order.
NextUpAny(p) == left[p]

NextUp(p) == {o \in left[p] : \A u \in left[p] : Section[o] <= Section[u]}

Done(p, o) == left' = [left EXCEPT ![p] = @ \ {o}]

\* Fault of Rehearse: the dry run goes through the client.
RehearseForReal(p, o) ==
    /\ pc[p] = "push" /\ ~run[p].exec /\ o \in NextUp(p) /\ Done(p, o)
    /\ dev' = [dev EXCEPT ![o] = run[p].conf]
    /\ UNCHANGED <<files, lock, logs, pc, run, copy, bounds, wrote, clash, late>>

Rehearse(p, o) ==
    /\ pc[p] = "push" /\ ~run[p].exec /\ o \in NextUp(p) /\ Done(p, o)
    /\ UNCHANGED <<files, dev, lock, logs, pc, run, copy, bounds, wrote, clash, late>>

\* exists() and then update or create: either way the object has the payload.
Push(p, o) ==
    /\ pc[p] = "push" /\ run[p].exec /\ o \in NextUp(p) /\ Done(p, o)
    /\ dev' = [dev EXCEPT ![o] = run[p].conf]
    /\ wrote' = wrote \cup {run[p].id}
    /\ UNCHANGED <<files, lock, logs, pc, run, copy, bounds, clash, late>>

\* Fault of PushFails: the exception is taken for an existing object.
PushFailsUnnoted(p, o, applied) ==
    /\ pc[p] = "push" /\ run[p].exec /\ o \in NextUp(p) /\ Done(p, o)
    /\ dev' = IF applied THEN [dev EXCEPT ![o] = run[p].conf] ELSE dev
    /\ wrote' = IF applied THEN wrote \cup {run[p].id} ELSE wrote
    /\ UNCHANGED <<files, lock, logs, pc, run, copy, bounds, clash, late>>

\* A call raises: refused, or applied with its answer lost.
PushFails(p, o, applied) ==
    /\ pc[p] = "push" /\ run[p].exec /\ o \in NextUp(p) /\ Done(p, o)
    /\ run' = [run EXCEPT ![p].failed = TRUE]
    /\ dev' = IF applied THEN [dev EXCEPT ![o] = run[p].conf] ELSE dev
    /\ wrote' = IF applied THEN wrote \cup {run[p].id} ELSE wrote
    /\ UNCHANGED <<files, lock, logs, pc, copy, bounds, clash, late>>

Pushed(p) ==
    /\ left[p] = {} /\ Go(p, "push", "finish")
    /\ Emit(<<run[p].id, "end">>)
    /\ UNCHANGED <<files, dev, lock, run, left, copy, bounds, wrote, clash, late>>

\* The flat log is chained, if there is one, and the phase is done.
Finish(p) ==
    /\ pc[p] = "finish" /\ Exit(p)
    /\ flat' = Chain(flat) /\ Chained("flat", flat')
    /\ ledger' = Said("done", run[p])
    /\ UNCHANGED <<conf, govern, dev, bus, chainer, chains, bounds,
                   wrote, clash, late>>

\* The ways out of the command; "finally" releases the lock, but an OSError of
\* unlink is passed over.
Ends(p)  == LoginFails(p) \/ ChecksFail(p) \/ Finish(p)
Leave(p) == Ends(p) /\ lock' \in {None, lock}

\* A killed process leaves its lock, its status and perhaps half a file.
Kill(p) ==
    /\ pc[p] # "idle" /\ Exit(p)
    /\ govern' \in IF pc[p] = "record" THEN {govern, Torn} ELSE {govern}
    /\ clash' = (clash \/ pc[p] = "record")
    /\ UNCHANGED <<conf, ledger, dev, lock, logs, bounds, wrote, late>>

\* A lock that was left behind passes its age.
LockGoesStale ==
    /\ lock # None /\ pc[lock] \notin Inside /\ lock' = None
    /\ UNCHANGED <<files, dev, logs, pc, run, left, copy, bounds, wrote, clash, late>>
-----------------------------------------------------------------------------
\* Another transform, while there is a run to come that may read what it wrote;
\* other people's changes on the device.
Transform(v) ==
    /\ v # conf /\ conf' = v /\ runs < MaxRuns
    /\ UNCHANGED <<govern, ledger, dev, lock, logs, pc, run, left, copy, bounds, wrote, clash, late>>

Meddle(o, what) ==
    /\ dev[o] # what /\ dev' = [dev EXCEPT ![o] = what]
    /\ meddling < MaxMeddling /\ meddling' = meddling + 1
    /\ late' = late \cup {o}
    /\ UNCHANGED <<files, lock, logs, pc, run, left, copy, runs, wrote, clash>>

\* "audit chain" reads the log and writes it back, while the bus may be open.
ChainReads ==
    /\ chainer = None /\ bus # << >> /\ chains < MaxChains /\ chains' = chains + 1
    /\ chainer' = bus
    /\ UNCHANGED <<files, dev, lock, bus, flat, pc, run, left, copy, bounds, wrote, clash,
                   late, chained>>

ChainWrites ==
    /\ chainer # None /\ chainer' = None
    /\ bus' = Chain(chainer) /\ Chained("bus", bus')
    /\ UNCHANGED <<files, dev, lock, flat, pc, run, left, copy, bounds, wrote, clash, late,
                   chains>>

\* Somebody edits a log by hand; bound: after the last run.
Tamper ==
    /\ chainer = None /\ runs = MaxRuns /\ \A p \in Op : pc[p] = "idle"
    /\ meddling < MaxMeddling /\ meddling' = meddling + 1
    /\ \/ bus' \in Tampered(bus) /\ UNCHANGED flat /\ Touched("bus")
       \/ flat' \in Tampered(flat) /\ UNCHANGED bus /\ Touched("flat")
    /\ UNCHANGED <<files, dev, lock, chainer, chains, pc, run, left, copy, runs, wrote,
                   clash, late>>

\* What a process does without looking at the lock.
Command(p) ==
    \/ \E exec \in BOOLEAN : Start(p, exec)
    \/ GateRefuses(p) \/ LoadRecords(p) \/ SaveRecord(p)
    \/ Begin(p)
    \/ \E blind \in BOOLEAN : ChecksPass(p, blind)
    \/ \E o \in Obj : Rehearse(p, o) \/ Push(p, o)
    \/ \E o \in Obj, applied \in BOOLEAN : PushFails(p, o, applied)
    \/ Pushed(p)

Others ==
    \/ \E v \in Version : Transform(v)
    \/ \E o \in Obj, what \in {"absent", "foreign"} : Meddle(o, what)
    \/ ChainReads \/ ChainWrites \/ Tamper

Next ==
    \/ \E p \in Op : Command(p) \/ LockConflict(p) \/ TakeLock(p) \/ Leave(p) \/ Kill(p)
    \/ LockGoesStale \/ Others

Spec == Init /\ [][Next]_vars
-----------------------------------------------------------------------------
\* The device changes by other people's hands, or by a run that was started
\* with --execute, has the lock and has been through the governance gate.
OnlyExecuteWrites ==
    [][dev' # dev =>
          \/ \E o \in Obj, what \in {"absent", "foreign"} : Meddle(o, what)
          \/ \E p \in Op : pc[p] = "push" /\ run[p].exec /\ lock = p]_vars

\* What a run writes stands on what it needs: while nothing of the run failed
\* and nobody interferes, no object is on the device before those of the
\* configuration it depends on.
NothingDangles ==
    \A p \in Op : pc[p] = "push" /\ run[p].exec /\ ~run[p].failed =>
        \A o \in Content[run[p].conf] \ left[p] :
            \A n \in (Needs[o] \cap Content[run[p].conf]) \ late : dev[n] = run[p].conf

\* A virtual server that is there when the run compares names is not
\* overwritten, if it is in the client's VDOM and the list could be read.
ExistingServersSurvive ==
    [][\A o \in Servers \cap Home : dev[o] # "absent" /\ dev'[o] # dev[o] =>
          \/ \E what \in {"absent", "foreign"} : Meddle(o, what)
          \/ \E p \in Op : lock = p /\ (run[p].blind \/ o \in late)]_vars

\* "done, mode=execute, failed=0" means that the device has the configuration
\* the run had read, but for what others changed since.
CleanDoneIsDeployed ==
    ledger.status = "done" /\ ledger.exec /\ ~ledger.failed =>
        \A o \in Content[ledger.conf] :
            dev[o] = ledger.conf \/ o \in late

\* Every run that changed the device has its governance record, unless two
\* saved at the same time or one was killed while saving.
WritersAreOnRecord == ~clash /\ govern # Torn => wrote \subseteq govern

\* What log says is what was says, or the beginning of it: it starts with the
\* same line, and its neighbours were neighbours.
Continues(was, log) ==
    /\ was # << >> /\ log[1].body = was[1].body
    /\ \A i \in DOMAIN log \ {1} : \E j \in DOMAIN was \ {1} :
          log[i - 1].body = was[j - 1].body /\ log[i].body = was[j].body

\* A log that verify_chain passes says what it said when it was last chained: a
\* line that was edited, taken out or added since shows, but for lines missing
\* at the end.  And one that was chained and left alone passes.  (Not one that
\* was chained again: its hashes are over those of the first chaining.)
TamperingShows ==
    \A f \in {"bus", "flat"} :
        LET log == IF f = "bus" THEN bus ELSE flat IN
        /\ Verify(log) /\ log # << >> => Continues(chained[f].was, log)
        /\ chained[f].how = "once" => Verify(log)
=============================================================================
