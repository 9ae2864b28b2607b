------------------------------- MODULE Wizard -------------------------------
(***************************************************************************)
(* The migration wizard (wizard.py): a terminal program that leads an      *)
(* operator through seven steps of one environment and keeps, in one       *)
(* state/wizard_state.json for all environments, which steps are done.     *)
(*                                                                         *)
(* A wizard reads the whole file, holds it while a step runs - migrate.py  *)
(* as a child process, minutes long - and then writes the whole file back. *)
(* Nothing keeps two operators from running a wizard each, so a wizard may *)
(* write back what another one has added to since.  write_text empties the *)
(* file before it fills it, and load_state takes a file it cannot parse    *)
(* for an empty one.                                                       *)
(*                                                                         *)
(* What a step needs of the decision gates, the lock and the device is in  *)
(* GateConsole, PhaseLock and Deployment; here it succeeds or fails.       *)
(***************************************************************************)
EXTENDS Integers, Sequences

CONSTANTS
    Env,            \* environments of config.yaml
    Operator,       \* people who may have a wizard open
    DaysNeeded,     \* days of parallel run asked for
    NoEnv,          \* no environment chosen yet
    MaxSessions,    \* bound on wizards started
    MaxRuns,        \* bound on steps that succeed
    MaxDeletes      \* bound on environments deleted

ASSUME WizardBounds ==
    /\ NoEnv \notin Env
    /\ DaysNeeded \in Nat \ {0} /\ MaxSessions \in Nat /\ MaxRuns \in Nat /\ MaxDeletes \in Nat

Steps == <<"discover", "analyse", "transform", "dry-run", "deploy",
           "parallel-run", "dns-cutover">>
Step == {Steps[i] : i \in 1..7}

VARIABLES
    file,       \* state/wizard_state.json
    pc,         \* where each operator's wizard is, "off": not running
    env,        \* the environment it works on
    copy,       \* its `state': the file as it read it, with its own additions
    done,       \* its `done': the steps that were done when it began
    at,         \* the step it is at
    disk,       \* which artefacts of each environment exist
    sessions, runs, deletes,
    ran,        \* history: the steps that have succeeded
    shared      \* history: two wizards were open at a time

wizardVars == <<file, pc, env, copy, done, at, disk, sessions, runs, deletes,
                ran, shared>>

Record == [steps : [Env -> SUBSET Step], days : [Env -> 0..DaysNeeded]]
Blank  == [steps |-> [e \in Env |-> {}], days |-> [e \in Env |-> 0]]

Artefact == {"discovery", "config", "rollback"}
Place == {"off", "setup", "save", "deployed", "days", "script", "mark", "load", "step"}

WizardTypeOK ==
    /\ file \in Record
    /\ pc \in [Operator -> Place] /\ env \in [Operator -> Env \cup {NoEnv}]
    /\ copy \in [Operator -> Record] /\ done \in [Operator -> SUBSET Step]
    /\ at \in [Operator -> 0..7]
    /\ disk \in [Env -> SUBSET Artefact]
    /\ sessions \in 0..MaxSessions /\ runs \in 0..MaxRuns /\ deletes \in 0..MaxDeletes
    /\ ran \in [Env -> SUBSET Step] /\ shared \in BOOLEAN

WizardInit ==
    /\ file = Blank /\ copy = [o \in Operator |-> Blank]
    /\ pc = [o \in Operator |-> "off"]
    /\ env = [o \in Operator |-> NoEnv]
    /\ done = [o \in Operator |-> {}] /\ at = [o \in Operator |-> 0]
    /\ disk = [e \in Env |-> {}]
    /\ sessions = 0 /\ runs = 0 /\ deletes = 0
    /\ ran = [e \in Env |-> {}] /\ shared = FALSE

Goto(o, place) == pc' = [pc EXCEPT ![o] = place]

\* The process ends, and its memory with it.
Ends(o) ==
    /\ pc'   = [pc EXCEPT ![o] = "off"]
    /\ env'  = [env EXCEPT ![o] = NoEnv]
    /\ copy' = [copy EXCEPT ![o] = Blank]
    /\ done' = [done EXCEPT ![o] = {}]
    /\ at'   = [at EXCEPT ![o] = 0]

files == <<disk, sessions, deletes, shared>>

------------------------------------------------------------------------------
(* The file. *)

\* save_state, first half: the file is open and empty, place will fill it.
Empties(o, place) == file' = Blank /\ Goto(o, place)

\* save_state, second half, and what follows it.
Fills(o) ==
    /\ pc[o] \in {"save", "deployed", "days"}
    /\ file' = copy[o]
    /\ Goto(o, CASE pc[o] = "save"     -> "load"
                 [] pc[o] = "deployed" -> "script"
                 [] pc[o] = "days"     -> "mark")
    /\ UNCHANGED <<env, copy, done, at, ran, runs, files>>

\* main reads the file after setup and after every step.  `done' is taken from
\* it after setup only, and the loop goes on to the next step that was not in it.
Reload(o) ==
    /\ pc[o] = "load"
    /\ copy' = [copy EXCEPT ![o] = file]
    /\ done' = IF at[o] = 0 THEN [done EXCEPT ![o] = file.steps[env[o]]] ELSE done
    /\ at' = [at EXCEPT ![o] = CHOOSE i \in at[o] + 1..7 :
                /\ Steps[i] \notin done'[o]
                /\ \A j \in at[o] + 1..i - 1 : Steps[j] \in done'[o]]
    /\ Goto(o, "step")
    /\ UNCHANGED <<file, env, ran, runs, files>>

------------------------------------------------------------------------------
(* A session. *)

\* main, load_state() and phase_setup up to the choice of an environment.
Start(o) ==
    /\ pc[o] = "off" /\ sessions < MaxSessions
    /\ sessions' = sessions + 1
    /\ copy' = [copy EXCEPT ![o] = file]
    /\ shared' = (shared \/ \E p \in Operator \ {o} : pc[p] # "off")
    /\ Goto(o, "setup")
    /\ UNCHANGED <<file, env, done, at, disk, runs, deletes, ran>>

\* phase_setup saves the choice, and with it the whole copy.
Choose(o, e) ==
    /\ pc[o] = "setup"
    /\ env' = [env EXCEPT ![o] = e]
    /\ Empties(o, "save")
    /\ UNCHANGED <<copy, done, at, ran, runs, files>>

\* Every prompt takes "no" and Ctrl-C, and a terminal may close at any point.
Stop(o) ==
    /\ pc[o] # "off"
    /\ Ends(o)
    /\ UNCHANGED <<file, ran, runs, files>>

AtStep(o, s) == pc[o] = "step" /\ Steps[at[o]] = s

\* mark_step_done: the step is added to the copy, and the copy is saved.
\* Fault of Marks: a list that starts again with every step.
ForgetsTheList(o, s, place) ==
    /\ runs < MaxRuns /\ runs' = runs + 1
    /\ ran' = [ran EXCEPT ![env[o]] = @ \cup {s}]
    /\ copy' = [copy EXCEPT ![o].steps[env[o]] = {s}]
    /\ Empties(o, place)

Marks(o, s, place) ==
    /\ runs < MaxRuns /\ runs' = runs + 1
    /\ ran' = [ran EXCEPT ![env[o]] = @ \cup {s}]
    /\ copy' = [copy EXCEPT ![o].steps[env[o]] = @ \cup {s}]
    /\ Empties(o, place)

\* A phase that returns False ends the session: its file is missing, the
\* operator does not confirm, or migrate.py exits with an error.
\* Fault of Fails: main goes on to the next step all the same.
GoesOn(o) ==
    /\ pc[o] = "step" /\ at[o] < 7
    /\ Goto(o, "load")
    /\ UNCHANGED <<file, env, copy, done, at, ran, runs, files>>

Fails(o) ==
    /\ pc[o] = "step"
    /\ Ends(o)
    /\ UNCHANGED <<file, ran, runs, files>>

------------------------------------------------------------------------------
(* The steps.  `needs' are the artefacts whose presence the phase checks,  *)
(* `makes' those that its command leaves.                                  *)

Does(o, s, needs, makes, place) ==
    /\ AtStep(o, s) /\ needs \subseteq disk[env[o]]
    /\ Marks(o, s, place)
    /\ disk' = [disk EXCEPT ![env[o]] = @ \cup makes]
    /\ UNCHANGED <<env, done, at, sessions, deletes, shared>>

\* Discovery is the first step of a session or none of it, so the question
\* whether to run it again, asked when the copy has it done, is never reached.
Discover(o)  == Does(o, "discover", {}, {"discovery"}, "save")
Analyse(o)   == Does(o, "analyse", {"discovery"}, {}, "save")
\* The transform gate asks for vdom_mapping.resolved, which nothing sets: a
\* transform that succeeds stands for a manifest edited by hand.
Transform(o) == Does(o, "transform", {"discovery"}, {"config"}, "save")
DryRun(o)    == Does(o, "dry-run", {"config"}, {}, "save")
\* deploy ends well whatever number of objects failed, and so does a copy that
\* has lost "dry-run" once the operator confirms.
Deploy(o)    == Does(o, "deploy", {"config"}, {}, "deployed")

\* _generate_rollback: any failure is a warning.
GenerateRollback(o) ==
    /\ pc[o] = "script"
    /\ disk' \in {disk, IF "config" \in disk[env[o]]
                         THEN [disk EXCEPT ![env[o]] = @ \cup {"rollback"}] ELSE disk}
    /\ Goto(o, "load")
    /\ UNCHANGED <<file, env, copy, done, at, sessions, runs, deletes, ran, shared>>

\* phase_parallel_run: the operator types the number of days, and it is saved.
\* Fault of ParallelDays: the number is taken as typed.
DaysAsTyped(o, typed) ==
    /\ AtStep(o, "parallel-run")
    /\ copy' = [copy EXCEPT ![o].days[env[o]] = typed]
    /\ Empties(o, "days")
    /\ UNCHANGED <<env, done, at, ran, runs, files>>

ParallelDays(o, typed) ==
    /\ AtStep(o, "parallel-run")
    /\ copy' = [copy EXCEPT ![o].days[env[o]] = IF typed > DaysNeeded THEN DaysNeeded
                                               ELSE typed]
    /\ Empties(o, "days")
    /\ UNCHANGED <<env, done, at, ran, runs, files>>

ParallelDone(o) ==
    /\ pc[o] = "mark" /\ copy[o].days[env[o]] = DaysNeeded
    /\ Marks(o, "parallel-run", "save")
    /\ UNCHANGED <<env, done, at, files>>

\* phase_dns_cutover: scripts/dns-cutover.sh builds its map of addresses in a
\* quoted here-document, where "$DISCOVERY" is the name of the file to open, so
\* even its dry run exits with an error: the step is never done, the real
\* cut-over is never offered and phase_complete is never reached.
DnsCutover(o) == AtStep(o, "dns-cutover") /\ Fails(o)

\* pipeline_service.delete_environment, from the console, while wizards run:
\* wizard_state.json and scripts/ belong to no environment and stay.  (Of names
\* that canonical_env_name leaves as they are; ImportScope.tla has the others.)
DeleteEnvironment(e) ==
    /\ deletes < MaxDeletes
    /\ deletes' = deletes + 1
    /\ disk' = [disk EXCEPT ![e] = @ \ {"discovery", "config"}]
    /\ UNCHANGED <<file, pc, env, copy, done, at, sessions, runs, ran, shared>>

WizardNext ==
    \/ \E o \in Operator :
          \/ Start(o) \/ (\E e \in Env : Choose(o, e)) \/ Stop(o)
          \/ Fills(o) \/ Reload(o) \/ Fails(o)
          \/ Discover(o) \/ Analyse(o) \/ Transform(o) \/ DryRun(o) \/ Deploy(o)
          \/ GenerateRollback(o)
          \/ (\E n \in 0..DaysNeeded + 1 : ParallelDays(o, n)) \/ ParallelDone(o)
          \/ DnsCutover(o)
    \/ \E e \in Env : DeleteEnvironment(e)

WizardSpec == WizardInit /\ [][WizardNext]_wizardVars

------------------------------------------------------------------------------
(* Properties. *)

FirstSteps(S) == \A i \in 2..7 : Steps[i] \in S => Steps[i - 1] \in S

\* However many wizards share the file, lose each other's records or are killed
\* while they save, no step of an environment succeeds before every earlier one
\* has: what a wizard skips was recorded, and what it does not it runs itself.
WorkIsInOrder == \A e \in Env : FirstSteps(ran[e])

\* The file never claims a step that has not succeeded; and as long as wizards
\* run one after the other, killed or not, what it holds is a beginning of the
\* seven steps, so that the next session starts where it should.
RecordIsEarned ==
    \A e \in Env : /\ file.steps[e] \subseteq ran[e]
                   /\ ~shared => FirstSteps(file.steps[e])
=============================================================================
