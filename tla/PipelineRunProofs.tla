-------------------------- MODULE PipelineRunProofs --------------------------
(***************************************************************************)
(* The ledger never calls a phase done that no command completed, and no   *)
(* way out of cmd_deploy keeps the deploy lock, whatever copies of the     *)
(* ledger are written over each other and whichever side dies.             *)
(*                                                                         *)
(* DoneIsEarned speaks of the file only, and the file is overwritten from  *)
(* copies: the inductive invariant says the same of every open copy, and   *)
(* that a command that got as far as its last statement earned its phase.  *)
(*                                                                         *)
(* That the ledger is a PhaseTable needs a second one: as long as one run  *)
(* at a time has it open, the copies that will be written back agree with  *)
(* the file on every phase but the run's own.                              *)
(***************************************************************************)
EXTENDS PipelineRun, TLAPS

\* A ledger that calls done only phases of a given set.
Honest(l, phases) == \A ph \in Phase : l.status[ph] = "done" => ph \in phases

EveryCopyIsHonest ==
    /\ Honest(disk, earned)
    /\ \A r \in Req : Honest(uiMem[r], earned)
    /\ \A p \in Proc : Honest(cliMem[p], earned)

FinishedEarned ==
    /\ \A p \in Proc : cli[p] = "finished" => job[p] \in earned
    /\ \A r \in Req : ui[r] = "waiting" /\ cli[r] = "exit0" => job[r] \in earned

IInv == TypeOK /\ HolderIsDeploying /\ EveryCopyIsHonest /\ FinishedEarned
-----------------------------------------------------------------------------
\* A new ledger is well formed and claims nothing.
LEMMA NewIsHonest ==
    ASSUME NEW phases PROVE NewLedger \in Ledger /\ Honest(NewLedger, phases)
BY DEF NewLedger, Ledger, Honest, Status

\* Each mutator of the ledger keeps it well formed, and claims a phase only
\* by PhaseDone.
LEMMA MutatorsAreHonest ==
    ASSUME NEW l \in Ledger, NEW phases, Honest(l, phases),
           NEW who \in Actor, NEW ph \in Phase, NEW item \in Proc
    PROVE  /\ PhaseStart(l, who, ph) \in Ledger /\ Honest(PhaseStart(l, who, ph), phases)
           /\ PhaseFailed(l, who, ph) \in Ledger /\ Honest(PhaseFailed(l, who, ph), phases)
           /\ PhaseDone(l, who, ph) \in Ledger
           /\ ph \in phases => Honest(PhaseDone(l, who, ph), phases)
           /\ AddUnsupported(l, who, item) \in Ledger
           /\ Honest(AddUnsupported(l, who, item), phases)
<1>1. /\ Audited(who, ph, "phase_start") \in Event
      /\ Audited(who, ph, "phase_done") \in Event
      /\ Audited(who, ph, "phase_failed") \in Event
      /\ Audited(who, "transform", "unsupported_item") \in Event
  BY DEF Event, Audited
<1>2. ASSUME NEW s \in Status, NEW a, Audited(who, ph, a) \in Event
      PROVE  /\ Mark(l, who, ph, s, a) \in Ledger
             /\ (s = "done" => ph \in phases) => Honest(Mark(l, who, ph, s, a), phases)
  <2> DEFINE n == Mark(l, who, ph, s, a)
  <2>1. n \in Ledger
    BY <1>2 DEF Ledger, Mark
  <2>2. n.status = [l.status EXCEPT ![ph] = s]
    BY DEF Ledger, Mark
  <2>3. l.status \in [Phase -> Status]
    BY DEF Ledger
  <2> QED BY <2>1, <2>2, <2>3 DEF Honest
<1>3. PhaseStart(l, who, ph) \in Ledger /\ Honest(PhaseStart(l, who, ph), phases)
  BY <1>1, <1>2 DEF PhaseStart, Status
<1>4. PhaseFailed(l, who, ph) \in Ledger /\ Honest(PhaseFailed(l, who, ph), phases)
  BY <1>1, <1>2 DEF PhaseFailed, Status
<1>5. /\ PhaseDone(l, who, ph) \in Ledger
      /\ ph \in phases => Honest(PhaseDone(l, who, ph), phases)
  BY <1>1, <1>2 DEF PhaseDone, Status
<1>6. AddUnsupported(l, who, item) \in Ledger /\ Honest(AddUnsupported(l, who, item), phases)
  BY <1>1 DEF AddUnsupported, Ledger, Honest
<1> QED BY <1>3, <1>4, <1>5, <1>6

\* Whatever a StateLedger object starts with: the file, or nothing.
LEMMA LoadedIsHonest ==
    ASSUME IInv, NEW a \in Proc, NEW l \in Loaded(a)
    PROVE  l \in Ledger /\ Honest(l, earned)
BY NewIsHonest DEF IInv, TypeOK, EveryCopyIsHonest, Loaded

\* A claim backed by fewer phases is backed by more.
LEMMA EarningMore ==
    ASSUME NEW l, NEW few, NEW many, few \subseteq many, Honest(l, few)
    PROVE  Honest(l, many)
BY DEF Honest
-----------------------------------------------------------------------------
\* No phase has been requested.
LEMMA InitIInv == Init => IInv
<1> SUFFICES ASSUME Init PROVE IInv OBVIOUS
<1>1. TypeOK
  <2>1. NewLedger \in Ledger
    BY NewIsHonest
  <2>2. disk \in Ledger /\ uiMem \in [Req -> Ledger] /\ cliMem \in [Proc -> Ledger]
    BY <2>1 DEF Init, NoCopy
  <2>3. launches \in 0..MaxLaunches
    BY LaunchesAreBounded DEF Init
  <2>4. lock \in Proc \cup {NoProc, Dead} /\ lock \notin Proc
    BY ActorsAreDistinct DEF Init, Proc
  <2> QED BY <2>2, <2>3, <2>4, DeployIsAPhase DEF Init, TypeOK, Ended
<1>2. HolderIsDeploying
  BY ActorsAreDistinct DEF Init, HolderIsDeploying, Proc
<1>3. EveryCopyIsHonest
  BY NewIsHonest DEF Init, EveryCopyIsHonest, NoCopy
<1>4. FinishedEarned
  BY DEF Init, FinishedEarned
<1> QED BY <1>1, <1>2, <1>3, <1>4 DEF IInv

\* The death of a command, from outside or at the console's timeout.
LEMMA KillKeeps ==
    ASSUME IInv, NEW p \in Proc, KillProcess(p) PROVE IInv'
<1> USE DEF IInv
<1>1. TypeOK'
  BY NewIsHonest, ActorsAreDistinct
  DEF KillProcess, End, CutShort, TypeOK, uiVars, NoCopy, Ended, Running, Proc
<1>2. HolderIsDeploying'
  BY ActorsAreDistinct DEF KillProcess, End, HolderIsDeploying, TypeOK, Proc
<1>3. EveryCopyIsHonest'
  BY NewIsHonest DEF KillProcess, End, EveryCopyIsHonest, TypeOK, uiVars, NoCopy
<1>4. FinishedEarned'
  BY DEF KillProcess, End, FinishedEarned, TypeOK, uiVars, Proc
<1> QED BY <1>1, <1>2, <1>3, <1>4

\* The console's steps.
LEMMA ConsoleSteps ==
    ASSUME IInv, NEW r \in Req,
           (\E ph \in Phase : Request(r, ph)) \/ StartChild(r) \/ Reap(r) \/ Timeout(r)
    PROVE  IInv'
<1> USE DEF IInv
<1>0. r \in Proc /\ Ui(r) \in Actor
  BY DEF Proc, Ui, Actor
<1>1. ASSUME NEW ph \in Phase, Request(r, ph) PROVE IInv'
  <2>1. PICK l \in Loaded(r) : uiMem' = [uiMem EXCEPT ![r] = l]
    BY <1>1 DEF Request
  <2>2. l \in Ledger /\ Honest(l, earned)
    BY <1>0, <2>1, LoadedIsHonest
  <2>3. TypeOK'
    BY <1>0, <1>1, <2>1, <2>2, LaunchesAreBounded
    DEF Request, TypeOK, HolderIsDeploying, Ended, Running, cliVars, Overlap
  <2>4. HolderIsDeploying'
    BY <1>1 DEF Request, HolderIsDeploying, cliVars
  <2>5. EveryCopyIsHonest'
    BY <1>1, <2>1, <2>2 DEF Request, EveryCopyIsHonest, TypeOK, cliVars
  <2>6. FinishedEarned'
    BY <1>0, <1>1 DEF Request, FinishedEarned, TypeOK, cliVars, Ended, Running
  <2> QED BY <2>3, <2>4, <2>5, <2>6
<1>2. CASE StartChild(r)
  <2> DEFINE l == PhaseStart(uiMem[r], Ui(r), job[r])
  <2>1. l \in Ledger /\ Honest(l, earned)
    BY <1>0, MutatorsAreHonest DEF TypeOK, EveryCopyIsHonest
  <2>2. disk' = l /\ torn' = FALSE /\ uiMem' = [uiMem EXCEPT ![r] = l]
    BY <1>2 DEF StartChild, Save
  <2> HIDE DEF l
  <2>3. TypeOK'
    <3>1. disk' \in Ledger /\ uiMem' \in [Req -> Ledger] /\ torn' \in BOOLEAN
      BY <2>1, <2>2 DEF TypeOK
    <3>2. ui' \in [Req -> {"idle", "loaded", "waiting"}] /\ cli' \in [Proc -> Running \cup Ended]
      BY <1>0, <1>2 DEF StartChild, TypeOK, Running
    <3>3. \A q \in Req : ui'[q] = "loaded" => cli'[q] \in Ended
      BY <1>0, <1>2 DEF StartChild, TypeOK, Proc
    <3> QED BY <1>2, <3>1, <3>2, <3>3 DEF StartChild, TypeOK
  <2>4. HolderIsDeploying'
    BY <1>0, <1>2 DEF StartChild, HolderIsDeploying, TypeOK, Ended
  <2>5. EveryCopyIsHonest'
    BY <1>2, <2>1, <2>2 DEF StartChild, EveryCopyIsHonest, TypeOK
  <2>6. FinishedEarned'
    BY <1>0, <1>2 DEF StartChild, FinishedEarned, TypeOK
  <2> QED BY <2>3, <2>4, <2>5, <2>6
<1>3. ASSUME NEW failed \in BOOLEAN, Settle(r, failed), ~failed => cli[r] = "exit0"
      PROVE  IInv'
  <2>1. disk' \in Ledger /\ Honest(disk', earned)
    <3>1. CASE failed
      <4>1. disk' = PhaseFailed(uiMem[r], Ui(r), job[r])
        BY <1>3, <3>1 DEF Settle, Save
      <4> QED BY <1>0, <4>1, MutatorsAreHonest DEF TypeOK, EveryCopyIsHonest
    <3>2. CASE ~failed
      <4>1. disk' = PhaseDone(uiMem[r], Ui(r), job[r])
        BY <1>3, <3>2 DEF Settle, Save
      <4>2. job[r] \in earned
        BY <1>3, <3>2 DEF Settle, FinishedEarned
      <4> QED BY <1>0, <4>1, <4>2, MutatorsAreHonest DEF TypeOK, EveryCopyIsHonest
    <3> QED BY <3>1, <3>2
  <2>2. TypeOK'
    BY <1>0, <1>3, <2>1, NewIsHonest DEF Settle, Save, TypeOK, cliVars, NoCopy
  <2>3. HolderIsDeploying'
    BY <1>3 DEF Settle, HolderIsDeploying, cliVars
  <2>4. EveryCopyIsHonest'
    BY <1>3, <2>1, NewIsHonest DEF Settle, EveryCopyIsHonest, TypeOK, cliVars, NoCopy
  <2>5. FinishedEarned'
    BY <1>3 DEF Settle, FinishedEarned, TypeOK, cliVars
  <2> QED BY <2>2, <2>3, <2>4, <2>5
<1>4. CASE Reap(r)
  BY <1>3, <1>4 DEF Reap
<1>5. CASE Timeout(r)
  BY <1>0, <1>5, KillKeeps DEF Timeout
<1> QED BY <1>1, <1>2, <1>4, <1>5

\* A command saves a ledger that makes no claim it has not earned, and may
\* reach its last statement once its phase is earned.
LEMMA CommandSaves ==
    ASSUME IInv, NEW p \in Proc, NEW l \in Ledger, Honest(l, earned'),
           disk' = l, torn' = FALSE, earned' = earned \/ earned' = earned \cup {job[p]},
           cliMem' = [cliMem EXCEPT ![p] = l],
           NEW s \in Running, cli' = [cli EXCEPT ![p] = s], cli[p] \in Running \ {"boot"},
           lock = p => s \in {"locked", "running", "finished"},
           s = "finished" => job[p] \in earned',
           UNCHANGED <<job, uiVars, lock, launches, disturbed>>
    PROVE  IInv'
<1> USE DEF IInv
<1>1. earned \subseteq earned' /\ earned' \subseteq Phase
  BY DEF TypeOK
<1>2. TypeOK'
  <2>1. \A r \in Req : ui'[r] = "loaded" => cli'[r] \in Ended
    BY DEF TypeOK, uiVars, Ended, Running, Proc
  <2>2. cli' \in [Proc -> Running \cup Ended] /\ cliMem' \in [Proc -> Ledger]
    BY DEF TypeOK
  <2> QED BY <1>1, <2>1, <2>2 DEF TypeOK, uiVars
<1>3. HolderIsDeploying'
  BY DEF HolderIsDeploying, TypeOK
<1>4. EveryCopyIsHonest'
  BY <1>1, EarningMore DEF EveryCopyIsHonest, TypeOK, uiVars
<1>5. FinishedEarned'
  BY <1>1 DEF FinishedEarned, TypeOK, uiVars, Proc, Running
<1> QED BY <1>2, <1>3, <1>4, <1>5

\* A command ends and its lock with it; if it saved a ledger on the way, that
\* one makes no unearned claim.
LEMMA CommandEnds ==
    ASSUME IInv, NEW p \in Proc, NEW how \in {"exit0", "exit1"}, End(p, how),
           cli[p] \in Running, how = "exit0" => cli[p] = "finished",
           lock' \in IF lock = p THEN {NoProc, Dead} ELSE {lock},
           disk' \in Ledger, Honest(disk', earned), torn' \in BOOLEAN,
           UNCHANGED <<job, uiVars, launches, earned, disturbed>>
    PROVE  IInv'
<1> USE DEF IInv
<1>1. TypeOK'
  <2>1. cli' \in [Proc -> Running \cup Ended] /\ cliMem' \in [Proc -> Ledger]
    BY NewIsHonest DEF End, TypeOK, NoCopy, Ended
  <2>2. \A r \in Req : ui'[r] = "loaded" => cli'[r] \in Ended
    BY DEF End, TypeOK, uiVars, Ended, Proc
  <2>3. /\ lock' \in Proc \cup {NoProc, Dead}
        /\ lock' \in Proc => job'[lock'] = "deploy"
    BY ActorsAreDistinct DEF TypeOK, Proc
  <2> QED BY <2>1, <2>2, <2>3 DEF TypeOK, uiVars
<1>2. HolderIsDeploying'
  BY ActorsAreDistinct DEF End, HolderIsDeploying, TypeOK, Proc
<1>3. EveryCopyIsHonest'
  BY NewIsHonest DEF End, EveryCopyIsHonest, TypeOK, uiVars, NoCopy
<1>4. FinishedEarned'
  BY DEF End, FinishedEarned, TypeOK, uiVars, Proc
<1> QED BY <1>1, <1>2, <1>3, <1>4

\* The steps of a migrate.py command.
LEMMA CommandSteps ==
    ASSUME IInv, NEW p \in Proc, CommandStep(p) PROVE IInv'
<1> USE DEF IInv
<1>0. Command(p) \in Actor /\ job[p] \in Phase /\ cliMem[p] \in Ledger /\ Honest(cliMem[p], earned)
  BY DEF Command, Actor, TypeOK, EveryCopyIsHonest
<1>1. CASE OpenLedger(p)
  <2>1. PICK l \in Loaded(p) : cliMem' = [cliMem EXCEPT ![p] = l]
    BY <1>1 DEF OpenLedger
  <2>2. l \in Ledger /\ Honest(l, earned)
    BY <2>1, LoadedIsHonest
  <2>3. cli' \in [Proc -> Running \cup Ended] /\ cliMem' \in [Proc -> Ledger]
    BY <1>1, <2>1, <2>2 DEF OpenLedger, TypeOK, Running
  <2>4. \A r \in Req : ui'[r] = "loaded" => cli'[r] \in Ended
    BY <1>1 DEF OpenLedger, TypeOK, uiVars, Ended, Proc
  <2>5. TypeOK'
    BY <1>1, <2>3, <2>4 DEF OpenLedger, TypeOK, uiVars, Overlap
  <2>6. HolderIsDeploying' /\ FinishedEarned'
    BY <1>1 DEF OpenLedger, HolderIsDeploying, FinishedEarned, TypeOK, uiVars, Proc
  <2>7. EveryCopyIsHonest'
    BY <1>1, <2>1, <2>2 DEF OpenLedger, EveryCopyIsHonest, TypeOK, uiVars
  <2> QED BY <2>5, <2>6, <2>7
<1>2. CASE TakeLock(p)
  <2>1. CASE lock = NoProc
    <3>1. /\ cli' = [cli EXCEPT ![p] = "locked"] /\ lock' = p /\ job[p] = "deploy"
          /\ cli[p] = "open"
          /\ UNCHANGED <<cliMem, disk, torn, job, uiVars, launches, earned, disturbed>>
      BY <1>2, <2>1 DEF TakeLock
    <3>2. \A r \in Req : ui'[r] = "loaded" => cli'[r] \in Ended
      BY <3>1 DEF TypeOK, uiVars, Ended, Proc
    <3>3. TypeOK'
      BY <3>1, <3>2 DEF TypeOK, uiVars, Running
    <3>4. HolderIsDeploying' /\ FinishedEarned'
      BY <3>1 DEF HolderIsDeploying, FinishedEarned, TypeOK, uiVars, Proc
    <3>5. EveryCopyIsHonest'
      BY <3>1 DEF EveryCopyIsHonest, uiVars
    <3> QED BY <3>3, <3>4, <3>5
  <2>2. CASE lock # NoProc
    <3>1. /\ End(p, "exit1") /\ cli[p] = "open" /\ lock' = lock
          /\ UNCHANGED <<disk, torn, job, uiVars, launches, earned, disturbed>>
      BY <1>2, <2>2 DEF TakeLock
    <3>2. lock # p
      BY <3>1 DEF HolderIsDeploying
    <3> QED BY <3>1, <3>2, CommandEnds DEF Running, TypeOK, EveryCopyIsHonest
  <2> QED BY <2>1, <2>2
<1>3. CASE BeginPhase(p)
  <2> DEFINE l == PhaseStart(cliMem[p], Command(p), job[p])
  <2>1. l \in Ledger /\ Honest(l, earned)
    BY <1>0, MutatorsAreHonest
  <2>2. cli[p] \in Running \ {"boot"}
    BY <1>3 DEF BeginPhase, Running
  <2> QED BY <1>3, <2>1, <2>2, CommandSaves DEF BeginPhase, Mutate, Save, Running
<1>4. CASE RecordUnsupported(p)
  <2> DEFINE l == AddUnsupported(cliMem[p], Command(p), p)
  <2>1. l \in Ledger /\ Honest(l, earned)
    BY <1>0, MutatorsAreHonest
  <2>2. cli' = [cli EXCEPT ![p] = "running"] /\ cli[p] = "running"
    BY <1>4 DEF RecordUnsupported, TypeOK
  <2> QED BY <1>4, <2>1, <2>2, CommandSaves DEF RecordUnsupported, Mutate, Save, Running
<1>5. CASE CompletePhase(p)
  <2> DEFINE l == PhaseDone(cliMem[p], Command(p), job[p])
  <2>1. l \in Ledger /\ Honest(l, earned') /\ job[p] \in earned'
    BY <1>0, <1>5, MutatorsAreHonest, EarningMore DEF CompletePhase
  <2>2. cli[p] = "running"
    BY <1>5 DEF CompletePhase
  <2> QED BY <1>5, <2>1, <2>2, CommandSaves DEF CompletePhase, Mutate, Save, Running
<1>6. CASE PreMigrationFails(p)
  <2> DEFINE l == PhaseFailed(cliMem[p], Command(p), job[p])
  <2>1. l \in Ledger /\ Honest(l, earned)
    BY <1>0, MutatorsAreHonest
  <2>2. disk' = l /\ torn' = FALSE /\ cli[p] = "running"
    BY <1>6 DEF PreMigrationFails, Save
  <2> HIDE DEF l
  <2> QED BY <1>6, <2>1, <2>2, CommandEnds DEF PreMigrationFails, ReleaseLock, Running
<1>7. CASE Exit(p)
  BY <1>7, CommandEnds DEF Exit, ReleaseLock, TypeOK, EveryCopyIsHonest, Running
<1> QED BY <1>1, <1>2, <1>3, <1>4, <1>5, <1>6, <1>7 DEF CommandStep

\* A command started from a shell.
LEMMA RunCommandKeeps ==
    ASSUME IInv, NEW c \in Cli, NEW ph \in Phase, RunCommand(c, ph) PROVE IInv'
<1> USE DEF IInv
<1>0. c \in Proc /\ c \notin Req
  BY ActorsAreDistinct DEF Proc
<1>1. cli' \in [Proc -> Running \cup Ended] /\ launches' \in 0..MaxLaunches /\ job' \in [Proc -> Phase]
  BY <1>0, LaunchesAreBounded DEF RunCommand, TypeOK, Running
<1>2. lock # c
  BY <1>0 DEF RunCommand, HolderIsDeploying, Ended
<1>3. TypeOK'
  BY <1>0, <1>1, <1>2 DEF RunCommand, TypeOK, uiVars
<1>4. HolderIsDeploying'
  BY <1>2 DEF RunCommand, HolderIsDeploying, TypeOK
<1>5. EveryCopyIsHonest'
  BY DEF RunCommand, EveryCopyIsHonest, uiVars
<1>6. FinishedEarned'
  BY <1>0 DEF RunCommand, FinishedEarned, TypeOK, uiVars, Proc
<1> QED BY <1>3, <1>4, <1>5, <1>6

\* Every step keeps the invariant.
LEMMA NextIInv == IInv /\ [Next]_vars => IInv'
<1> SUFFICES ASSUME IInv, [Next]_vars PROVE IInv'
  OBVIOUS
<1>1. CASE ConsoleDies
  <2>1. TypeOK'
    BY <1>1, NewIsHonest DEF IInv, ConsoleDies, CutShort, TypeOK, cliVars, NoCopy
  <2>2. HolderIsDeploying' /\ FinishedEarned'
    BY <1>1 DEF IInv, ConsoleDies, HolderIsDeploying, FinishedEarned, cliVars
  <2>3. EveryCopyIsHonest'
    BY <1>1, NewIsHonest DEF IInv, ConsoleDies, EveryCopyIsHonest, cliVars, NoCopy
  <2> QED BY <2>1, <2>2, <2>3 DEF IInv
<1>2. CASE LockGoesStale
  BY <1>2, ActorsAreDistinct
  DEF IInv, LockGoesStale, TypeOK, HolderIsDeploying, EveryCopyIsHonest, FinishedEarned,
      uiVars, cliVars, Proc
<1>3. CASE UNCHANGED vars
  BY <1>3 DEF IInv, vars, TypeOK, HolderIsDeploying, EveryCopyIsHonest, FinishedEarned
<1>4. ASSUME NEW c \in Cli, KillProcess(c) PROVE IInv'
  BY <1>4, KillKeeps DEF Proc
<1> QED BY <1>1, <1>2, <1>3, <1>4, ConsoleSteps, CommandSteps, RunCommandKeeps DEF Next

-----------------------------------------------------------------------------
\* Nobody but one run has the ledger open, and its copies are those of the
\* file but for the entry of its own phase; that entry says how far it is.
Alone == \A a, b \in Proc : Open(a) /\ Open(b) => a = b

CopiesAgree ==
    /\ \A r \in Req : ui[r] = "loaded" => uiMem[r].status = disk.status
    /\ \A r \in Req : ui[r] = "waiting" =>
          \A ph \in Phase \ {job[r]} : uiMem[r].status[ph] = disk.status[ph]
    /\ \A p \in Proc : CommandAboutToSave(p) => cliMem[p].status = disk.status

OwnEntryIsTrue ==
    /\ \A p \in Proc : cli[p] = "running" => disk.status[job[p]] = "running"
    /\ \A p \in Proc : cli[p] = "finished" => disk.status[job[p]] = "done"
    /\ \A r \in Req : ui[r] = "waiting" => disk.status[job[r]] # "pending"
    /\ \A r \in Req : ui[r] = "waiting" /\ cli[r] = "exit0" => disk.status[job[r]] = "done"

Watched == ~torn /\ Alone /\ CopiesAgree /\ OwnEntryIsTrue

TableInv == ~disturbed => Watched

\* A step of the table, or none.
TableStep == [Table!Next]_Table!vars

\* Once runs have overlapped the table promises nothing.
LEMMA OverlapForfeits ==
    ASSUME IInv', disturbed' PROVE TableStep
BY DEF IInv, TypeOK, Ledger, Status, TableStep, Table!Next, Table!Forfeit

\* If nobody else has the ledger open, and no write was cut short, the file is
\* what a StateLedger object starts with.
LEMMA LoadedIsTheFile ==
    ASSUME NEW a \in Proc, ~torn, \A b \in Proc \ {a} : ~Open(b), NEW l \in Loaded(a)
    PROVE  l = disk
<1>1. \A b \in Proc : AboutToSave(b) => Open(b)
  BY DEF AboutToSave, ConsoleAboutToSave, CommandAboutToSave, Open, Running
<1> QED BY <1>1 DEF Loaded

\* Nobody is new to the ledger.
LEMMA StillAlone ==
    ASSUME Alone, \A a \in Proc : Open(a)' => Open(a) PROVE Alone'
BY DEF Alone

\* A request opens the ledger, and finds the file.
LEMMA RequestIsWatched ==
    ASSUME IInv, Watched, NEW r \in Req, NEW ph \in Phase, Request(r, ph), ~disturbed'
    PROVE  Watched' /\ TableStep
<1> USE DEF IInv
<1>0. r \in Proc
  BY DEF Proc
<1>1. \A b \in Proc \ {r} : ~Open(b)
  BY DEF Request, Overlap
<1>2. uiMem' = [uiMem EXCEPT ![r] = disk]
  BY <1>0, <1>1, LoadedIsTheFile DEF Request, Watched
<1>3. Alone'
  BY <1>1 DEF Request, Alone, Open, cliVars, TypeOK
<1>4. CopiesAgree'
  BY <1>0, <1>2 DEF Request, Watched, CopiesAgree, CommandAboutToSave, cliVars, TypeOK, Ended
<1>5. OwnEntryIsTrue'
  BY <1>0 DEF Request, Watched, OwnEntryIsTrue, cliVars, TypeOK, Ended
<1>6. UNCHANGED Table!vars
  BY DEF Request, Overlap, Table!vars
<1> QED BY <1>3, <1>4, <1>5, <1>6 DEF Request, Watched, TableStep

\* The request marks its phase running and starts its child.
LEMMA StartChildIsWatched ==
    ASSUME IInv, Watched, NEW r \in Req, StartChild(r), ~disturbed'
    PROVE  Watched' /\ TableStep
<1> USE DEF IInv
<1>0. r \in Proc /\ job[r] \in Phase /\ Open(r) /\ \A p \in Proc : Open(p) => p = r
  BY DEF Proc, TypeOK, Watched, Alone, Open, StartChild
<1>1. disk'.status = [disk.status EXCEPT ![job[r]] = "running"] /\ ~torn'
  <2>1. uiMem[r].status = disk.status
    BY DEF StartChild, Watched, CopiesAgree
  <2>2. disk'.status = [uiMem[r].status EXCEPT ![job[r]] = "running"] /\ ~torn'
    BY DEF StartChild, Save, PhaseStart, Mark
  <2> QED BY <2>1, <2>2
<1>2. uiMem' = [uiMem EXCEPT ![r] = disk']
  BY DEF StartChild, Save
<1>3. Alone'
  BY StillAlone DEF StartChild, Watched, Open, TypeOK, Ended
<1>4. CopiesAgree'
  <2>1. \A p \in Proc : ~CommandAboutToSave(p)'
    BY <1>0 DEF StartChild, CommandAboutToSave, Open, TypeOK, Ended, Running
  <2>2. \A q \in Req \ {r} : ui'[q] = "idle"
    BY <1>0 DEF StartChild, Open, TypeOK, Proc
  <2> QED BY <1>2, <2>1, <2>2 DEF StartChild, CopiesAgree, TypeOK
<1>5. OwnEntryIsTrue'
  <2>1. \A p \in Proc : cli'[p] \notin {"running", "finished"}
    BY <1>0 DEF StartChild, Open, TypeOK, Ended, Running
  <2>2. \A q \in Req : ui'[q] = "waiting" => q = r
    BY <1>0 DEF StartChild, Open, TypeOK, Proc
  <2>3. disk'.status[job'[r]] = "running" /\ cli'[r] = "boot"
    BY <1>0, <1>1 DEF StartChild, TypeOK, Ledger
  <2> QED BY <2>1, <2>2, <2>3 DEF OwnEntryIsTrue
<1>6. Table!Start(job[r])
  BY <1>1 DEF StartChild, Table!Start
<1> QED BY <1>0, <1>1, <1>3, <1>4, <1>5, <1>6 DEF Watched, TableStep, Table!Next

\* The request writes the outcome from the copy it has kept open.
LEMMA ReapIsWatched ==
    ASSUME IInv, Watched, NEW r \in Req, Reap(r), ~disturbed'
    PROVE  Watched' /\ TableStep
<1> USE DEF IInv
<1>1. PICK failed \in BOOLEAN : Settle(r, failed) /\ (~failed => cli[r] = "exit0")
  BY DEF Reap
<1> DEFINE s == IF failed THEN "failed" ELSE "done"
<1>2. r \in Proc /\ job[r] \in Phase /\ \A p \in Proc : Open(p) => p = r
  BY <1>1 DEF Proc, TypeOK, Watched, Alone, Open, Settle
<1>3. disk'.status = [disk.status EXCEPT ![job[r]] = s] /\ ~torn'
  <2>1. disk'.status = [uiMem[r].status EXCEPT ![job[r]] = s] /\ ~torn'
    BY <1>1 DEF Settle, Save, PhaseFailed, PhaseDone, Mark
  <2>2. \A ph \in Phase \ {job[r]} : uiMem[r].status[ph] = disk.status[ph]
    BY <1>1 DEF Settle, Watched, CopiesAgree
  <2>3. uiMem[r].status \in [Phase -> Status] /\ disk.status \in [Phase -> Status]
    BY DEF TypeOK, Ledger
  <2> HIDE DEF s
  <2> QED BY <2>1, <2>2, <2>3
<1>4. \A q \in Req : ui'[q] = "idle"
  BY <1>1, <1>2 DEF Settle, Open, TypeOK, Proc
<1>5. \A p \in Proc : cli'[p] \in {"boot"} \cup Ended
  BY <1>1, <1>2 DEF Settle, Open, TypeOK, cliVars
<1>6. Alone' /\ CopiesAgree' /\ OwnEntryIsTrue'
  BY <1>4, <1>5 DEF Alone, Open, CopiesAgree, CommandAboutToSave, OwnEntryIsTrue, Running, Ended
<1>7. TableStep
  <2>1. disk.status \in [Phase -> Status] /\ disturbed' = disturbed
    BY <1>1 DEF TypeOK, Ledger, Settle
  <2>2. disk.status[job[r]] # "pending"
    BY <1>1 DEF Settle, Watched, OwnEntryIsTrue
  <2>3. s = "done" => disk.status[job[r]] = "done"
    BY <1>1 DEF Settle, Watched, OwnEntryIsTrue
  <2>4. CASE disk.status[job[r]] = "running"
    BY <1>2, <1>3, <2>1, <2>3, <2>4 DEF TableStep, Table!Next, Table!Finish
  <2>5. CASE disk.status[job[r]] = "done" /\ s = "failed"
    BY <1>2, <1>3, <2>1, <2>5 DEF TableStep, Table!Next, Table!Overrule
  <2>6. CASE disk.status[job[r]] = s
    BY <1>2, <1>3, <2>1, <2>6 DEF TableStep, Table!vars
  <2> QED BY <1>2, <2>1, <2>2, <2>3, <2>4, <2>5, <2>6 DEF Status
<1> QED BY <1>3, <1>6, <1>7 DEF Watched
\* The console dies, and no write was cut short.
LEMMA ConsoleDiesIsWatched ==
    ASSUME IInv, Watched, ConsoleDies, ~disturbed'
    PROVE  Watched' /\ TableStep
<1> USE DEF IInv
<1>1. ~torn' /\ UNCHANGED <<disk, job, cli, cliMem, disturbed>> /\ ui' = [r \in Req |-> "idle"]
  BY DEF ConsoleDies, CutShort, cliVars, Watched
<1>2. Alone'
  BY <1>1, StillAlone DEF Watched, Open
<1>3. CopiesAgree' /\ OwnEntryIsTrue'
  BY <1>1 DEF Watched, CopiesAgree, CommandAboutToSave, OwnEntryIsTrue
<1> QED BY <1>1, <1>2, <1>3 DEF Watched, TableStep, Table!vars

\* A command is started and has not opened the ledger yet.
LEMMA RunCommandIsWatched ==
    ASSUME IInv, Watched, NEW c \in Cli, NEW ph \in Phase, RunCommand(c, ph), ~disturbed'
    PROVE  Watched' /\ TableStep
<1> USE DEF IInv
<1>1. c \in Proc /\ c \notin Req
  BY ActorsAreDistinct DEF Proc
<1>2. Alone'
  BY <1>1, StillAlone DEF RunCommand, Watched, Open, TypeOK, uiVars
<1>3. CopiesAgree'
  BY <1>1 DEF RunCommand, Watched, CopiesAgree, CommandAboutToSave, TypeOK, uiVars
<1>4. OwnEntryIsTrue'
  BY <1>1 DEF RunCommand, Watched, OwnEntryIsTrue, TypeOK, uiVars, Proc
<1> QED BY <1>2, <1>3, <1>4 DEF RunCommand, Watched, TableStep, Table!vars
-----------------------------------------------------------------------------
\* A command goes on or ends without a write.
LEMMA NoWriteIsWatched ==
    ASSUME IInv, Watched, NEW p \in Proc, NEW s \in Running \cup Ended,
           cli' = [cli EXCEPT ![p] = s], cli[p] \in Running, ~torn',
           s \in Running => cli[p] = "open" /\ s = "locked" /\ cliMem' = cliMem,
           s = "exit0" => cli[p] = "finished",
           \A q \in Proc \ {p} : cliMem'[q] = cliMem[q],
           UNCHANGED <<disk, job, uiVars, disturbed>>
    PROVE  Watched' /\ TableStep
<1> USE DEF IInv
<1>1. Alone'
  BY StillAlone DEF Watched, Open, TypeOK, uiVars, Running, Ended
<1>2. CopiesAgree'
  BY DEF Watched, CopiesAgree, CommandAboutToSave, TypeOK, uiVars, Running, Ended
<1>3. OwnEntryIsTrue'
  BY DEF Watched, OwnEntryIsTrue, TypeOK, uiVars, Proc, Running, Ended
<1> QED BY <1>1, <1>2, <1>3 DEF Watched, TableStep, Table!vars

\* A command writes its ledger, with v for its own phase.
LEMMA WriteIsWatched ==
    ASSUME IInv, Watched, NEW p \in Proc, CommandAboutToSave(p),
           NEW s \in {"running", "finished", "exit1"}, cli' = [cli EXCEPT ![p] = s],
           NEW v \in {"running", "done", "failed"},
           disk'.status = [cliMem[p].status EXCEPT ![job[p]] = v], ~torn',
           s = "running" => v = "running" /\ cliMem'[p] = disk',
           s = "finished" => v = "done",
           UNCHANGED <<job, uiVars, disturbed>>
    PROVE  Watched' /\ disk'.status = [disk.status EXCEPT ![job[p]] = v]
<1> USE DEF IInv
<1>1. \A q \in Proc \ {p} : ~Open(q)
  BY DEF Watched, Alone, Open, CommandAboutToSave, Running
<1>2. /\ disk'.status = [disk.status EXCEPT ![job[p]] = v]
      /\ disk'.status[job[p]] = v
  BY DEF Watched, CopiesAgree, TypeOK, Ledger
<1>3. Alone'
  BY <1>1, StillAlone DEF Watched, Open, TypeOK, uiVars, CommandAboutToSave, Running
<1>4. /\ \A q \in Proc \ {p} : cli'[q] \in {"boot"} \cup Ended
      /\ \A q \in Req \ {p} : ui'[q] = "idle"
  BY <1>1 DEF Open, TypeOK, uiVars, Proc
<1>5. p \in Req => ui'[p] # "loaded"
  BY DEF TypeOK, uiVars, CommandAboutToSave, Ended
<1>6. CopiesAgree'
  <2>1. p \in Req /\ ui'[p] = "waiting" =>
          \A ph \in Phase \ {job[p]} : uiMem[p].status[ph] = disk.status[ph]
    BY DEF Watched, CopiesAgree, uiVars
  <2>2. \A ph \in Phase \ {job[p]} : disk'.status[ph] = disk.status[ph]
    BY <1>2 DEF TypeOK, Ledger
  <2>3. s # "running" => ~CommandAboutToSave(p)'
    BY DEF CommandAboutToSave, TypeOK
  <2>4. \A q \in Proc \ {p} : ~CommandAboutToSave(q)'
    BY <1>4 DEF CommandAboutToSave, Ended
  <2> QED BY <1>4, <1>5, <2>1, <2>2, <2>3, <2>4 DEF CopiesAgree, uiVars
<1>7. OwnEntryIsTrue'
  BY <1>2, <1>4 DEF OwnEntryIsTrue, TypeOK, Ended, Proc
<1> QED BY <1>2, <1>3, <1>6, <1>7 DEF Watched

\* The steps of a migrate.py command, killing included.
LEMMA CommandIsWatched ==
    ASSUME IInv, Watched, NEW p \in Proc, CommandStep(p) \/ KillProcess(p), ~disturbed'
    PROVE  Watched' /\ TableStep
<1> USE DEF IInv
<1>0. /\ Command(p) \in Actor /\ job[p] \in Phase /\ cliMem[p] \in Ledger
      /\ disk.status \in [Phase -> Status] /\ cliMem[p].status \in [Phase -> Status]
  BY DEF Command, Actor, TypeOK, Ledger
<1>1. CASE OpenLedger(p)
  <2>1. \A b \in Proc \ {p} : ~Open(b)
    BY <1>1 DEF OpenLedger, Overlap
  <2>2. cliMem' = [cliMem EXCEPT ![p] = disk]
    BY <1>1, <2>1, LoadedIsTheFile DEF OpenLedger, Watched
  <2>3. Alone'
    BY <1>1, <2>1 DEF OpenLedger, Alone, Open, uiVars, TypeOK
  <2>4. CopiesAgree'
    BY <1>1, <2>2 DEF OpenLedger, Watched, CopiesAgree, CommandAboutToSave, uiVars, TypeOK
  <2>5. OwnEntryIsTrue'
    BY <1>1 DEF OpenLedger, Watched, OwnEntryIsTrue, uiVars, TypeOK, Proc
  <2>6. UNCHANGED Table!vars
    BY <1>1 DEF OpenLedger, Overlap, Table!vars
  <2> QED BY <1>1, <2>3, <2>4, <2>5, <2>6 DEF OpenLedger, Watched, TableStep
<1>2. CASE TakeLock(p)
  <2>1. PICK s \in {"locked", "exit1"} :
          /\ cli' = [cli EXCEPT ![p] = s] /\ cli[p] = "open"
          /\ s = "locked" => cliMem' = cliMem
    BY <1>2 DEF TakeLock, End
  <2>2. \A q \in Proc \ {p} : cliMem'[q] = cliMem[q]
    BY <1>2 DEF TakeLock, End, TypeOK
  <2>3. ~torn' /\ UNCHANGED <<disk, job, uiVars, disturbed>>
    BY <1>2 DEF TakeLock, Watched
  <2> QED BY <2>1, <2>2, <2>3, NoWriteIsWatched DEF Running, Ended
<1>3. CASE BeginPhase(p)
  <2>1. disk'.status = [cliMem[p].status EXCEPT ![job[p]] = "running"] /\ ~torn'
    BY <1>3 DEF BeginPhase, Mutate, Save, PhaseStart, Mark
  <2>2. /\ cliMem'[p] = disk' /\ cli' = [cli EXCEPT ![p] = "running"] /\ CommandAboutToSave(p)
        /\ UNCHANGED <<job, uiVars, disturbed>>
    BY <1>3 DEF BeginPhase, Mutate, Save, TypeOK, CommandAboutToSave
  <2>3. Watched' /\ disk'.status = [disk.status EXCEPT ![job[p]] = "running"]
    BY <2>1, <2>2, WriteIsWatched
  <2>4. Table!Start(job[p])
    BY <2>2, <2>3 DEF Table!Start
  <2> QED BY <1>0, <2>3, <2>4 DEF TableStep, Table!Next
<1>4. CASE RecordUnsupported(p)
  <2>1. cli[p] = "running" /\ CommandAboutToSave(p)
    BY <1>4 DEF RecordUnsupported, CommandAboutToSave
  <2>2. cliMem[p].status = disk.status /\ disk.status[job[p]] = "running"
    BY <2>1 DEF Watched, CopiesAgree, OwnEntryIsTrue
  <2>3. disk'.status = cliMem[p].status /\ ~torn'
    BY <1>4 DEF RecordUnsupported, Mutate, Save, AddUnsupported
  <2>4. disk'.status = [cliMem[p].status EXCEPT ![job[p]] = "running"]
    BY <1>0, <2>2, <2>3
  <2>5. /\ cliMem'[p] = disk' /\ cli' = [cli EXCEPT ![p] = "running"]
        /\ UNCHANGED <<job, uiVars, disturbed>>
    BY <1>4, <2>1 DEF RecordUnsupported, Mutate, Save, TypeOK
  <2>6. Watched'
    BY <2>1, <2>3, <2>4, <2>5, WriteIsWatched
  <2> QED BY <2>2, <2>3, <2>5, <2>6 DEF TableStep, Table!vars
<1>5. CASE CompletePhase(p)
  <2>1. disk'.status = [cliMem[p].status EXCEPT ![job[p]] = "done"] /\ ~torn'
    BY <1>5 DEF CompletePhase, Mutate, Save, PhaseDone, Mark
  <2>2. /\ cli[p] = "running" /\ cli' = [cli EXCEPT ![p] = "finished"] /\ CommandAboutToSave(p)
        /\ UNCHANGED <<job, uiVars, disturbed>>
    BY <1>5 DEF CompletePhase, CommandAboutToSave
  <2>3. Watched' /\ disk'.status = [disk.status EXCEPT ![job[p]] = "done"]
    BY <2>1, <2>2, WriteIsWatched
  <2>4. Table!Finish(job[p])
    BY <2>2, <2>3 DEF Table!Finish, Watched, OwnEntryIsTrue
  <2> QED BY <1>0, <2>3, <2>4 DEF TableStep, Table!Next
<1>6. CASE PreMigrationFails(p)
  <2>1. disk'.status = [cliMem[p].status EXCEPT ![job[p]] = "failed"] /\ ~torn'
    BY <1>6 DEF PreMigrationFails, Save, PhaseFailed, Mark
  <2>2. /\ cli[p] = "running" /\ cli' = [cli EXCEPT ![p] = "exit1"] /\ CommandAboutToSave(p)
        /\ UNCHANGED <<job, uiVars, disturbed>>
    BY <1>6 DEF PreMigrationFails, CommandAboutToSave, End
  <2>3. Watched' /\ disk'.status = [disk.status EXCEPT ![job[p]] = "failed"]
    BY <2>1, <2>2, WriteIsWatched
  <2>4. Table!Finish(job[p])
    BY <2>2, <2>3 DEF Table!Finish, Watched, OwnEntryIsTrue
  <2> QED BY <1>0, <2>3, <2>4 DEF TableStep, Table!Next
<1>7. CASE Exit(p)
  <2>1. PICK s \in {"exit0", "exit1"} :
          /\ End(p, s) /\ cli[p] \in Running /\ (s = "exit0" => cli[p] = "finished")
    BY <1>7 DEF Exit, Running
  <2>2. cli' = [cli EXCEPT ![p] = s] /\ \A q \in Proc \ {p} : cliMem'[q] = cliMem[q]
    BY <2>1 DEF End, TypeOK
  <2>3. ~torn' /\ UNCHANGED <<disk, job, uiVars, disturbed>>
    BY <1>7 DEF Exit, Watched
  <2> QED BY <2>1, <2>2, <2>3, NoWriteIsWatched DEF Running, Ended
<1>8. CASE KillProcess(p)
  <2>1. cli' = [cli EXCEPT ![p] = "killed"] /\ \A q \in Proc \ {p} : cliMem'[q] = cliMem[q]
    BY <1>8 DEF KillProcess, End, TypeOK
  <2>2. ~torn' /\ UNCHANGED <<disk, job, uiVars, disturbed>> /\ cli[p] \in Running
    BY <1>8 DEF KillProcess, CutShort, Watched
  <2> QED BY <2>1, <2>2, NoWriteIsWatched DEF Running, Ended
<1> QED BY <1>1, <1>2, <1>3, <1>4, <1>5, <1>6, <1>7, <1>8 DEF CommandStep

\* Runs that overlapped have overlapped for good.
LEMMA OverlapStays == [Next]_vars /\ disturbed => disturbed'
BY DEF Next, vars, Request, StartChild, Reap, Settle, Timeout, KillProcess, CutShort, Overlap,
       RunCommand, CommandStep, OpenLedger, TakeLock, BeginPhase, RecordUnsupported,
       CompletePhase, PreMigrationFails, Exit, ConsoleDies, LockGoesStale

\* Every step is one of the table, and keeps a run's copies and the file together.
LEMMA NextTableInv ==
    IInv /\ IInv' /\ TableInv /\ [Next]_vars => TableInv' /\ TableStep
<1> SUFFICES ASSUME IInv, IInv', TableInv, [Next]_vars PROVE TableInv' /\ TableStep
  OBVIOUS
<1>1. CASE disturbed'
  BY <1>1, OverlapForfeits DEF TableInv
<1>2. CASE ~disturbed'
  <2>0. Watched
    BY <1>2, OverlapStays DEF TableInv
  <2> SUFFICES Watched' /\ TableStep
    BY DEF TableInv
  <2>1. ASSUME NEW r \in Req, NEW ph \in Phase, Request(r, ph) PROVE Watched' /\ TableStep
    BY <1>2, <2>0, <2>1, RequestIsWatched
  <2>2. ASSUME NEW r \in Req, StartChild(r) \/ Reap(r) PROVE Watched' /\ TableStep
    BY <1>2, <2>0, <2>2, StartChildIsWatched, ReapIsWatched
  <2>3. ASSUME NEW p \in Proc, CommandStep(p) \/ KillProcess(p) PROVE Watched' /\ TableStep
    BY <1>2, <2>0, <2>3, CommandIsWatched
  <2>4. ASSUME NEW c \in Cli, NEW ph \in Phase, RunCommand(c, ph) PROVE Watched' /\ TableStep
    BY <1>2, <2>0, <2>4, RunCommandIsWatched
  <2>5. CASE ConsoleDies
    BY <1>2, <2>0, <2>5, ConsoleDiesIsWatched
  <2>6. CASE LockGoesStale \/ UNCHANGED vars
    BY <2>0, <2>6
    DEF LockGoesStale, vars, uiVars, cliVars, Watched, Alone, Open, CopiesAgree,
        CommandAboutToSave, OwnEntryIsTrue, TableStep, Table!vars
  <2> QED BY <2>1, <2>2, <2>3, <2>4, <2>5, <2>6 DEF Next, Timeout, Proc
<1> QED BY <1>1, <1>2
-----------------------------------------------------------------------------
\* Types, and that only deploy commands hold the deploy lock.
THEOREM TypeCorrect == Spec => []TypeOK
<1>1. IInv => TypeOK BY DEF IInv
<1> QED BY InitIInv, NextIInv, <1>1, PTL DEF Spec

\* The ledger calls a phase done only if some command completed it.
THEOREM DoneWasEarned == Spec => []DoneIsEarned
<1>1. IInv => DoneIsEarned BY DEF IInv, EveryCopyIsHonest, Honest, DoneIsEarned
<1> QED BY InitIInv, NextIInv, <1>1, PTL DEF Spec

\* HolderIsDeploying: every way out of cmd_deploy (migrate.py), but a kill, goes
\* through the release of its lock.
THEOREM LockIsGivenBack == Spec => []HolderIsDeploying
<1>1. IInv => HolderIsDeploying BY DEF IInv
<1> QED BY InitIInv, NextIInv, <1>1, PTL DEF Spec
\* PipelineRun implements PhaseTable: as long as runs do not overlap and no
\* write is cut short, a run moves the entry of its own phase and no other.
THEOREM Implements == Spec => ImplementsPhaseTable
<1>1. Init => Table!Init /\ TableInv
  BY DEF Init, Table!Init, NewLedger, TableInv, Watched, Alone, Open, CopiesAgree,
         CommandAboutToSave, OwnEntryIsTrue, Running
<1>2. IInv /\ IInv' /\ TableInv /\ [Next]_vars => TableInv' /\ [Table!Next]_Table!vars
  BY NextTableInv DEF TableStep
<1> QED BY <1>1, <1>2, InitIInv, NextIInv, PTL DEF Spec, ImplementsPhaseTable, Table!Spec
=============================================================================
