-------------------------- MODULE DeployLockProofs --------------------------
(***************************************************************************)
(* What the deploy command promises over its lock file, for any number of  *)
(* operators, objects and runs.  The proof puts together those of the      *)
(* command and of the lock: every step is a step of PhaseLock, so that     *)
(* PhaseLock's invariant holds; that invariant makes every step, for as    *)
(* long as the lock's trust holds, a step of Deployment, so that           *)
(* Deployment's invariant holds; and what rests on no lock is kept by any  *)
(* step.                                                                   *)
(***************************************************************************)
EXTENDS DeployLock, TLAPS

DP == INSTANCE DeploymentProofs WITH lock <- Held
LP == INSTANCE PhaseLockProofs WITH Proc <- Op, NoProc <- None, pc <- at

\* A process is in the phase of the lock when the command is behind acquire(),
\* and in acquire() when the command waits for it.
Places ==
    \A p \in Op : /\ at[p] = "phase" <=> pc[p] \in DP!Inside
                  /\ at[p] \in {"check", "read", "open", "write"} => pc[p] = "lock"

\* Who has decided to write the lock file has seen that nobody holds it.
SeenFree == LP!Quiet => \A p \in Op : at[p] \in {"open", "write"} => file # "fresh"

\* The inductive invariant.
IInv ==
    /\ LP!IInv /\ Places /\ SeenFree
    /\ DP!TypeOK /\ DP!Started /\ DP!Recorded /\ DP!Logged
    /\ LP!Quiet => DP!DeployInv
-----------------------------------------------------------------------------
\* The proofs of the command are about the command, ...
LEMMA SameCommand == \A p \in Op : D!Command(p) <=> DP!Command(p)
BY DEF D!Command, DP!Command, D!Start, DP!Start, D!GateRefuses, DP!GateRefuses,
       D!LoadRecords, DP!LoadRecords, D!SaveRecord, DP!SaveRecord, D!Begin,
       DP!Begin, D!ChecksPass, DP!ChecksPass, D!Rehearse, DP!Rehearse, D!Push,
       DP!Push, D!PushFails, DP!PushFails, D!Pushed, DP!Pushed, D!Conflict,
       DP!Conflict, D!NextUp, DP!NextUp, D!Done, DP!Done, D!Servers, DP!Servers,
       D!Go, DP!Go, D!Exit, DP!Exit, D!Emit, DP!Emit, D!Touched, DP!Touched,
       D!Fresh, DP!Fresh, D!Genesis, DP!Genesis, D!Said, DP!Said, D!Idle, DP!Idle, D!files, DP!files, D!logs, DP!logs, D!bounds,
       DP!bounds

\* ... in its steps at the lock ...
LEMMA SameAtLock ==
    \A p \in Op : /\ D!Refused(p) <=> DP!Refused(p)
                  /\ D!Enter(p) <=> DP!Enter(p)
                  /\ D!Ends(p) <=> DP!Ends(p)
                  /\ D!Kill(p) <=> DP!Kill(p)
BY DEF D!Refused, DP!Refused, D!Enter, DP!Enter, D!Ends, DP!Ends, D!LoginFails,
       DP!LoginFails, D!ChecksFail, DP!ChecksFail, D!Finish, DP!Finish, D!Kill,
       DP!Kill, D!Chain, DP!Chain, D!Rehashed, DP!Rehashed, D!Genesis, DP!Genesis,
       D!Chained, DP!Chained, D!Go, DP!Go, D!Exit, DP!Exit, D!Said, DP!Said, D!Idle, DP!Idle, D!files,
       DP!files, D!logs, DP!logs, D!bounds, DP!bounds

\* ... and around it.
LEMMA SameOthers == D!Others <=> DP!Others
BY DEF D!Others, DP!Others, D!Transform, DP!Transform, D!Meddle, DP!Meddle,
       D!ChainReads, DP!ChainReads, D!ChainWrites, DP!ChainWrites, D!Chain, DP!Chain,
       D!Rehashed, DP!Rehashed, D!Genesis, DP!Genesis, D!Touched, DP!Touched, D!Chained,
       DP!Chained, D!Tamper, DP!Tamper, D!Tampered, DP!Tampered, D!Edited, DP!Edited,
       D!Without, DP!Without, D!Event, DP!Event, D!Run, DP!Run, D!files, DP!files,
       D!logs, DP!logs, D!bounds, DP!bounds

\* They start alike and say the same.
LEMMA SameStates ==
    /\ D!Init <=> DP!Init
    /\ D!TypeOK <=> DP!TypeOK
    /\ D!vars = DP!vars
    /\ D!NothingDangles <=> DP!NothingDangles
    /\ D!CleanDoneIsDeployed <=> DP!CleanDoneIsDeployed
    /\ D!WritersAreOnRecord <=> DP!WritersAreOnRecord
BY DEF D!Run, DP!Run, D!Init, DP!Init, D!TypeOK, DP!TypeOK, D!vars, DP!vars, D!NothingDangles,
       DP!NothingDangles, D!CleanDoneIsDeployed, DP!CleanDoneIsDeployed,
       D!WritersAreOnRecord, DP!WritersAreOnRecord, D!Line, DP!Line, D!Hash, DP!Hash,
       D!Event, DP!Event, D!Chaining, DP!Chaining, D!Genesis, DP!Genesis,
       D!Locals, DP!Locals, D!Word, DP!Word, D!Place, DP!Place, D!Inside, DP!Inside,
       D!Fresh, DP!Fresh, D!Said, DP!Said, D!Idle, DP!Idle

\* So it is with the lock.
LEMMA SameLock ==
    /\ L!Init <=> LP!Init
    /\ L!TypeOK <=> LP!TypeOK
    /\ L!Quiet <=> LP!Quiet
    /\ L!GrowStale <=> LP!GrowStale
    /\ \A p \in Op : /\ L!Launch(p) <=> LP!Launch(p)
                     /\ L!CheckExists(p) <=> LP!CheckExists(p)
                     /\ L!ReadLock(p) <=> LP!ReadLock(p)
                     /\ L!WriteOpen(p) <=> LP!WriteOpen(p)
                     /\ L!WriteBody(p) <=> LP!WriteBody(p)
                     /\ L!Release(p) <=> LP!Release(p)
                     /\ L!Kill(p) <=> LP!Kill(p)
BY DEF L!Init, LP!Init, L!TypeOK, LP!TypeOK, L!PCs, LP!PCs, L!Quiet, LP!Quiet, L!GrowStale,
       LP!GrowStale, L!InPhase, LP!InPhase, L!Acquiring, LP!Acquiring, L!Launch,
       LP!Launch, L!CheckExists, LP!CheckExists, L!ReadLock, LP!ReadLock,
       L!WriteOpen, LP!WriteOpen, L!WriteBody, LP!WriteBody, L!Release, LP!Release,
       L!Unlink, LP!Unlink, L!Kill, LP!Kill
-----------------------------------------------------------------------------
\* Every step takes the lock file from one state of PhaseLock to another.
LEMMA LockStep == [Next]_vars => [LP!Next]_LP!vars
BY SameLock DEF Next, Try, Conflict, Enter, Leave, Killed, GrowStale, vars, lockfile, LP!Next,
                LP!Acquire, LP!vars

\* Every step does to the rest what a step of the command does.
LEMMA CommandStep == [Next]_vars => DP!Unlocked
BY SameCommand, SameAtLock, SameOthers
DEF Next, Try, Conflict, Enter, Leave, Killed, GrowStale, vars, command, DP!Unlocked

\* Between its visits to the lock a process neither enters nor leaves the part
\* of the command that the lock protects.
LEMMA CommandKeepsSide ==
    ASSUME NEW p \in Op, DP!TypeOK, DP!Command(p)
    PROVE  /\ pc[p] # "lock" /\ (pc'[p] \in DP!Inside <=> pc[p] \in DP!Inside)
           /\ \A q \in Op \ {p} : pc'[q] = pc[q]
<1> USE DEF DP!TypeOK, DP!Inside
<1>1. ASSUME NEW exec \in BOOLEAN, DP!Start(p, exec)
      PROVE  pc[p] = "idle" /\ pc' = [pc EXCEPT ![p] = IF exec THEN "approve" ELSE "lock"]
  BY <1>1 DEF DP!Start, DP!Go
<1>2. CASE DP!GateRefuses(p)
  BY <1>2 DEF DP!GateRefuses, DP!Exit
<1>3. CASE DP!LoadRecords(p) \/ DP!SaveRecord(p) \/ DP!Begin(p) \/ DP!Pushed(p)
           \/ \E blind \in BOOLEAN : DP!ChecksPass(p, blind)
  BY <1>3 DEF DP!LoadRecords, DP!SaveRecord, DP!Begin, DP!Pushed, DP!ChecksPass, DP!Go
<1>4. CASE \/ \E o \in Obj : DP!Rehearse(p, o) \/ DP!Push(p, o)
           \/ \E o \in Obj, applied \in BOOLEAN : DP!PushFails(p, o, applied)
  BY <1>4 DEF DP!Rehearse, DP!Push, DP!PushFails
<1> QED BY <1>1, <1>2, <1>3, <1>4 DEF DP!Command

\* A process is in the phase of the lock when the command is behind acquire().
LEMMA PlacesStep ==
    LP!TypeOK /\ DP!TypeOK /\ Places /\ [Next]_vars => Places'
<1> SUFFICES ASSUME LP!TypeOK, DP!TypeOK, Places, [Next]_vars PROVE Places'
  OBVIOUS
<1> USE DEF Places, LP!TypeOK, DP!TypeOK, DP!Inside
<1>1. ASSUME NEW p \in Op, Try(p) PROVE Places'
  <2>1. pc[p] = "lock" /\ pc' = pc
    BY <1>1 DEF Try, command
  <2>2. at'[p] # "phase" /\ \A q \in Op \ {p} : at'[q] = at[q]
    BY <1>1 DEF Try, L!Launch, L!CheckExists, L!ReadLock, L!WriteOpen
  <2> QED BY <2>1, <2>2
<1>2. ASSUME NEW p \in Op, Conflict(p) \/ Leave(p) PROVE Places'
  <2>1. at'[p] \in {"idle", "refused"} /\ \A q \in Op \ {p} : at'[q] = at[q]
    BY <1>2 DEF Conflict, Leave, L!ReadLock, L!Release
  <2>2. pc'[p] = "idle" /\ \A q \in Op \ {p} : pc'[q] = pc[q]
    BY <1>2 DEF Conflict, Leave, D!Refused, D!Ends, D!LoginFails, D!ChecksFail, D!Finish,
                D!Exit
  <2> QED BY <2>1, <2>2
<1>3. ASSUME NEW p \in Op, Enter(p) PROVE Places'
  <2>1. at'[p] = "phase" /\ \A q \in Op \ {p} : at'[q] = at[q]
    BY <1>3 DEF Enter, L!WriteBody
  <2>2. pc'[p] = "login" /\ \A q \in Op \ {p} : pc'[q] = pc[q]
    BY <1>3 DEF Enter, D!Enter, D!Go
  <2> QED BY <2>1, <2>2
<1>4. ASSUME NEW p \in Op, Killed(p) PROVE Places'
  <2>1. /\ at'[p] \in {"idle", "refused", "dead"}
        /\ \A q \in Op \ {p} : at'[q] = at[q]
    BY <1>4 DEF Killed, L!Kill, lockfile
  <2>2. pc'[p] = "idle" /\ \A q \in Op \ {p} : pc'[q] = pc[q]
    BY <1>4 DEF Killed, D!Kill, D!Exit
  <2> QED BY <2>1, <2>2
<1>5. ASSUME NEW p \in Op, D!Command(p), UNCHANGED lockfile PROVE Places'
  BY <1>5, SameCommand, CommandKeepsSide DEF lockfile
<1>6. CASE UNCHANGED <<at, pc>>
  BY <1>6
<1>7. CASE UNCHANGED lockfile /\ D!Others
  <2>1. UNCHANGED <<at, pc>>
    BY <1>7 DEF lockfile, D!Others, D!Transform, D!Meddle, D!ChainReads, D!ChainWrites,
                    D!Tamper
  <2> QED BY <1>6, <2>1
<1>8. CASE GrowStale \/ UNCHANGED vars
  <2>1. UNCHANGED <<at, pc>>
    BY <1>8 DEF GrowStale, L!GrowStale, vars, lockfile, command
  <2> QED BY <1>6, <2>1
<1> QED BY <1>1, <1>2, <1>3, <1>4, <1>5, <1>7, <1>8 DEF Next

\* Who has decided to write has seen that nobody holds the lock, and nobody
\* else takes it meanwhile.
LEMMA SeenFreeStep == LP!IInv /\ SeenFree /\ [LP!Next]_LP!vars => SeenFree'
<1> SUFFICES ASSUME LP!IInv, SeenFree, [LP!Next]_LP!vars, LP!Quiet',
                    NEW q \in Op, at'[q] \in {"open", "write"}
             PROVE  file' # "fresh"
  BY DEF SeenFree
<1>1. LP!TypeOK
  BY DEF LP!IInv
<1>2. LP!Quiet
  BY <1>1, NothingIsNoOne, LP!QuietBefore
<1> USE <1>1, <1>2 DEF LP!TypeOK, SeenFree
<1>3. ASSUME NEW p \in Op,
             LP!Launch(p) \/ LP!CheckExists(p) \/ LP!ReadLock(p) \/ LP!WriteOpen(p)
      PROVE  file' # "fresh"
  BY <1>3 DEF LP!Launch, LP!CheckExists, LP!ReadLock, LP!WriteOpen
<1>4. ASSUME NEW p \in Op, LP!WriteBody(p) PROVE file' # "fresh"
  <2>1. q # p /\ at[q] \in {"open", "write"} /\ at[p] = "write"
    BY <1>4 DEF LP!WriteBody
  <2>2. q = p
    BY <2>1 DEF LP!IInv, LP!OneAcquirer, LP!Acquiring
  <2> QED BY <2>1, <2>2
<1>5. ASSUME NEW p \in Op, LP!Release(p) \/ LP!Kill(p) PROVE file' # "fresh"
  BY <1>5 DEF LP!Release, LP!Unlink, LP!Kill
<1>6. CASE LP!GrowStale \/ UNCHANGED LP!vars
  BY <1>6 DEF LP!GrowStale, LP!vars
<1> QED BY <1>3, <1>4, <1>5, <1>6 DEF LP!Next, LP!Acquire

\* As long as the lock's trust holds, the fresh file is the lock: it is taken when
\* nobody has it, given back by whoever has it, and goes stale with nobody inside.
LEMMA StepIsDeployments ==
    IInv /\ [Next]_vars /\ LP!Quiet' => [D!Next]_(D!vars)
<1> SUFFICES ASSUME IInv, Next, LP!Quiet' PROVE [D!Next]_(D!vars)
  BY DEF vars, command, lockfile, D!vars, Held
<1>1. LP!TypeOK /\ Places /\ SeenFree
  BY DEF IInv, LP!IInv
<1>2. LP!Quiet
  BY <1>1, LockStep, NothingIsNoOne, LP!QuietBefore
<1>3. /\ \A p \in Op : at[p] = "write" => p \in attached /\ file = "empty"
      /\ \A p \in Op : at[p] \in {"open", "write"} => Held = None
  BY <1>1, <1>2 DEF IInv, LP!IInv, LP!WriterIsAttached, SeenFree, Held
<1>4. file = "fresh" => owner \in Op /\ owner # None /\ Held = owner
  BY <1>1, NothingIsNoOne DEF LP!TypeOK, Held
<1>5. ASSUME NEW p \in Op, Try(p) PROVE UNCHANGED D!vars
  <2>1. Held' = Held
    <3>1. CASE L!WriteOpen(p)
      BY <1>3, <3>1 DEF L!WriteOpen, Held
    <3>2. CASE L!Launch(p) \/ L!CheckExists(p) \/ L!ReadLock(p)
      BY <3>2 DEF L!Launch, L!CheckExists, L!ReadLock, Held
    <3> QED BY <1>5, <3>1, <3>2 DEF Try
  <2> QED BY <1>5, <2>1 DEF Try, command, D!vars
<1>6. ASSUME NEW p \in Op, Conflict(p) PROVE D!LockConflict(p)
  <2>1. file = "fresh" /\ UNCHANGED <<file, owner>>
    BY <1>1, <1>6 DEF Conflict, L!ReadLock, LP!TypeOK
  <2> QED BY <1>4, <1>6, <2>1 DEF Conflict, D!LockConflict, Held
<1>7. ASSUME NEW p \in Op, Enter(p) PROVE D!TakeLock(p)
  <2>1. at[p] = "write"
    BY <1>7 DEF Enter, L!WriteBody
  <2>2. file' = "fresh" /\ owner' = p
    BY <1>3, <1>7, <2>1 DEF Enter, L!WriteBody
  <2> QED BY <1>3, <1>7, <2>1, <2>2 DEF Enter, D!TakeLock, Held
<1>8. ASSUME NEW p \in Op, Leave(p) PROVE D!Leave(p)
  <2>1. Held' \in {None, Held}
    BY <1>8 DEF Leave, L!Release, L!Unlink, Held
  <2> QED BY <1>8, <2>1 DEF Leave, D!Leave
<1>9. ASSUME NEW p \in Op, Killed(p) PROVE D!Kill(p)
  BY <1>9 DEF Killed
<1>10. CASE GrowStale
  <2>1. file = "fresh" /\ Held' = None /\ UNCHANGED command
    BY <1>10 DEF GrowStale, L!GrowStale, Held
  <2>2. at[owner] # "phase"
    BY <1>4, <1>10 DEF GrowStale, L!GrowStale, L!InPhase, LP!Quiet
  <2>3. pc[owner] \notin D!Inside
    BY <1>1, <1>4, <2>1, <2>2 DEF Places, D!Inside, DP!Inside
  <2>4. D!LockGoesStale
    BY <1>4, <2>1, <2>3 DEF D!LockGoesStale, command, D!files, D!logs, D!bounds
  <2> QED BY <2>4 DEF D!Next
<1> QED BY <1>5, <1>6, <1>7, <1>8, <1>9, <1>10 DEF Next, D!Next

\* The two invariants hold at the start ...
LEMMA InitIInv == Init => IInv
<1> SUFFICES ASSUME Init PROVE IInv
  OBVIOUS
<1>1. LP!Init /\ DP!Init
  BY SameLock, SameStates DEF Init
<1>2. LP!IInv
  BY <1>1, NothingIsNoOne, LP!InitIInv
<1>3. DP!DeployInv
  BY <1>1, DP!InitInv, ObjectsHaveASection, NeedsComeEarlier, ConstantsAreSets,
     NothingIsNoOne, TornIsNoRecord, Bounds
<1>4. Places /\ SeenFree
  BY <1>1 DEF LP!Init, DP!Init, Places, SeenFree, DP!Inside
<1> QED BY <1>2, <1>3, <1>4 DEF IInv, DP!DeployInv

\* For as long as the trust of the lock holds, the command is in a state and takes
\* a step of the command over a lock that is taken in one step.
LEMMA QuietStep ==
    ASSUME IInv, [Next]_vars, LP!Quiet'
    PROVE  DP!DeployInv /\ [DP!Next]_(DP!vars)
<1>0. LP!TypeOK
  BY DEF IInv, LP!IInv
<1>1. LP!Quiet
  BY <1>0, LockStep, NothingIsNoOne, LP!QuietBefore
<1>2. [D!Next]_(D!vars)
  BY StepIsDeployments
<1>3. [DP!Next]_(DP!vars)
  BY <1>2, SameStates, SameCommand, SameAtLock, SameOthers
  DEF D!Next, DP!Next, D!LockConflict, DP!LockConflict, D!TakeLock, DP!TakeLock, D!Leave,
      DP!Leave, D!LockGoesStale, DP!LockGoesStale, D!Inside, DP!Inside, D!files, DP!files,
      D!logs, DP!logs, D!bounds, DP!bounds, D!vars, DP!vars
<1> QED BY <1>1, <1>3 DEF IInv

\* ... and are kept.
LEMMA NextIInv == IInv /\ [Next]_vars => IInv'
<1> SUFFICES ASSUME IInv, [Next]_vars PROVE IInv'
  OBVIOUS
<1>0. /\ LP!IInv /\ LP!TypeOK /\ Places /\ SeenFree
      /\ DP!TypeOK /\ DP!Started /\ DP!Recorded /\ DP!Logged
  BY DEF IInv, LP!IInv
<1> USE ObjectsHaveASection, NeedsComeEarlier, ConstantsAreSets, NothingIsNoOne,
        TornIsNoRecord, Bounds
<1>1. LP!IInv'
  BY <1>0, LockStep, LP!NextIInv
<1>2. Places' /\ SeenFree'
  BY <1>0, LockStep, PlacesStep, SeenFreeStep
<1>3. Held' \in Op \cup {None}
  BY <1>1 DEF LP!IInv, LP!TypeOK, Held
<1>4. DP!TypeOK'
  BY <1>0, <1>3, CommandStep, DP!TypeStep
<1>5. DP!Started' /\ DP!Recorded' /\ DP!Logged'
  BY <1>0, CommandStep, DP!StartedStep, DP!RecordedStep, DP!LoggedStep
<1>6. ASSUME LP!Quiet' PROVE DP!DeployInv'
  BY <1>6, QuietStep, DP!NextInv
<1> QED BY <1>1, <1>2, <1>4, <1>5, <1>6 DEF IInv

\* They hold throughout.
LEMMA Invariance == Spec => []IInv
BY InitIInv, NextIInv, PTL DEF Spec
-----------------------------------------------------------------------------
\* TypeOK: the command and its lock file keep their types.
THEOREM TypeCorrect == Spec => []TypeOK
<1>1. IInv => TypeOK
  BY SameStates, SameLock DEF IInv, LP!IInv, TypeOK
<1> QED BY <1>1, Invariance, PTL

\* DeploysAsOne: cmd_deploy over the file of core/lock.py implements cmd_deploy over
\* a lock that is taken in one step, for as long as acquire() calls do not overlap
\* and no deployment outlives its lock.
THEOREM Implements == Spec => DeploysAsOne
<1>1. IInv /\ [Next]_vars => [L!Quiet' => [D!Next]_(D!vars)]_vars
  <2>1. L!Quiet' => LP!Quiet'
    BY DEF L!Quiet, LP!Quiet
  <2> QED BY <2>1, StepIsDeployments
<1> QED BY <1>1, Invariance, PTL DEF Spec, DeploysAsOne

\* SoundWhileQuiet: until then pushes are in order and "done" means deployed, though
\* the processes go through the file one system call at a time.
THEOREM SoundOverTheFile == Spec => []SoundWhileQuiet
<1>1. IInv => SoundWhileQuiet
  BY SameStates, SameLock, DP!OrderOfPushes, ObjectsHaveASection, NeedsComeEarlier,
     ConstantsAreSets, NothingIsNoOne, TornIsNoRecord, Bounds
  DEF IInv, SoundWhileQuiet, DP!DeployInv, DP!Finished
<1> QED BY <1>1, Invariance, PTL

\* WritersAreOnRecord: that a run which changed the device has its governance record
\* does not rest on the lock; it holds with any number of processes inside.
THEOREM RecordsNeedNoLock == Spec => []WritersAreOnRecord
<1>1. IInv => WritersAreOnRecord
  BY SameStates DEF IInv, WritersAreOnRecord, DP!Recorded, DP!WritersAreOnRecord
<1> QED BY <1>1, Invariance, PTL

\* ServersSurvive: a virtual server that the checks of a deployment have seen is not
\* overwritten, for as long as the file lets one deployment in at a time.
THEOREM SeenServersSurvive == Spec => ServersSurvive
<1>1. IInv /\ [Next]_vars =>
        [L!Quiet' => \A o \in Servers \cap Home : dev[o] # "absent" /\ dev'[o] # dev[o] =>
            \/ \E what \in {"absent", "foreign"} : D!Meddle(o, what)
            \/ \E p \in Op : Held = p /\ (run[p].blind \/ o \in late)]_vars
  <2> SUFFICES ASSUME IInv, [Next]_vars, L!Quiet', NEW o \in Servers \cap Home,
                      dev[o] # "absent", dev'[o] # dev[o]
               PROVE  \/ \E what \in {"absent", "foreign"} : D!Meddle(o, what)
                      \/ \E p \in Op : Held = p /\ (run[p].blind \/ o \in late)
    OBVIOUS
  <2>1. DP!DeployInv /\ [DP!Next]_(DP!vars)
    BY QuietStep DEF L!Quiet, LP!Quiet
  <2>2. o \in DP!Servers \cap Home
    BY DEF Servers, DP!Servers
  <2>3. \/ \E what \in {"absent", "foreign"} : DP!Meddle(o, what)
        \/ \E p \in Op : Held = p /\ (run[p].blind \/ o \in late)
    BY <2>1, <2>2, DP!SurvivingStep, ObjectsHaveASection, NeedsComeEarlier,
       ConstantsAreSets, NothingIsNoOne, TornIsNoRecord, Bounds
  <2> QED BY <2>3 DEF D!Meddle, DP!Meddle, D!files, DP!files, D!logs, DP!logs
<1> QED BY <1>1, Invariance, PTL DEF Spec, ServersSurvive

\* TamperingShows: verify_chain (audit_export.py) tells of a log that was edited after it
\* was chained, whoever the lock let in.
THEOREM VerdictsNeedNoLock == Spec => []TamperingShows
<1>1. D!TamperingShows <=> DP!TamperingShows
  BY DEF D!TamperingShows, DP!TamperingShows, D!Continues, DP!Continues, D!Verify, DP!Verify,
         D!Intact, DP!Intact, D!Link, DP!Link, D!Computed, DP!Computed, D!Genesis, DP!Genesis
<1>2. IInv => TamperingShows
  BY <1>1, DP!VerdictOfTheLogs, ObjectsHaveASection, NeedsComeEarlier, ConstantsAreSets,
     NothingIsNoOne, TornIsNoRecord, Bounds DEF IInv, TamperingShows
<1> QED BY <1>2, Invariance, PTL
=============================================================================
