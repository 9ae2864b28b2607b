-------------------------- MODULE GateConsoleProofs --------------------------
(***************************************************************************)
(* For any number of threads, users and requests: a deploy approval that   *)
(* counts as resolved carries two names unless the shell wrote it, no gate *)
(* is open and no phase started that nobody opened the gates of, and       *)
(* decisions.jsonl has every entry of every manifest.                      *)
(*                                                                         *)
(* The properties speak of the file, and the file is overwritten from the  *)
(* threads' copies and from snapshots: the inductive invariant says of     *)
(* each of these manifests what it says of the file, and of every          *)
(* instruction still to be carried out that it will not break it.          *)
(***************************************************************************)
EXTENDS GateConsole, SequenceTheorems, TLAPS

Approval == [resolved : BOOLEAN, ready : BOOLEAN,
             approver : User \cup {NoUser}, signer : User \cup {NoUser}]

\* A manifest that claims no more than was opened, signed and logged.
Sound(m, open, shell, lines) ==
    /\ m \in Manifest
    /\ \A g \in Gate : m.gate[g] => g \in open
    /\ m.deploy.resolved => "deploy" \in open
    /\ m.deploy.resolved /\ ~shell => Countersigned(m.deploy)
    /\ m.audit \subseteq lines

\* Changes and instructions the handlers come up with.
Change ==
    [to : {"nothing", "lock", "reset"}]
    \cup [to : {"gate"}, gate : Gate, value : BOOLEAN]
    \cup [to : {"deploy"}, deploy : {d \in Approval : d.resolved => Countersigned(d)}]
    \cup [to : {"shell"}, deploy : Approval]

Instr ==
    [op : {"audit", "save"}, change : Change]
    \cup [op : {"launch"}, phase : Phase]
    \cup [op : {"commit", "discover", "copy", "reload"}]

LaunchesWereGated ==
    /\ "analyse" \in launched => {"scope", "triage"} \subseteq opened
    /\ "transform" \in launched => {"triage", "vdom"} \subseteq opened
    /\ "deploy" \in launched => {"transform", "deploy"} \subseteq opened

Manifests ==
    /\ Sound(disk, opened, bypassed, log)
    /\ \A s \in snaps : Sound(s, opened, bypassed, log)
    /\ \A t \in Thread : Sound(copy[t], opened, bypassed, log)

Plans ==
    /\ todo \in [Thread -> Seq(Instr)]
    /\ \A t \in Thread : todo[t] # <<>> => id[t] # 0

IInv == TypeOK /\ Manifests /\ Plans /\ LaunchesWereGated
-----------------------------------------------------------------------------
\* What a manifest claims stays true as more is opened and logged.
LEMMA SoundStays ==
    ASSUME NEW m, NEW open, NEW shell \in BOOLEAN, NEW lines, Sound(m, open, shell, lines),
           NEW more, NEW later \in BOOLEAN, NEW longer,
           open \subseteq more, shell => later, lines \subseteq longer
    PROVE  Sound(m, more, later, longer)
BY DEF Sound

\* The defaults claim nothing.
LEMMA DefaultIsSound ==
    ASSUME NEW open, NEW shell, NEW lines
    PROVE  Sound(Default, open, shell, lines)
BY DEF Sound, Default, Unsigned, Manifest, Gate

\* A change makes a manifest claim only what the change opens.
LEMMA ApplyIsSound ==
    ASSUME NEW m, NEW open, NEW shell \in BOOLEAN, NEW lines, Sound(m, open, shell, lines),
           NEW c \in Change
    PROVE  Sound(Apply(m, c), open \cup Opens(c), shell \/ c.to = "shell", lines)
<1>1. m \in Manifest /\ m.deploy \in Approval
  BY DEF Sound, Manifest, Approval
<1>2. CASE c \in [to : {"nothing", "lock", "reset"}]
  <2>1. Opens(c) = {}
    BY <1>2 DEF Opens
  <2>2. CASE c.to = "nothing"
    BY <2>1, <2>2, <1>1 DEF Sound, Apply
  <2>3. CASE c.to = "lock"
    BY <2>1, <2>3, <1>1 DEF Sound, Apply, Manifest
  <2>4. CASE c.to = "reset"
    BY <2>1, <2>4, <1>1 DEF Sound, Apply, Manifest, Unsigned
  <2> QED BY <1>2, <2>2, <2>3, <2>4
<1>3. CASE c \in [to : {"gate"}, gate : Gate, value : BOOLEAN]
  <2>1. Apply(m, c) = [m EXCEPT !.gate[c.gate] = c.value]
    BY <1>3 DEF Apply
  <2>2. Opens(c) = IF c.value THEN {c.gate} ELSE {}
    BY <1>3 DEF Opens
  <2> QED BY <1>1, <1>3, <2>1, <2>2 DEF Sound, Manifest
<1>4. CASE c \in [to : {"deploy"}, deploy : {d \in Approval : d.resolved => Countersigned(d)}]
  <2>1. Apply(m, c) = [m EXCEPT !.deploy = c.deploy]
    BY <1>4 DEF Apply
  <2>2. Opens(c) = IF c.deploy.resolved THEN {"deploy"} ELSE {}
    BY <1>4 DEF Opens
  <2> QED BY <1>1, <1>4, <2>1, <2>2 DEF Sound, Manifest, Approval
<1>5. CASE c \in [to : {"shell"}, deploy : Approval]
  <2>1. Apply(m, c) = [m EXCEPT !.deploy = c.deploy]
    BY <1>5 DEF Apply
  <2>2. Opens(c) = IF c.deploy.resolved THEN {"deploy"} ELSE {}
    BY <1>5 DEF Opens
  <2> QED BY <1>1, <1>5, <2>1, <2>2 DEF Sound, Manifest, Approval
<1> QED BY <1>2, <1>3, <1>4, <1>5 DEF Change

\* load() returns the file or the defaults, and leaves one of them behind.
LEMMA LoadIsSound ==
    ASSUME IInv, NEW t \in Thread, NEW l, Load(t, l)
    PROVE  /\ Sound(l, opened, bypassed, log)
           /\ Sound(disk', opened, bypassed, log)
           /\ torn' \in BOOLEAN
<1>1. Sound(Default, opened, bypassed, log) /\ Sound(disk, opened, bypassed, log)
  BY DefaultIsSound DEF IInv, Manifests
<1>2. CASE l = disk /\ disk' = disk /\ torn' = torn
  BY <1>1, <1>2 DEF IInv, TypeOK
<1>3. CASE l = Default /\ disk' = Default /\ torn' = FALSE
  BY <1>1, <1>3
<1> QED BY <1>2, <1>3 DEF Load

\* A request that has begun holds a sound copy and a plan of known instructions.
LEMMA BeginKeeps ==
    ASSUME IInv, NEW t \in Thread, NEW l, NEW steps \in Seq(Instr),
           requests < MaxRequests, Begin(t, l, steps),
           Sound(l, opened, bypassed, log), Sound(disk', opened, bypassed, log),
           torn' \in BOOLEAN
    PROVE  IInv'
<1> USE RequestsAreBounded
<1>1. UNCHANGED <<log, snaps, committed, launched, opened, bypassed>>
  BY DEF Begin, files, history
<1>2. Manifests'
  BY <1>1 DEF Begin, IInv, Manifests, TypeOK
<1>3. Plans'
  <2>1. todo' \in [Thread -> Seq(Instr)]
    BY DEF Begin, IInv, Plans
  <2>2. ASSUME NEW x \in Thread, todo'[x] # <<>> PROVE id'[x] # 0
    BY <2>2 DEF Begin, IInv, Plans, TypeOK
  <2> QED BY <2>1, <2>2 DEF Plans
<1>4. TypeOK'
  <2>1. copy' \in [Thread -> Manifest] /\ disk' \in Manifest
    BY DEF Begin, IInv, TypeOK, Sound
  <2>2. requests' \in 0..MaxRequests /\ id' \in [Thread -> 0..requests']
    BY DEF Begin, IInv, TypeOK
  <2>3. log \subseteq 1..requests'
    BY DEF Begin, IInv, TypeOK
  <2>4. disturbed' \in BOOLEAN
    BY DEF Begin, IInv, TypeOK
  <2> QED BY <1>1, <2>1, <2>2, <2>3, <2>4 DEF IInv, TypeOK
<1>5. LaunchesWereGated'
  BY <1>1 DEF IInv, LaunchesWereGated
<1> QED BY <1>2, <1>3, <1>4, <1>5 DEF IInv

\* A request that begins at one of the pages.
LEMMA RequestKeeps ==
    ASSUME IInv, NEW t \in Thread, NEW steps \in Seq(Instr),
           requests < MaxRequests, Request(t, steps)
    PROVE  IInv'
<1>1. PICK l \in Loadable : Load(t, l) /\ Begin(t, l, steps)
  BY DEF Request
<1> QED BY <1>1, LoadIsSound, BeginKeeps

\* Plans put together from instructions one by one.
LEMMA InstrIsKnown ==
    /\ \A c \in Change : Audit(c) \in Instr /\ Save(c) \in Instr
    /\ \A ph \in Phase : Launch(ph) \in Instr
    /\ Commit \in Instr /\ Discover \in Instr /\ Copy \in Instr /\ Reload \in Instr
    /\ Nothing \in Change /\ SetLocked \in Change /\ Reset \in Change
    /\ \A g \in Gate, v \in BOOLEAN : SetGate(g, v) \in Change
    /\ \A d \in Approval : ShellDeploy(d) \in Change
    /\ \A d \in Approval : (d.resolved => Countersigned(d)) => SetDeploy(d) \in Change
<1>1. \A c \in Change : Audit(c) \in Instr /\ Save(c) \in Instr
  BY DEF Instr, Audit, Save
<1>2. \A ph \in Phase : Launch(ph) \in Instr
  BY DEF Instr, Launch
<1>3. Commit \in Instr /\ Discover \in Instr /\ Copy \in Instr /\ Reload \in Instr
  BY DEF Instr, Commit, Discover, Copy, Reload
<1>4. Nothing \in Change /\ SetLocked \in Change /\ Reset \in Change
  BY DEF Change, Nothing, SetLocked, Reset
<1>5. \A g \in Gate, v \in BOOLEAN : SetGate(g, v) \in Change
  BY DEF Change, SetGate
<1>6. \A d \in Approval : ShellDeploy(d) \in Change
  BY DEF Change, ShellDeploy
<1>7. \A d \in Approval : (d.resolved => Countersigned(d)) => SetDeploy(d) \in Change
  BY DEF Change, SetDeploy
<1> QED BY <1>1, <1>2, <1>3, <1>4, <1>5, <1>6, <1>7

\* What a handler has left to do is a sequence of steps.
LEMMA PlansAreSeqs ==
    /\ <<>> \in Seq(Instr)
    /\ \A a \in Instr : <<a>> \in Seq(Instr)
    /\ \A a, b \in Instr : <<a, b>> \in Seq(Instr)
    /\ \A a, b, c \in Instr : <<a, b, c>> \in Seq(Instr)
    /\ \A s1, s2 \in Seq(Instr) : s1 \o s2 \in Seq(Instr)
OBVIOUS

\* Every page's and shell command's request is such a plan.
LEMMA PageKeeps ==
    ASSUME IInv, NEW t \in Thread, requests < MaxRequests, Page(t)
    PROVE  IInv'
<1> USE InstrIsKnown, PlansAreSeqs, RequestKeeps
<1>0. Drafts \subseteq Seq(Instr)
  BY DEF Drafts
<1>1. CASE Edit(t)
  BY <1>1 DEF Edit
<1>2. CASE StageImport(t)
  BY <1>2 DEF StageImport, Gate
<1>3. CASE CreateSubtask(t)
  BY <1>3 DEF CreateSubtask
<1>4. CASE ExecuteDeploy(t)
  <2>1. <<Launch("deploy")>> \in Seq(Instr)
    BY DEF Phase
  <2>2. PICK l \in Loadable : Load(t, l) /\ Begin(t, l, <<Launch("deploy")>>)
    BY <1>4 DEF ExecuteDeploy
  <2> QED BY <2>1, <2>2, LoadIsSound, BeginKeeps
<1>5. CASE CreateSnapshot(t)
  BY <1>5 DEF CreateSnapshot
<1>6. ASSUME NEW s \in snaps, RestoreSnapshot(t, s) PROVE IInv'
  <2>1. Sound(s, opened, bypassed, log) /\ Sound(disk', opened, bypassed, log)
    BY <1>6 DEF RestoreSnapshot, IInv, Manifests
  <2>2. torn' \in BOOLEAN
    BY <1>6 DEF RestoreSnapshot, IInv, TypeOK
  <2> QED BY <1>6, <2>1, <2>2, BeginKeeps DEF RestoreSnapshot
<1>7. ASSUME NEW phase \in Phase, TriggerPhase(t, phase) PROVE IInv'
  <2>1. Sound(Default, opened, bypassed, log) /\ Sound(disk', opened, bypassed, log)
    BY <1>7, DefaultIsSound DEF TriggerPhase, IInv, Manifests
  <2>2. torn' \in BOOLEAN
    BY <1>7 DEF TriggerPhase, IInv, TypeOK
  <2> QED BY <1>7, <2>1, <2>2, BeginKeeps DEF TriggerPhase
<1>8. ASSUME NEW resolve \in BOOLEAN, AnalysisTriage(t, resolve) PROVE IInv'
  <2>1. PICK draft \in Drafts : Request(t, draft \o IF resolve
            THEN <<Audit(SetGate("triage", TRUE)), Save(Nothing), Launch("transform")>>
            ELSE <<Save(SetGate("triage", FALSE))>>)
    BY <1>8 DEF AnalysisTriage
  <2>2. /\ <<Audit(SetGate("triage", TRUE)), Save(Nothing), Launch("transform")>> \in Seq(Instr)
        /\ <<Save(SetGate("triage", FALSE))>> \in Seq(Instr)
    BY DEF Gate, Phase
  <2> QED BY <1>0, <2>1, <2>2
<1>9. ASSUME NEW resolve \in BOOLEAN, TransformApproval(t, resolve) PROVE IInv'
  <2>1. PICK draft \in Drafts : Request(t, draft \o IF resolve
            THEN <<Audit(SetGate("transform", TRUE)), Save(Nothing)>>
            ELSE <<Save(SetGate("transform", FALSE))>>)
    BY <1>9 DEF TransformApproval
  <2>2. /\ <<Audit(SetGate("transform", TRUE)), Save(Nothing)>> \in Seq(Instr)
        /\ <<Save(SetGate("transform", FALSE))>> \in Seq(Instr)
    BY DEF Gate
  <2> QED BY <1>0, <2>1, <2>2
<1>10. ASSUME NEW resolve \in BOOLEAN, PostValidation(t, resolve) PROVE IInv'
  BY <1>10 DEF PostValidation, Gate
<1>11. ASSUME NEW commit \in BOOLEAN, NEW force \in BOOLEAN, ImportScope(t, commit, force)
       PROVE  IInv'
  <2> DEFINE save == <<Save(SetGate("scope", commit)), Audit(Nothing)>>
  <2>1. save \o <<Commit>> \in Seq(Instr) /\ save \o <<>> \in Seq(Instr)
    BY DEF Gate
  <2>2. PICK l \in Loadable : \E rest \in {<<>>, <<Commit>>} :
            Load(t, l) /\ Begin(t, l, save \o rest)
    BY <1>11 DEF ImportScope
  <2> QED BY <2>1, <2>2, LoadIsSound, BeginKeeps
<1>12. ASSUME NEW u \in User, NEW a \in User, NEW sign \in BOOLEAN, NEW ready \in BOOLEAN,
              DeployApproval(t, u, sign, ready, a)
       PROVE  IInv'
  <2> DEFINE d == [resolved |-> sign /\ a # u /\ ready,
                   ready |-> ready, approver |-> a, signer |-> u]
  <2>1. d \in Approval
    BY DEF Approval
  <2>2. d.resolved => Countersigned(d)
    BY <1>12, ApproversAreUsers DEF DeployApproval, Countersigned
  <2>3. <<Audit(SetDeploy(d)), Save(Nothing)>> \in Seq(Instr)
    BY <2>1, <2>2
  <2> QED BY <1>12, <2>3 DEF DeployApproval
<1> QED
  BY <1>1, <1>2, <1>3, <1>4, <1>5, <1>6, <1>7, <1>8, <1>9, <1>10, <1>11, <1>12 DEF Page

\* A command of the shell that begins.
LEMMA ShellKeeps ==
    ASSUME IInv, NEW t \in Thread, requests < MaxRequests, Shell(t)
    PROVE  IInv'
<1> USE InstrIsKnown, PlansAreSeqs, RequestKeeps
<1>1. CASE ShellLocks(t)
  BY <1>1 DEF ShellLocks
<1>2. CASE ShellCommits(t)
  <2>1. Sound(Default, opened, bypassed, log) /\ Sound(disk', opened, bypassed, log)
    BY <1>2, DefaultIsSound DEF ShellCommits, IInv, Manifests
  <2>2. torn' \in BOOLEAN
    BY <1>2 DEF ShellCommits, IInv, TypeOK
  <2> QED BY <1>2, <2>1, <2>2, BeginKeeps DEF ShellCommits
<1>3. ASSUME NEW g \in Gate, NEW v \in BOOLEAN, ShellGate(t, g, v) PROVE IInv'
  BY <1>3 DEF ShellGate
<1>4. ASSUME NEW a \in User, NEW ready \in BOOLEAN, NEW resolve \in BOOLEAN,
             ShellSetsDeploy(t, ready, a, resolve)
      PROVE  IInv'
  <2>1. PICK l \in Loadable :
            /\ Load(t, l)
            /\ Begin(t, l, <<Audit(ShellDeploy([l.deploy EXCEPT
                      !.ready = ready, !.approver = a, !.resolved = @ \/ resolve]))>>)
    BY <1>4 DEF ShellSetsDeploy
  <2>2. l.deploy \in Approval
    BY <2>1, LoadIsSound DEF Sound, Manifest, Approval
  <2>3. [l.deploy EXCEPT !.ready = ready, !.approver = a, !.resolved = @ \/ resolve] \in Approval
    BY <2>2 DEF Approval
  <2> QED BY <2>1, <2>3, LoadIsSound, BeginKeeps
<1> QED
  BY <1>1, <1>2, <1>3, <1>4 DEF Shell
-----------------------------------------------------------------------------
\* A due instruction is a known one, and carrying it out leaves a plan.
LEMMA DueIsKnown ==
    ASSUME IInv, NEW t \in Thread, NEW op, Due(t, op)
    PROVE  Head(todo[t]) \in Instr /\ Head(todo[t]).op = op /\ todo[t] # <<>>
BY HeadTailProperties DEF Due, IInv, Plans

\* A request that carried out an instruction has the rest of its plan left.
LEMMA ContinueKeepsPlans ==
    ASSUME IInv, NEW t \in Thread, todo[t] # <<>>, NEW m, Continue(t, m)
    PROVE  /\ Plans'
           /\ id' \in [Thread -> 0..requests]
           /\ copy' \in [Thread -> {m, Default} \cup {copy[x] : x \in Thread}]
<1>1. Tail(todo[t]) \in Seq(Instr) /\ (Len(todo[t]) = 1 => Tail(todo[t]) = <<>>)
  <2>1. todo[t] \in Seq(Instr)
    BY DEF IInv, Plans
  <2>2. Tail(todo[t]) \in Seq(Instr) /\ Len(Tail(todo[t])) = Len(todo[t]) - 1
    BY <2>1, HeadTailProperties
  <2>3. Tail(todo[t]) # <<>> => Len(Tail(todo[t])) # 0
    BY <2>2, EmptySeq
  <2> QED BY <2>2, <2>3
<1>2. todo' \in [Thread -> Seq(Instr)]
  BY <1>1 DEF Continue, IInv, Plans
<1>3. ASSUME NEW x \in Thread, todo'[x] # <<>> PROVE id'[x] # 0
  BY <1>1, <1>3 DEF Continue, IInv, Plans, TypeOK
<1>4. id' \in [Thread -> 0..requests]
  BY DEF Continue, IInv, TypeOK
<1>5. copy' \in [Thread -> {m, Default} \cup {copy[x] : x \in Thread}]
  BY DEF Continue, IInv, TypeOK
<1> QED BY <1>2, <1>3, <1>4, <1>5 DEF Plans

\* What a step that carries out an instruction has to establish.
LEMMA StepKeeps ==
    ASSUME IInv, NEW t \in Thread, todo[t] # <<>>, NEW m, Continue(t, m),
           requests' = requests,
           opened \subseteq opened', opened' \subseteq Gate \cup {"deploy"},
           bypassed => bypassed', bypassed' \in BOOLEAN,
           log \subseteq log', log' \subseteq 1..requests,
           Sound(m, opened', bypassed', log'), Sound(disk', opened', bypassed', log'),
           \A s \in snaps' : s \in snaps \/ Sound(s, opened', bypassed', log'),
           torn' \in BOOLEAN, committed' \in BOOLEAN, disturbed' \in BOOLEAN,
           launched' \subseteq Phase, LaunchesWereGated'
    PROVE  IInv'
<1>0. bypassed \in BOOLEAN
  BY DEF IInv, TypeOK
<1>1. \A s \in snaps' : Sound(s, opened', bypassed', log')
  <2> SUFFICES ASSUME NEW s \in snaps', s \in snaps PROVE Sound(s, opened', bypassed', log')
    OBVIOUS
  <2>1. Sound(s, opened, bypassed, log)
    BY DEF IInv, Manifests
  <2> QED BY <1>0, <2>1, SoundStays
<1>2. \A x \in Thread : Sound(copy[x], opened', bypassed', log')
  <2> TAKE x \in Thread
  <2>1. Sound(copy[x], opened, bypassed, log)
    BY DEF IInv, Manifests
  <2> QED BY <1>0, <2>1, SoundStays
<1>3. Plans' /\ id' \in [Thread -> 0..requests]
  BY ContinueKeepsPlans
<1>4. \A x \in Thread : Sound(copy'[x], opened', bypassed', log')
  <2> TAKE x \in Thread
  <2>1. copy'[x] \in {m, Default} \cup {copy[y] : y \in Thread}
    BY ContinueKeepsPlans
  <2>2. CASE copy'[x] = m
    BY <2>2
  <2>3. CASE copy'[x] = Default
    BY <2>3, DefaultIsSound
  <2>4. CASE copy'[x] \in {copy[y] : y \in Thread}
    BY <2>4, <1>2
  <2> QED BY <2>1, <2>2, <2>3, <2>4
<1>5. copy' \in [Thread -> Manifest] /\ disk' \in Manifest /\ snaps' \subseteq Manifest
  <2>1. copy' = [x \in Thread |-> copy'[x]]
    BY ContinueKeepsPlans
  <2>2. \A x \in Thread : copy'[x] \in Manifest
    BY <1>4 DEF Sound
  <2>3. disk' \in Manifest /\ snaps' \subseteq Manifest
    BY <1>1 DEF Sound
  <2> QED BY <2>1, <2>2, <2>3
<1>6. TypeOK'
  BY <1>3, <1>5 DEF IInv, TypeOK
<1>7. Manifests'
  BY <1>1, <1>4 DEF Manifests
<1> QED BY <1>3, <1>6, <1>7 DEF IInv

\* A due change reaches the file; m is the copy, audited or not.
LEMMA WriteKeeps ==
    ASSUME IInv, NEW t \in Thread, todo[t] # <<>>, Head(todo[t]).change \in Change,
           NEW m, Write(t, m),
           log \subseteq log', log' \subseteq 1..requests, Sound(m, opened, bypassed, log'),
           UNCHANGED <<snaps, committed, requests, launched, disturbed>>
    PROVE  IInv'
<1> DEFINE c == Head(todo[t]).change
<1>1. bypassed \in BOOLEAN /\ (bypassed \/ c.to = "shell") \in BOOLEAN
  BY DEF IInv, TypeOK
<1>2. Opens(c) \subseteq Gate \cup {"deploy"}
  BY DEF Opens, Change
<1>3. Sound(Apply(m, c), opened', bypassed', log')
  <2>1. Sound(Apply(m, c), opened \cup Opens(c), bypassed \/ c.to = "shell", log')
    BY <1>1, ApplyIsSound
  <2> QED BY <2>1 DEF Write
<1>4. /\ disk' = Apply(m, c) /\ torn' = FALSE /\ Continue(t, Apply(m, c))
      /\ opened' = opened \cup Opens(c) /\ bypassed' = (bypassed \/ c.to = "shell")
  BY DEF Write
<1>5. LaunchesWereGated'
  BY <1>4 DEF IInv, LaunchesWereGated
<1>6. /\ opened' \subseteq Gate \cup {"deploy"} /\ launched' \subseteq Phase
      /\ committed' \in BOOLEAN /\ disturbed' \in BOOLEAN
  BY <1>2, <1>4 DEF IInv, TypeOK
<1> HIDE DEF c
<1> QED BY <1>1, <1>3, <1>4, <1>5, <1>6, StepKeeps

\* The audit line is written.
LEMMA AppendAuditKeeps ==
    ASSUME IInv, NEW t \in Thread, AppendAudit(t) PROVE IInv'
<1> DEFINE m == [copy[t] EXCEPT !.audit = @ \cup {id[t]}]
<1>1. todo[t] # <<>> /\ Head(todo[t]).change \in Change
  BY DueIsKnown DEF AppendAudit, Instr
<1>2. id[t] \in 1..requests
  BY <1>1 DEF IInv, TypeOK, Plans
<1>3. log' \subseteq 1..requests /\ log \subseteq log'
  BY <1>2 DEF AppendAudit, IInv, TypeOK
<1>4. Sound(m, opened, bypassed, log')
  <2>1. Sound(copy[t], opened, bypassed, log)
    BY DEF IInv, Manifests
  <2>2. id[t] \in 1..MaxRequests
    BY <1>2, RequestsAreBounded DEF IInv, TypeOK
  <2>3. m \in Manifest
    BY <2>1, <2>2 DEF Sound, Manifest
  <2>4. m.gate = copy[t].gate /\ m.deploy = copy[t].deploy /\ m.audit \subseteq log'
    BY <2>1, <2>2 DEF Sound, Manifest, AppendAudit
  <2> QED BY <2>1, <2>3, <2>4 DEF Sound
<1>5. Write(t, m) /\ UNCHANGED <<snaps, committed, requests, launched, disturbed>>
  BY DEF AppendAudit
<1> QED BY <1>1, <1>3, <1>4, <1>5, WriteKeeps

\* The manifest is written.
LEMMA SaveManifestKeeps ==
    ASSUME IInv, NEW t \in Thread, SaveManifest(t) PROVE IInv'
<1>1. todo[t] # <<>> /\ Head(todo[t]).change \in Change
  BY DueIsKnown DEF SaveManifest, Instr
<1>2. UNCHANGED <<log, snaps, committed, requests, launched, disturbed>>
  BY DEF SaveManifest, files
<1>3. log \subseteq 1..requests /\ Sound(copy[t], opened, bypassed, log)
  BY DEF IInv, TypeOK, Manifests
<1> QED BY <1>1, <1>2, <1>3, WriteKeeps DEF SaveManifest

\* A phase that the gate lets through was opened by somebody.
LEMMA RunPhaseKeeps ==
    ASSUME IInv, NEW t \in Thread, RunPhase(t) PROVE IInv'
<1> DEFINE ph == Head(todo[t]).phase
<1>1. todo[t] # <<>> /\ ph \in Phase
  BY DueIsKnown DEF RunPhase, Instr
<1>2. PICK l \in Loadable :
          /\ Load(t, l)
          /\ launched' = launched \cup {q \in {ph} : PhaseGate(l, q)}
  BY DEF RunPhase
<1>3. Sound(l, opened, bypassed, log) /\ Sound(disk', opened, bypassed, log) /\ torn' \in BOOLEAN
  BY <1>2, LoadIsSound
<1>4. UNCHANGED <<log, snaps, committed, requests, opened, bypassed, disturbed>>
  BY DEF RunPhase, files
<1>5. LaunchesWereGated'
  <2>1. /\ ph = "analyse" /\ PhaseGate(l, ph) => {"scope", "triage"} \subseteq opened
        /\ ph = "transform" /\ PhaseGate(l, ph) => {"triage", "vdom"} \subseteq opened
        /\ ph = "deploy" /\ PhaseGate(l, ph) => {"transform", "deploy"} \subseteq opened
    BY <1>3 DEF PhaseGate, Sound, Gate
  <2> QED BY <1>2, <1>4, <2>1 DEF IInv, LaunchesWereGated
<1>6. launched' \subseteq Phase
  BY <1>1, <1>2 DEF IInv, TypeOK
<1>7. Continue(t, copy[t]) /\ Sound(copy[t], opened, bypassed, log)
  BY DEF RunPhase, IInv, Manifests
<1> QED BY <1>1, <1>3, <1>4, <1>5, <1>6, <1>7, StepKeeps DEF IInv, TypeOK

\* Steps that leave the file, the log and the history alone.
LEMMA CommitScopeKeeps ==
    ASSUME IInv, NEW t \in Thread, CommitScope(t) PROVE IInv'
<1>1. todo[t] # <<>>
  BY DueIsKnown DEF CommitScope
<1>2. PICK l \in Loadable :
          /\ Load(t, l)
          /\ \/ Continue(t, l)
             \/ /\ copy' = [copy EXCEPT ![t] = l]
                /\ todo' = [todo EXCEPT ![t] =
                      (IF committed THEN <<Audit(Reset)>> ELSE <<>>) \o <<Discover>>]
                /\ UNCHANGED id
  BY DEF CommitScope
<1>3. Sound(l, opened, bypassed, log) /\ Sound(disk', opened, bypassed, log) /\ torn' \in BOOLEAN
  BY <1>2, LoadIsSound
<1>4. UNCHANGED <<log, snaps, committed, requests, launched, opened, bypassed, disturbed>>
  BY DEF CommitScope, files, history
<1>5. LaunchesWereGated'
  BY <1>4 DEF IInv, LaunchesWereGated
<1>6. CASE Continue(t, l)
  BY <1>1, <1>3, <1>4, <1>5, <1>6, StepKeeps DEF IInv, TypeOK
<1>7. CASE /\ copy' = [copy EXCEPT ![t] = l]
           /\ todo' = [todo EXCEPT ![t] =
                 (IF committed THEN <<Audit(Reset)>> ELSE <<>>) \o <<Discover>>]
           /\ UNCHANGED id
  <2> DEFINE plan == (IF committed THEN <<Audit(Reset)>> ELSE <<>>) \o <<Discover>>
  <2>1. plan \in Seq(Instr)
    BY InstrIsKnown, PlansAreSeqs
  <2> HIDE DEF plan
  <2>2. Plans'
    BY <1>1, <1>7, <2>1 DEF plan, IInv, Plans
  <2>3. Manifests'
    BY <1>3, <1>4, <1>7 DEF IInv, Manifests, TypeOK
  <2>4. TypeOK'
    BY <1>3, <1>4, <1>7 DEF IInv, TypeOK, Sound
  <2> QED BY <1>5, <2>2, <2>3, <2>4 DEF IInv
<1> QED BY <1>2, <1>6, <1>7

\* The discovery is written.
LEMMA WriteDiscoveryKeeps ==
    ASSUME IInv, NEW t \in Thread, WriteDiscovery(t) PROVE IInv'
<1>1. todo[t] # <<>>
  BY DueIsKnown DEF WriteDiscovery
<1>2. /\ UNCHANGED <<disk, torn, log, snaps, requests, launched, opened, bypassed, disturbed>>
      /\ Continue(t, copy[t]) /\ committed' \in BOOLEAN
  BY DEF WriteDiscovery, history, IInv, TypeOK
<1>3. LaunchesWereGated'
  BY <1>2 DEF IInv, LaunchesWereGated
<1>4. Sound(copy[t], opened, bypassed, log) /\ Sound(disk, opened, bypassed, log)
  BY DEF IInv, Manifests
<1> QED BY <1>1, <1>2, <1>3, <1>4, StepKeeps DEF IInv, TypeOK

\* A manifest is put aside.
LEMMA CopySnapshotKeeps ==
    ASSUME IInv, NEW t \in Thread, CopySnapshot(t) PROVE IInv'
<1>1. todo[t] # <<>>
  BY DueIsKnown DEF CopySnapshot
<1>2. PICK m \in Loadable : snaps' = snaps \cup {m}
  BY DEF CopySnapshot
<1>3. /\ UNCHANGED <<disk, torn, log, committed, requests, launched, opened, bypassed, disturbed>>
      /\ Continue(t, copy[t])
  BY DEF CopySnapshot, history
<1>4. LaunchesWereGated'
  BY <1>3 DEF IInv, LaunchesWereGated
<1>5. Sound(copy[t], opened, bypassed, log) /\ Sound(disk, opened, bypassed, log)
  BY DEF IInv, Manifests
<1>6. Sound(m, opened, bypassed, log)
  BY <1>2, <1>5, DefaultIsSound DEF Loadable
<1> QED BY <1>1, <1>2, <1>3, <1>4, <1>5, <1>6, StepKeeps DEF IInv, TypeOK

\* A manifest that was put aside comes back.
LEMMA ReloadManifestKeeps ==
    ASSUME IInv, NEW t \in Thread, ReloadManifest(t) PROVE IInv'
<1>1. todo[t] # <<>>
  BY DueIsKnown DEF ReloadManifest
<1>2. PICK l \in Loadable : Load(t, l) /\ Continue(t, l)
  BY DEF ReloadManifest
<1>3. Sound(l, opened, bypassed, log) /\ Sound(disk', opened, bypassed, log) /\ torn' \in BOOLEAN
  BY <1>2, LoadIsSound
<1>4. UNCHANGED <<log, snaps, committed, requests, launched, opened, bypassed, disturbed>>
  BY DEF ReloadManifest, files, history
<1>5. LaunchesWereGated'
  BY <1>4 DEF IInv, LaunchesWereGated
<1> QED BY <1>1, <1>2, <1>3, <1>4, <1>5, StepKeeps DEF IInv, TypeOK

\* A request ends before its time.
LEMMA DieKeeps ==
    ASSUME IInv, NEW t \in Thread, Die(t) PROVE IInv'
<1>1. UNCHANGED <<disk, snaps, committed, requests, launched, opened, bypassed>>
  BY DEF Die, history
<1>2. log \subseteq log' /\ log' \subseteq 1..requests
  <2>1. id[t] \in 1..requests
    BY DEF Die, Busy, IInv, TypeOK, Plans
  <2>2. log' = log \/ log' = log \cup {id[t]}
    BY DEF Die
  <2> QED BY <2>1, <2>2 DEF IInv, TypeOK
<1>3. bypassed \in BOOLEAN
  BY DEF IInv, TypeOK
<1>4. ASSUME NEW m, Sound(m, opened, bypassed, log) PROVE Sound(m, opened, bypassed, log')
  BY <1>2, <1>3, <1>4, SoundStays
<1>5. Manifests'
  <2>1. Sound(Default, opened, bypassed, log')
    BY DefaultIsSound
  <2>2. ASSUME NEW x \in Thread PROVE Sound(copy'[x], opened, bypassed, log')
    BY <1>4, <2>1 DEF Die, IInv, Manifests, TypeOK
  <2> QED BY <1>1, <1>4, <2>2 DEF IInv, Manifests
<1>6. Plans'
  BY PlansAreSeqs DEF Die, IInv, Plans
<1>7. TypeOK'
  <2>1. Default \in Manifest
    BY DefaultIsSound DEF Sound
  <2>2. copy' \in [Thread -> Manifest] /\ id' \in [Thread -> 0..requests]
    BY <2>1 DEF Die, IInv, TypeOK
  <2>3. torn' \in BOOLEAN /\ disturbed' \in BOOLEAN
    BY DEF Die, IInv, TypeOK
  <2> QED BY <1>1, <1>2, <2>2, <2>3 DEF IInv, TypeOK
<1>8. LaunchesWereGated'
  BY <1>1 DEF IInv, LaunchesWereGated
<1> QED BY <1>5, <1>6, <1>7, <1>8 DEF IInv

\* A page is looked at.
LEMMA ViewKeeps ==
    ASSUME IInv, NEW t \in Thread, View(t) PROVE IInv'
<1>1. UNCHANGED <<log, snaps, committed, todo, copy, id, requests, launched, opened, bypassed>>
  BY DEF View, files, history
<1>2. Sound(disk', opened, bypassed, log) /\ torn' \in BOOLEAN
  BY LoadIsSound DEF View
<1>3. disturbed' \in BOOLEAN
  BY DEF View, IInv, TypeOK
<1> QED
  BY <1>1, <1>2, <1>3 DEF IInv, TypeOK, Manifests, Plans, LaunchesWereGated, Sound

\* The discover command of the shell.
LEMMA ShellDiscoversKeeps ==
    ASSUME IInv, ShellDiscovers PROVE IInv'
<1>1. /\ UNCHANGED <<disk, torn, log, snaps, todo, copy, id, launched, opened, bypassed, disturbed>>
      /\ committed' = TRUE /\ requests' = requests + 1 /\ requests < MaxRequests
  BY DEF ShellDiscovers, history
<1>2. TypeOK'
  <2>1. requests' \in 0..MaxRequests /\ log \subseteq 1..requests' /\ id \in [Thread -> 0..requests']
    BY <1>1, RequestsAreBounded DEF IInv, TypeOK
  <2> QED BY <1>1, <2>1 DEF IInv, TypeOK
<1> QED BY <1>1, <1>2 DEF IInv, Manifests, Plans, LaunchesWereGated
-----------------------------------------------------------------------------
\* Nothing has been requested.
LEMMA InitIInv == Init => IInv
<1> SUFFICES ASSUME Init PROVE IInv
  OBVIOUS
<1>1. Default \in Manifest /\ Sound(Default, opened, bypassed, log)
  BY DefaultIsSound DEF Sound
<1>2. TypeOK
  <2>1. /\ disk \in Manifest /\ copy \in [Thread -> Manifest] /\ snaps \subseteq Manifest
        /\ log \subseteq 1..requests
    BY <1>1 DEF Init
  <2>2. requests \in 0..MaxRequests /\ id \in [Thread -> 0..requests]
    BY RequestsAreBounded DEF Init
  <2> QED BY <2>1, <2>2 DEF Init, TypeOK
<1>3. Plans
  BY PlansAreSeqs DEF Init, Plans
<1> QED BY <1>1, <1>2, <1>3 DEF Init, IInv, Manifests, LaunchesWereGated

\* Every step keeps the invariant.
LEMMA NextIInv == IInv /\ [Next]_vars => IInv'
<1> SUFFICES ASSUME IInv, [Next]_vars PROVE IInv'
  OBVIOUS
<1>1. CASE UNCHANGED vars
  BY <1>1 DEF vars, IInv, TypeOK, Manifests, Plans, LaunchesWereGated
<1>2. ASSUME NEW t \in Thread, View(t) PROVE IInv'
  BY <1>2, ViewKeeps
<1>3. ASSUME NEW t \in Thread, Ready(t), Page(t) \/ Shell(t) PROVE IInv'
  BY <1>3, PageKeeps, ShellKeeps DEF Ready
<1>4. ASSUME NEW t \in Thread, AppendAudit(t) \/ SaveManifest(t) \/ RunPhase(t) PROVE IInv'
  BY <1>4, AppendAuditKeeps, SaveManifestKeeps, RunPhaseKeeps
<1>5. ASSUME NEW t \in Thread, CommitScope(t) \/ WriteDiscovery(t) \/ CopySnapshot(t) PROVE IInv'
  BY <1>5, CommitScopeKeeps, WriteDiscoveryKeeps, CopySnapshotKeeps
<1>6. ASSUME NEW t \in Thread, ReloadManifest(t) \/ Die(t) PROVE IInv'
  BY <1>6, ReloadManifestKeeps, DieKeeps
<1>7. CASE ShellDiscovers
  BY <1>7, ShellDiscoversKeeps
<1> QED BY <1>1, <1>2, <1>3, <1>4, <1>5, <1>6, <1>7 DEF Next

\* Any number of console threads and shells leave a well-formed manifest.
THEOREM TypeCorrect == Spec => []TypeOK
<1>1. IInv => TypeOK
  BY DEF IInv
<1> QED BY InitIInv, NextIInv, <1>1, PTL DEF Spec

\* A resolved deploy approval that the shell did not write was signed by an
\* approver who named another user: decisions_deploy_approval's check survives
\* lost updates, torn files and restored snapshots.
THEOREM FourEyesHold == Spec => []FourEyes
<1>1. IInv => FourEyes
  BY DEF IInv, Manifests, Sound, FourEyes
<1> QED BY InitIInv, NextIInv, <1>1, PTL DEF Spec

\* No gate is resolved and no phase was started without the pages or commands
\* that open what ensure_phase_gate asks for.
THEOREM NothingOpensItself == Spec => []GatesWereOpened
<1>1. IInv => GatesWereOpened
  BY DEF IInv, Manifests, Sound, LaunchesWereGated, GatesWereOpened
<1> QED BY InitIInv, NextIInv, <1>1, PTL DEF Spec

\* append_audit writes the log first, so no manifest, snapshots included, has
\* an entry that decisions.jsonl lacks.
THEOREM LogIsComplete == Spec => []LoggedFirst
<1>1. IInv => LoggedFirst
  BY DEF IInv, Manifests, Sound, LoggedFirst
<1> QED BY InitIInv, NextIInv, <1>1, PTL DEF Spec

-----------------------------------------------------------------------------
(***************************************************************************)
(* GateConsole implements GateBoard: as long as requests come one after    *)
(* the other and no write is cut short, what they do to the manifest, in   *)
(* however many loads and saves, are the steps of the board.               *)
(*                                                                         *)
(* A step of the board is a step of its present state; a request saves a   *)
(* copy it took earlier, and what it saves was decided when it began.  The *)
(* inductive invariant says that the copy of the one request in progress   *)
(* is the file, but where the next load or the end comes before the next   *)
(* save; and that a snapshot being restored is one that was kept.          *)
(***************************************************************************)

\* Changes and instructions of the pages, and of the shell but for the one
\* command that writes a deploy approval.
Ordinary == {c \in Change : c.to # "shell" /\ (c.to = "deploy" => c.deploy.signer \in User)}

OrdinaryInstr ==
    [op : {"audit", "save"}, change : Ordinary]
    \cup [op : {"launch"}, phase : Phase]
    \cup [op : {"commit", "discover", "copy", "reload"}]

\* That command keeps the signer, and takes no resolution back.
OneField(d) ==
    /\ d \in Approval
    /\ d.signer = disk.deploy.signer
    /\ disk.deploy.resolved => d.resolved

\* What a request may have left to do with m for its copy.
Timely(m, plan) ==
    \/ plan = <<>>
    \/ plan \in Seq(OrdinaryInstr) /\ m = disk
    \/ \E d \in Approval : plan = <<Audit(ShellDeploy(d))>> /\ m = disk /\ OneField(d)
    \/ plan = <<Save(Nothing), Reload, Audit(Nothing)>> /\ m \in snaps
    \/ plan = <<Commit>>
    \/ \E ph \in Phase : plan = <<Launch(ph)>>

OneAtATime == \A t, u \in Thread : Busy(t) /\ Busy(u) => t = u

Orderly == ~torn /\ OneAtATime /\ \A t \in Thread : Timely(copy[t], todo[t])

BoardInv == ~disturbed => Orderly
\* A step of the board, or none.
BoardStep == [GateBoard!Next]_GateBoard!vars
-----------------------------------------------------------------------------
\* Once requests have overlapped the board promises nothing.
LEMMA OverlapForfeits ==
    ASSUME disturbed' = TRUE PROVE BoardStep
BY DEF BoardStep, GateBoard!Next, GateBoard!Forfeit

\* A step that changes neither the decisions nor what is kept of them.
LEMMA NoDecision ==
    ASSUME UNCHANGED <<disk, snaps, disturbed>> PROVE BoardStep
BY DEF BoardStep, GateBoard!vars, Board

\* If nobody else is busy, and no write was cut short, load() finds the file
\* and leaves it as it is.
LEMMA LoadIsTheFile ==
    ASSUME NEW t \in Thread, ~torn, \A b \in Thread \ {t} : ~Busy(b), NEW l, Load(t, l)
    PROVE  l = disk /\ UNCHANGED <<disk, torn>>
<1>1. \A b \in Thread : AboutToSave(b) => Busy(b)
  BY DEF AboutToSave, Due, Busy
<1> QED BY <1>1 DEF Load

\* A request that begins undisturbed finds nobody at work.
LEMMA BeginIsOrderly ==
    ASSUME IInv, Orderly, NEW t \in Thread, NEW l, NEW steps, Begin(t, l, steps), ~disturbed',
           Timely(l, steps), UNCHANGED <<disk, torn>>
    PROVE  Orderly' /\ BoardStep
<1>1. \A b \in Thread : ~Busy(b)
  BY DEF Begin
<1>2. UNCHANGED <<disk, torn, snaps, disturbed>>
  BY <1>1 DEF Begin, files, IInv, TypeOK
<1>3. todo' = [todo EXCEPT ![t] = steps] /\ copy' = [copy EXCEPT ![t] = l]
  BY DEF Begin
<1>4. OneAtATime'
  BY <1>1, <1>3 DEF OneAtATime, Busy, IInv, Plans
<1>5. \A m, plan : Timely(m, plan) => Timely(m, plan)'
  BY <1>2 DEF Timely, OneField
<1>6. \A x \in Thread : Timely(copy[x], todo[x])'
  <2> TAKE x \in Thread
  <2>1. CASE x = t
    BY <1>2, <1>3, <2>1 DEF Timely, OneField, IInv, Plans, TypeOK
  <2>2. CASE x # t
    BY <1>1, <1>3, <2>2 DEF Timely, Busy, IInv, Plans, TypeOK
  <2> QED BY <2>1, <2>2
<1> QED BY <1>2, <1>4, <1>6, NoDecision DEF Orderly

\* So does one that begins with a load, and its copy is the file.
LEMMA LoadThenBegin ==
    ASSUME IInv, Orderly, NEW t \in Thread, NEW l, NEW steps, Load(t, l), Begin(t, l, steps),
           ~disturbed', steps \in Seq(OrdinaryInstr)
    PROVE  Orderly' /\ BoardStep
<1>1. \A b \in Thread : ~Busy(b)
  BY DEF Begin
<1>2. l = disk /\ UNCHANGED <<disk, torn>>
  BY <1>1, LoadIsTheFile DEF Orderly
<1>3. Timely(l, steps)
  BY <1>2 DEF Timely
<1> QED BY <1>2, <1>3, BeginIsOrderly

\* That is how the pages begin.
LEMMA RequestIsOrderly ==
    ASSUME IInv, Orderly, NEW t \in Thread, NEW steps \in Seq(OrdinaryInstr),
           Request(t, steps), ~disturbed'
    PROVE  Orderly' /\ BoardStep
<1>1. PICK l \in Loadable : Load(t, l) /\ Begin(t, l, steps)
  BY DEF Request
<1> QED BY <1>1, LoadThenBegin

\* What the pages put together.
LEMMA OrdinaryIsKnown ==
    /\ \A c \in Ordinary : Audit(c) \in OrdinaryInstr /\ Save(c) \in OrdinaryInstr
    /\ \A ph \in Phase : Launch(ph) \in OrdinaryInstr
    /\ Commit \in OrdinaryInstr /\ Discover \in OrdinaryInstr
    /\ Copy \in OrdinaryInstr /\ Reload \in OrdinaryInstr
    /\ Nothing \in Ordinary /\ SetLocked \in Ordinary /\ Reset \in Ordinary
    /\ \A g \in Gate, v \in BOOLEAN : SetGate(g, v) \in Ordinary
    /\ \A d \in Approval : (d.resolved => Countersigned(d)) /\ d.signer \in User
                              => SetDeploy(d) \in Ordinary
<1>1. \A c \in Ordinary : Audit(c) \in OrdinaryInstr /\ Save(c) \in OrdinaryInstr
  BY DEF OrdinaryInstr, Audit, Save
<1>2. \A ph \in Phase : Launch(ph) \in OrdinaryInstr
  BY DEF OrdinaryInstr, Launch
<1>3. /\ Commit \in OrdinaryInstr /\ Discover \in OrdinaryInstr
      /\ Copy \in OrdinaryInstr /\ Reload \in OrdinaryInstr
  BY DEF OrdinaryInstr, Commit, Discover, Copy, Reload
<1>4. Nothing \in Ordinary /\ SetLocked \in Ordinary /\ Reset \in Ordinary
  BY InstrIsKnown DEF Ordinary, Nothing, SetLocked, Reset
<1>5. \A g \in Gate, v \in BOOLEAN : SetGate(g, v) \in Ordinary
  BY InstrIsKnown DEF Ordinary, SetGate
<1>6. \A d \in Approval : (d.resolved => Countersigned(d)) /\ d.signer \in User
                              => SetDeploy(d) \in Ordinary
  BY InstrIsKnown DEF Ordinary, SetDeploy
<1> QED BY <1>1, <1>2, <1>3, <1>4, <1>5, <1>6

\* Sequences of such instructions.
LEMMA OrdinaryPlans ==
    /\ <<>> \in Seq(OrdinaryInstr)
    /\ \A a \in OrdinaryInstr : <<a>> \in Seq(OrdinaryInstr)
    /\ \A a, b \in OrdinaryInstr : <<a, b>> \in Seq(OrdinaryInstr)
    /\ \A a, b, c \in OrdinaryInstr : <<a, b, c>> \in Seq(OrdinaryInstr)
    /\ \A s1, s2 \in Seq(OrdinaryInstr) : s1 \o s2 \in Seq(OrdinaryInstr)
OBVIOUS

\* A page's request begins in order.
LEMMA PageIsOrderly ==
    ASSUME IInv, Orderly, NEW t \in Thread, Page(t), ~disturbed'
    PROVE  Orderly' /\ BoardStep
<1> USE OrdinaryIsKnown, OrdinaryPlans, RequestIsOrderly
<1> DEFINE Goal == Orderly' /\ BoardStep
<1>0. Drafts \subseteq Seq(OrdinaryInstr)
  BY DEF Drafts
<1>1. CASE Edit(t)
  BY <1>1 DEF Edit
<1>2. CASE StageImport(t)
  BY <1>2 DEF StageImport, Gate
<1>3. CASE CreateSubtask(t)
  BY <1>3 DEF CreateSubtask
<1>4. CASE ExecuteDeploy(t)
  <2>1. <<Launch("deploy")>> \in Seq(OrdinaryInstr)
    BY DEF Phase
  <2>2. PICK l \in Loadable : Load(t, l) /\ Begin(t, l, <<Launch("deploy")>>)
    BY <1>4 DEF ExecuteDeploy
  <2> QED BY <2>1, <2>2, LoadThenBegin
<1>5. CASE CreateSnapshot(t)
  BY <1>5 DEF CreateSnapshot
<1>6. ASSUME NEW s \in snaps, RestoreSnapshot(t, s) PROVE Goal
  <2>1. Timely(s, <<Save(Nothing), Reload, Audit(Nothing)>>)
    BY DEF Timely
  <2> QED BY <1>6, <2>1, BeginIsOrderly DEF RestoreSnapshot
<1>7. ASSUME NEW phase \in Phase, TriggerPhase(t, phase) PROVE Goal
  <2>1. Timely(Default, <<Launch(phase)>>)
    BY DEF Timely
  <2> QED BY <1>7, <2>1, BeginIsOrderly DEF TriggerPhase
<1>8. ASSUME NEW resolve \in BOOLEAN, AnalysisTriage(t, resolve) PROVE Goal
  <2>1. PICK draft \in Drafts : Request(t, draft \o IF resolve
            THEN <<Audit(SetGate("triage", TRUE)), Save(Nothing), Launch("transform")>>
            ELSE <<Save(SetGate("triage", FALSE))>>)
    BY <1>8 DEF AnalysisTriage
  <2>2. /\ <<Audit(SetGate("triage", TRUE)), Save(Nothing), Launch("transform")>>
              \in Seq(OrdinaryInstr)
        /\ <<Save(SetGate("triage", FALSE))>> \in Seq(OrdinaryInstr)
    BY DEF Gate, Phase
  <2> QED BY <1>0, <2>1, <2>2
<1>9. ASSUME NEW resolve \in BOOLEAN, TransformApproval(t, resolve) PROVE Goal
  <2>1. PICK draft \in Drafts : Request(t, draft \o IF resolve
            THEN <<Audit(SetGate("transform", TRUE)), Save(Nothing)>>
            ELSE <<Save(SetGate("transform", FALSE))>>)
    BY <1>9 DEF TransformApproval
  <2>2. /\ <<Audit(SetGate("transform", TRUE)), Save(Nothing)>> \in Seq(OrdinaryInstr)
        /\ <<Save(SetGate("transform", FALSE))>> \in Seq(OrdinaryInstr)
    BY DEF Gate
  <2> QED BY <1>0, <2>1, <2>2
<1>10. ASSUME NEW resolve \in BOOLEAN, PostValidation(t, resolve) PROVE Goal
  BY <1>10 DEF PostValidation, Gate
<1>11. ASSUME NEW commit \in BOOLEAN, NEW force \in BOOLEAN, ImportScope(t, commit, force)
       PROVE  Goal
  <2> DEFINE save == <<Save(SetGate("scope", commit)), Audit(Nothing)>>
  <2>1. save \o <<Commit>> \in Seq(OrdinaryInstr) /\ save \o <<>> \in Seq(OrdinaryInstr)
    BY DEF Gate
  <2>2. PICK l \in Loadable : \E rest \in {<<>>, <<Commit>>} :
            Load(t, l) /\ Begin(t, l, save \o rest)
    BY <1>11 DEF ImportScope
  <2> QED BY <2>1, <2>2, LoadThenBegin
<1>12. ASSUME NEW u \in User, NEW a \in User, NEW sign \in BOOLEAN, NEW ready \in BOOLEAN,
              DeployApproval(t, u, sign, ready, a)
       PROVE  Goal
  <2> DEFINE d == [resolved |-> sign /\ a # u /\ ready,
                   ready |-> ready, approver |-> a, signer |-> u]
  <2>1. d \in Approval /\ d.signer \in User
    BY DEF Approval
  <2>2. d.resolved => Countersigned(d)
    BY <1>12, ApproversAreUsers DEF DeployApproval, Countersigned
  <2>3. <<Audit(SetDeploy(d)), Save(Nothing)>> \in Seq(OrdinaryInstr)
    BY <2>1, <2>2
  <2> QED BY <1>12, <2>3 DEF DeployApproval
<1> QED
  BY <1>1, <1>2, <1>3, <1>4, <1>5, <1>6, <1>7, <1>8, <1>9, <1>10, <1>11, <1>12 DEF Page

\* And so does a command of the shell.
LEMMA ShellIsOrderly ==
    ASSUME IInv, Orderly, NEW t \in Thread, Shell(t), ~disturbed'
    PROVE  Orderly' /\ BoardStep
<1> USE OrdinaryIsKnown, OrdinaryPlans, RequestIsOrderly
<1>1. CASE ShellLocks(t)
  BY <1>1 DEF ShellLocks
<1>2. CASE ShellCommits(t)
  <2>1. Timely(Default, <<Commit>>)
    BY DEF Timely
  <2> QED BY <1>2, <2>1, BeginIsOrderly DEF ShellCommits
<1>3. ASSUME NEW g \in Gate, NEW v \in BOOLEAN, ShellGate(t, g, v)
      PROVE  Orderly' /\ BoardStep
  BY <1>3 DEF ShellGate
<1>4. ASSUME NEW a \in User, NEW ready \in BOOLEAN, NEW resolve \in BOOLEAN,
             ShellSetsDeploy(t, ready, a, resolve)
      PROVE  Orderly' /\ BoardStep
  <2> DEFINE Field(l) == [l.deploy EXCEPT !.ready = ready, !.approver = a,
                                          !.resolved = @ \/ resolve]
  <2>1. PICK l \in Loadable : Load(t, l) /\ Begin(t, l, <<Audit(ShellDeploy(Field(l)))>>)
    BY <1>4 DEF ShellSetsDeploy
  <2>2. l = disk /\ UNCHANGED <<disk, torn>>
    BY <2>1, LoadIsTheFile DEF Begin, Orderly
  <2>3. l.deploy \in Approval
    BY <2>2 DEF IInv, TypeOK, Manifest, Approval
  <2>4. OneField(Field(l)) /\ Field(l) \in Approval
    BY <2>2, <2>3 DEF OneField, Approval
  <2> HIDE DEF Field
  <2>5. Timely(l, <<Audit(ShellDeploy(Field(l)))>>)
    BY <2>2, <2>4 DEF Timely
  <2> QED BY <2>1, <2>2, <2>5, BeginIsOrderly
<1> QED BY <1>1, <1>2, <1>3, <1>4 DEF Shell
-----------------------------------------------------------------------------
\* The one request in progress has carried out an instruction: it is at its
\* end, or has the file for its copy.
LEMMA DoneIsOrderly ==
    ASSUME IInv, Orderly, NEW t \in Thread, todo[t] # <<>>, NEW m, Continue(t, m), ~torn',
           Len(todo[t]) = 1 \/ (m = disk' /\ Tail(todo[t]) \in Seq(OrdinaryInstr))
    PROVE  Orderly'
<1>1. /\ todo[t] \in Seq(Instr) /\ todo \in [Thread -> Seq(Instr)]
      /\ copy \in [Thread -> Manifest]
  BY DEF IInv, Plans, TypeOK
<1>2. Len(todo[t]) = 1 => Tail(todo[t]) = <<>>
  <2>1. Tail(todo[t]) \in Seq(Instr) /\ Len(Tail(todo[t])) = Len(todo[t]) - 1
    BY <1>1, HeadTailProperties
  <2>2. Tail(todo[t]) # <<>> => Len(Tail(todo[t])) # 0
    BY <2>1, EmptySeq
  <2> QED BY <2>1, <2>2
<1>3. \A x \in Thread \ {t} : todo[x] = <<>> /\ todo'[x] = <<>>
  BY <1>1 DEF Orderly, OneAtATime, Busy, Continue
<1>4. OneAtATime'
  BY <1>3 DEF OneAtATime, Busy
<1>5. Timely(copy[t], todo[t])'
  <2>1. todo'[t] = Tail(todo[t]) /\ (Len(todo[t]) # 1 => copy'[t] = m)
    BY <1>1 DEF Continue
  <2>2. CASE Len(todo[t]) = 1
    BY <1>2, <2>1, <2>2 DEF Timely
  <2>3. CASE Len(todo[t]) # 1
    BY <2>1, <2>3 DEF Timely
  <2> QED BY <2>2, <2>3
<1>6. \A x \in Thread : Timely(copy[x], todo[x])'
  BY <1>3, <1>5 DEF Timely
<1> QED BY <1>4, <1>6 DEF Orderly

\* A change saved on top of the file is a step of the board: a gate decided, a
\* signature, a draft, one field from the shell, the lock or a re-commit.
LEMMA ChangeIsAStep ==
    ASSUME IInv, NEW m \in Manifest, Board(m) = Board(disk), NEW c \in Change,
           disk' = Apply(m, c), UNCHANGED <<snaps, disturbed>>,
           c \in Ordinary \/ (c.to = "shell" /\ OneField(c.deploy))
    PROVE  BoardStep
<1>1. /\ m.gate = disk.gate /\ m.deploy = disk.deploy /\ m.locked = disk.locked
      /\ disk.gate \in [Gate -> BOOLEAN] /\ disk.deploy \in Approval
  BY DEF Board, IInv, TypeOK, Manifest, Approval
<1>2. {Board(s) : s \in snaps}' = {Board(s) : s \in snaps} /\ (~disturbed)' = ~disturbed
  BY DEF Board
<1>3. CASE c.to = "nothing"
  <2>1. disk' = m
    BY <1>3 DEF Apply
  <2> QED BY <1>1, <1>2, <2>1 DEF BoardStep, GateBoard!vars
<1>4. CASE c.to = "lock"
  <2>1. disk'.gate = m.gate /\ disk'.deploy = m.deploy /\ disk'.locked = TRUE
    BY <1>4 DEF Apply, Manifest
  <2>2. GateBoard!Lock
    BY <1>1, <1>2, <2>1 DEF GateBoard!Lock
  <2> QED BY <2>2 DEF BoardStep, GateBoard!Next
<1>5. CASE c.to = "reset"
  <2>1. /\ disk'.gate = [g \in Gate |-> g \in {"scope", "vdom"} /\ m.gate[g]]
        /\ disk'.deploy = Unsigned /\ disk'.locked = m.locked
    BY <1>5 DEF Apply
  <2>2. GateBoard!Recommit
    BY <1>1, <1>2, <2>1 DEF GateBoard!Recommit, GateBoard!Unsigned, Unsigned
  <2> QED BY <2>2 DEF BoardStep, GateBoard!Next
<1>6. CASE c.to = "gate"
  <2>1. c.gate \in Gate /\ c.value \in BOOLEAN
    BY <1>6 DEF Change
  <2>2. /\ disk'.gate = [m.gate EXCEPT ![c.gate] = c.value]
        /\ disk'.deploy = m.deploy /\ disk'.locked = m.locked
    BY <1>6 DEF Apply, Manifest
  <2>3. GateBoard!Decide(c.gate, c.value)
    BY <1>1, <1>2, <2>2 DEF GateBoard!Decide
  <2> QED BY <2>1, <2>3 DEF BoardStep, GateBoard!Next
<1>7. CASE c.to \in {"deploy", "shell"}
  <2>1. disk'.gate = m.gate /\ disk'.deploy = c.deploy /\ disk'.locked = m.locked
    BY <1>7 DEF Apply, Manifest
  <2>2. CASE c.to = "shell"
    <3>1. GateBoard!Shell
      BY <1>1, <1>2, <2>1, <2>2 DEF GateBoard!Shell, OneField, Ordinary
    <3> QED BY <3>1 DEF BoardStep, GateBoard!Next
  <2>3. CASE c.to = "deploy"
    <3>1. /\ c.deploy \in Approval /\ c.deploy.signer \in User
          /\ c.deploy.resolved => Countersigned(c.deploy)
      BY <2>3 DEF Change, Ordinary
    <3>2. CASE c.deploy.resolved
      <4>1. GateBoard!Sign(c.deploy.signer, c.deploy.approver) /\ c.deploy.approver \in User
        BY <1>1, <1>2, <2>1, <3>1, <3>2 DEF GateBoard!Sign, Countersigned, Approval
      <4> QED BY <3>1, <4>1 DEF BoardStep, GateBoard!Next
    <3>3. CASE ~c.deploy.resolved
      <4>1. GateBoard!Draft(c.deploy.signer)
        BY <1>1, <1>2, <2>1, <3>3 DEF GateBoard!Draft
      <4> QED BY <3>1, <4>1 DEF BoardStep, GateBoard!Next
    <3> QED BY <3>2, <3>3
  <2> QED BY <1>7, <2>2, <2>3
<1> QED BY <1>3, <1>4, <1>5, <1>6, <1>7 DEF Change

\* A due write, of the copy with or without an entry for the audit list.
LEMMA WriteIsOrderly ==
    ASSUME IInv, Orderly, NEW t \in Thread, todo[t] # <<>>,
           Head(todo[t]).op \in {"audit", "save"}, Head(todo[t]).change \in Change,
           NEW m \in Manifest, Board(m) = Board(copy[t]), Write(t, m),
           UNCHANGED <<snaps, disturbed>>
    PROVE  Orderly' /\ BoardStep
<1> DEFINE c == Head(todo[t]).change
<1>1. disk' = Apply(m, c) /\ Continue(t, disk') /\ ~torn'
  BY DEF Write
<1>2. CASE todo[t] \in Seq(OrdinaryInstr) /\ copy[t] = disk
  <2>1. Head(todo[t]) \in OrdinaryInstr /\ Tail(todo[t]) \in Seq(OrdinaryInstr)
    BY <1>2, HeadTailProperties
  <2>2. c \in Ordinary
    BY <2>1 DEF OrdinaryInstr
  <2>3. BoardStep
    BY <1>1, <1>2, <2>2, ChangeIsAStep
  <2> QED BY <1>1, <2>1, <2>3, DoneIsOrderly
<1>3. ASSUME NEW d \in Approval, todo[t] = <<Audit(ShellDeploy(d))>>, copy[t] = disk, OneField(d)
      PROVE  Orderly' /\ BoardStep
  <2>1. c.to = "shell" /\ c.deploy = d /\ Len(todo[t]) = 1
    BY <1>3 DEF Audit, ShellDeploy
  <2>2. BoardStep
    BY <1>1, <1>3, <2>1, ChangeIsAStep
  <2> QED BY <1>1, <2>1, <2>2, DoneIsOrderly
<1>4. CASE todo[t] = <<Save(Nothing), Reload, Audit(Nothing)>> /\ copy[t] \in snaps
  <2>1. c.to = "nothing" /\ Tail(todo[t]) = <<Reload, Audit(Nothing)>>
    BY <1>4 DEF Save, Nothing
  <2>2. Tail(todo[t]) \in Seq(OrdinaryInstr)
    BY <2>1, OrdinaryIsKnown, OrdinaryPlans
  <2>3. disk' = m
    BY <1>1, <2>1 DEF Apply
  <2>4. GateBoard!Restore
    <3>1. Board(disk') \in {Board(s) : s \in snaps}
      BY <1>4, <2>3
    <3>2. Board(disk') = [gate |-> disk'.gate, deploy |-> disk'.deploy, locked |-> disk'.locked]
      BY DEF Board
    <3>3. {Board(s) : s \in snaps}' = {Board(s) : s \in snaps} /\ (~disturbed)' = ~disturbed
      BY DEF Board
    <3> QED BY <3>1, <3>2, <3>3 DEF GateBoard!Restore
  <2> QED BY <1>1, <2>2, <2>4, DoneIsOrderly DEF BoardStep, GateBoard!Next
<1>5. todo[t] # <<Commit>> /\ \A ph \in Phase : todo[t] # <<Launch(ph)>>
  BY DEF Commit, Launch
<1> QED BY <1>2, <1>3, <1>4, <1>5 DEF Orderly, Timely

\* append_audit().
LEMMA AppendAuditIsOrderly ==
    ASSUME IInv, IInv', Orderly, NEW t \in Thread, AppendAudit(t), ~disturbed'
    PROVE  Orderly' /\ BoardStep
<1> DEFINE m == [copy[t] EXCEPT !.audit = @ \cup {id[t]}]
<1>1. todo[t] # <<>> /\ Head(todo[t]).change \in Change /\ Head(todo[t]).op = "audit"
  BY DueIsKnown DEF AppendAudit, Instr
<1>2. m \in Manifest /\ Board(m) = Board(copy[t])
  <2>1. copy[t] \in Manifest /\ id[t] \in 1..MaxRequests
    BY <1>1, RequestsAreBounded DEF IInv, TypeOK, Plans
  <2> QED BY <2>1 DEF Manifest, Board
<1>3. Write(t, m) /\ UNCHANGED <<snaps, disturbed>>
  BY DEF AppendAudit
<1> HIDE DEF m
<1> QED BY <1>1, <1>2, <1>3, WriteIsOrderly

\* save().
LEMMA SaveManifestIsOrderly ==
    ASSUME IInv, Orderly, NEW t \in Thread, SaveManifest(t), ~disturbed'
    PROVE  Orderly' /\ BoardStep
<1>1. todo[t] # <<>> /\ Head(todo[t]).change \in Change /\ Head(todo[t]).op = "save"
  BY DueIsKnown DEF SaveManifest, Instr
<1>2. copy[t] \in Manifest
  BY DEF IInv, TypeOK
<1>3. Write(t, copy[t]) /\ UNCHANGED <<snaps, disturbed>>
  BY DEF SaveManifest, files
<1> QED BY <1>1, <1>2, <1>3, WriteIsOrderly

\* Instructions other than a write, for which the plan is an ordinary one or
\* ends here.
LEMMA NoWritePlans ==
    ASSUME IInv, Orderly, NEW t \in Thread, todo[t] # <<>>,
           Head(todo[t]).op \notin {"audit", "save"}
    PROVE  \/ copy[t] = disk /\ Tail(todo[t]) \in Seq(OrdinaryInstr)
           \/ Len(todo[t]) = 1 /\ Head(todo[t]).op \in {"commit", "launch"}
<1>1. Timely(copy[t], todo[t])
  BY DEF Orderly
<1>2. CASE todo[t] \in Seq(OrdinaryInstr) /\ copy[t] = disk
  BY <1>2, HeadTailProperties
<1>3. ASSUME NEW d \in Approval, todo[t] = <<Audit(ShellDeploy(d))>> PROVE FALSE
  <2>1. Head(todo[t]) = Audit(ShellDeploy(d))
    BY <1>3
  <2> QED BY <2>1 DEF Audit
<1>4. CASE todo[t] = <<Save(Nothing), Reload, Audit(Nothing)>>
  <2>1. Head(todo[t]) = Save(Nothing)
    BY <1>4
  <2> QED BY <2>1 DEF Save
<1>5. ASSUME NEW step, todo[t] = <<step>>, step.op \in {"commit", "launch"}
      PROVE  Len(todo[t]) = 1 /\ Head(todo[t]).op \in {"commit", "launch"}
  BY <1>5
<1>6. Commit.op = "commit" /\ \A ph \in Phase : Launch(ph).op = "launch"
  BY DEF Commit, Launch
<1> QED BY <1>1, <1>2, <1>3, <1>4, <1>5, <1>6 DEF Timely

\* The one request in progress loads the file.
LEMMA BusyLoad ==
    ASSUME Orderly, NEW t \in Thread, Busy(t), NEW l, Load(t, l)
    PROVE  l = disk /\ UNCHANGED <<disk, torn>>
BY LoadIsTheFile DEF Orderly, OneAtATime

\* The instructions that write no manifest.
LEMMA RestIsOrderly ==
    ASSUME IInv, Orderly, NEW t \in Thread, ~disturbed',
           RunPhase(t) \/ CommitScope(t) \/ WriteDiscovery(t) \/ CopySnapshot(t)
              \/ ReloadManifest(t)
    PROVE  Orderly' /\ BoardStep
<1>1. todo[t] # <<>> /\ Head(todo[t]).op \notin {"audit", "save"} /\ Busy(t)
  BY DEF RunPhase, CommitScope, WriteDiscovery, CopySnapshot, ReloadManifest, Due, Busy
<1>2. CASE RunPhase(t)
  <2>1. UNCHANGED <<disk, torn, snaps, disturbed>> /\ Continue(t, copy[t])
    BY <1>1, <1>2, BusyLoad DEF RunPhase, files
  <2> QED BY <1>1, <2>1, NoWritePlans, DoneIsOrderly, NoDecision DEF Orderly
<1>3. CASE CommitScope(t)
  <2>1. PICK l \in Loadable :
          /\ Load(t, l)
          /\ \/ Continue(t, l)
             \/ /\ copy' = [copy EXCEPT ![t] = l]
                /\ todo' = [todo EXCEPT ![t] =
                      (IF committed THEN <<Audit(Reset)>> ELSE <<>>) \o <<Discover>>]
    BY <1>3 DEF CommitScope
  <2>2. l = disk /\ UNCHANGED <<disk, torn, snaps, disturbed>>
    BY <1>1, <1>3, <2>1, BusyLoad DEF CommitScope, files
  <2>3. CASE Continue(t, l)
    BY <1>1, <2>2, <2>3, NoWritePlans, DoneIsOrderly, NoDecision DEF Orderly
  <2>4. CASE /\ copy' = [copy EXCEPT ![t] = l]
             /\ todo' = [todo EXCEPT ![t] =
                   (IF committed THEN <<Audit(Reset)>> ELSE <<>>) \o <<Discover>>]
    <3> DEFINE plan == (IF committed THEN <<Audit(Reset)>> ELSE <<>>) \o <<Discover>>
    <3>1. plan \in Seq(OrdinaryInstr)
      BY OrdinaryIsKnown, OrdinaryPlans
    <3>2. todo'[t] = plan /\ copy'[t] = disk'
      BY <2>2, <2>4 DEF IInv, Plans, TypeOK
    <3> HIDE DEF plan
    <3>3. \A x \in Thread \ {t} : todo'[x] = <<>>
      BY <1>1, <2>4 DEF Orderly, OneAtATime, Busy, IInv, Plans
    <3>4. OneAtATime'
      BY <3>3 DEF OneAtATime, Busy
    <3>5. \A x \in Thread : Timely(copy[x], todo[x])'
      BY <3>1, <3>2, <3>3 DEF Timely
    <3> QED BY <2>2, <3>4, <3>5, NoDecision DEF Orderly
  <2> QED BY <2>1, <2>3, <2>4
<1>4. CASE WriteDiscovery(t)
  <2>1. UNCHANGED <<disk, torn, snaps, disturbed>> /\ Continue(t, copy[t])
    BY <1>4 DEF WriteDiscovery
  <2> QED BY <1>1, <2>1, NoWritePlans, DoneIsOrderly, NoDecision DEF Orderly
<1>5. CASE CopySnapshot(t)
  <2>1. \A b \in Thread \ {t} : ~AboutToSave(b)
    BY <1>1 DEF AboutToSave, Due, Busy, Orderly, OneAtATime
  <2>2. snaps' = snaps \cup {disk} /\ UNCHANGED <<disk, torn, disturbed>> /\ Continue(t, copy[t])
    BY <1>5, <2>1 DEF CopySnapshot, Orderly
  <2>3. Orderly'
    BY <1>1, <2>2, NoWritePlans, DoneIsOrderly DEF Orderly
  <2>4. GateBoard!Keep
    <3>1. {Board(s) : s \in snaps}' = {Board(s) : s \in snaps} \cup {Board(disk)}
      BY <2>2 DEF Board
    <3>2. (~disturbed)' = ~disturbed
      BY <2>2
    <3> QED BY <2>2, <3>1, <3>2 DEF GateBoard!Keep, Board
  <2> QED BY <2>3, <2>4 DEF BoardStep, GateBoard!Next
<1>6. CASE ReloadManifest(t)
  <2>1. PICK l \in Loadable : Load(t, l) /\ Continue(t, l)
    BY <1>6 DEF ReloadManifest
  <2>2. l = disk /\ UNCHANGED <<disk, torn, snaps, disturbed>>
    BY <1>1, <1>6, <2>1, BusyLoad DEF ReloadManifest, files
  <2> QED BY <1>1, <2>1, <2>2, NoWritePlans, DoneIsOrderly, NoDecision DEF Orderly
<1> QED BY <1>2, <1>3, <1>4, <1>5, <1>6

\* A page that is only shown saves nothing, undisturbed.
LEMMA ViewIsOrderly ==
    ASSUME IInv, Orderly, NEW t \in Thread, View(t), ~disturbed'
    PROVE  FALSE
<1>1. \A b \in Thread : ~Busy(b)
  BY DEF View
<1>2. Load(t, Default) /\ disk # Default
  BY DEF View
<1> QED BY <1>1, <1>2, LoadIsTheFile DEF Orderly

\* A request ends half way, but not in a write.
LEMMA DieIsOrderly ==
    ASSUME IInv, Orderly, NEW t \in Thread, Die(t), ~disturbed'
    PROVE  Orderly' /\ BoardStep
<1>1. UNCHANGED <<disk, torn, snaps, disturbed>>
  BY DEF Die
<1>2. \A x \in Thread : todo'[x] = <<>>
  BY DEF Die, Orderly, OneAtATime, Busy, IInv, Plans
<1> QED BY <1>1, <1>2, NoDecision DEF Orderly, OneAtATime, Busy, Timely

\* Requests that overlapped have overlapped for good.
LEMMA OverlapStays == IInv /\ [Next]_vars /\ disturbed => disturbed'
<1> SUFFICES ASSUME IInv, [Next]_vars, disturbed PROVE disturbed'
  OBVIOUS
<1>1. ASSUME NEW t \in Thread, Page(t) \/ Shell(t) PROVE disturbed'
  BY <1>1
  DEF Page, Shell, Begin, Request, Edit, StageImport, CreateSubtask, ExecuteDeploy,
      CreateSnapshot, RestoreSnapshot, TriggerPhase, AnalysisTriage, TransformApproval,
      PostValidation, ImportScope, DeployApproval, ShellLocks, ShellCommits, ShellGate,
      ShellSetsDeploy
<1>2. ASSUME NEW t \in Thread, View(t) \/ Die(t) PROVE disturbed'
  BY <1>2 DEF View, Die
<1>3. ASSUME NEW t \in Thread, AppendAudit(t) \/ SaveManifest(t) \/ RunPhase(t)
                 \/ CommitScope(t) \/ WriteDiscovery(t) \/ CopySnapshot(t) \/ ReloadManifest(t)
      PROVE  disturbed'
  BY <1>3
  DEF AppendAudit, SaveManifest, RunPhase, CommitScope, WriteDiscovery, CopySnapshot,
      ReloadManifest
<1>4. CASE ShellDiscovers \/ UNCHANGED vars
  BY <1>4 DEF ShellDiscovers, vars
<1> QED BY <1>1, <1>2, <1>3, <1>4 DEF Next

\* Every step is one of the board, and leaves requests in order.
LEMMA NextBoardInv ==
    IInv /\ IInv' /\ BoardInv /\ [Next]_vars => BoardInv' /\ BoardStep
<1> SUFFICES ASSUME IInv, IInv', BoardInv, [Next]_vars PROVE BoardInv' /\ BoardStep
  OBVIOUS
<1>1. CASE disturbed'
  BY <1>1, OverlapForfeits DEF BoardInv, IInv, TypeOK
<1>2. CASE ~disturbed'
  <2>0. Orderly
    BY <1>2, OverlapStays DEF BoardInv
  <2> SUFFICES Orderly' /\ BoardStep
    BY DEF BoardInv
  <2>1. ASSUME NEW t \in Thread, Page(t) \/ Shell(t) PROVE Orderly' /\ BoardStep
    BY <1>2, <2>0, <2>1, PageIsOrderly, ShellIsOrderly
  <2>2. ASSUME NEW t \in Thread, View(t) \/ Die(t) PROVE Orderly' /\ BoardStep
    BY <1>2, <2>0, <2>2, ViewIsOrderly, DieIsOrderly
  <2>3. ASSUME NEW t \in Thread, AppendAudit(t) \/ SaveManifest(t) PROVE Orderly' /\ BoardStep
    BY <1>2, <2>0, <2>3, AppendAuditIsOrderly, SaveManifestIsOrderly
  <2>4. ASSUME NEW t \in Thread, RunPhase(t) \/ CommitScope(t) \/ WriteDiscovery(t)
                   \/ CopySnapshot(t) \/ ReloadManifest(t)
        PROVE  Orderly' /\ BoardStep
    BY <1>2, <2>0, <2>4, RestIsOrderly
  <2>5. CASE ShellDiscovers \/ UNCHANGED vars
    <3>1. UNCHANGED <<disk, torn, snaps, todo, copy, disturbed>>
      BY <2>5 DEF ShellDiscovers, vars
    <3> QED BY <2>0, <3>1, NoDecision DEF Orderly, OneAtATime, Busy, Timely, OneField
  <2> QED BY <2>1, <2>2, <2>3, <2>4, <2>5 DEF Next
<1> QED BY <1>1, <1>2

\* GateConsole implements GateBoard: requests that come one after the other
\* and are not cut short open and close gates, sign, draft, lock, re-commit,
\* keep and restore, and do nothing else to the manifest.
THEOREM Implements == Spec => ImplementsBoard
<1>1. Init => GateBoard!Init /\ BoardInv
  BY DEF Init, Default, Unsigned, GateBoard!Init, GateBoard!Unsigned, BoardInv, Orderly,
         OneAtATime, Busy, Timely
<1>2. IInv /\ IInv' /\ BoardInv /\ [Next]_vars => BoardInv' /\ [GateBoard!Next]_GateBoard!vars
  BY NextBoardInv DEF BoardStep
<1> QED BY <1>1, <1>2, InitIInv, NextIInv, PTL DEF Spec, ImplementsBoard, GateBoard!Spec
=============================================================================
