-------------------------- MODULE ImportScopeProofs --------------------------
(***************************************************************************)
(* What the files of an environment say of each other, for any number of   *)
(* environments, payloads and operations, whichever write fails and        *)
(* wherever the console dies.                                              *)
(*                                                                         *)
(* The files are written one after the other, so the inductive invariant   *)
(* has a part for each operation, which says how far it has come: a commit *)
(* that replaces a discovery has reset ledger, approvals and configuration *)
(* before; a deletion has removed what is in the roots behind it, or noted *)
(* that it could not.  The other part, Current, is true between and during *)
(* all of them.                                                            *)
(***************************************************************************)
EXTENDS ImportScope, TLAPS

\* The arguments of the operation in progress.
Arguments ==
    /\ pc \in {"child manifest", "bypass", "parent manifest"} => job.op = "subtask"
    /\ pc \in {"delete discovery", "delete state", "delete config", "delete reports", "unlist"} =>
          job.op = "delete"
    /\ pc \in {"reset ledger", "reset manifest", "unlink config", "unlink reports", "discovery"} =>
          job.op \in {"commit", "subtask"}
    /\ job.op \in {"commit", "subtask"} => snap[job.env] # None
    /\ job.op = "subtask" => job.parent \in Env
    /\ pc = "stage manifest" => job.load \in Content /\ snap[job.env] = job.load

\* The files of an environment belong to one discovery.
CurrentApprovals(e) ==
    e \notin restored /\ man[e] # None =>
        \A g \in Gate : man[e].signed[g] \in {None, disc[e]}
CurrentLedger(e) ==
    led[e] # None =>
        /\ led[e].items \subseteq {disc[e]}
        /\ led[e].status["analyse"] = "done" => disc[e] # None /\ rep[e] = disc[e]
        /\ led[e].status["transform"] = "done" => disc[e] # None /\ conf[e] = disc[e]
        /\ led[e].status["deploy"] = "done" =>
              disc[e] # None /\ (e \notin held => target[e] = disc[e])
CurrentConfig(e) ==
    /\ e \notin held => conf[e] \in {None, disc[e]}
    /\ disc[e] = None => conf[e] = None

Fits(e) == CurrentApprovals(e) /\ CurrentLedger(e) /\ CurrentConfig(e)
Current == \A e \in Env \ loose : Fits(e)

\* How far a commit has come.
Resetting ==
    LET e == job.env IN
    /\ disc[e] # None =>
          /\ pc \in {"reset manifest", "unlink config", "unlink reports", "discovery"} =>
                led[e] = NewLedger
          /\ pc \in {"unlink config", "unlink reports", "discovery"} =>
                man[e] # None /\ man[e].signed = Unsigned
          /\ pc \in {"unlink reports", "discovery"} => conf[e] = None \/ e \in held
    /\ pc = "child manifest" => disc[e] = None
Analysing ==
    /\ pc \in {"discovered", "items", "reports", "analysed"} => disc[job.env] # None
    /\ pc = "analysed" => rep[job.env] = disc[job.env]

\* How far a deletion has come.
Deleting ==
    LET e == job.env IN
    /\ pc \in {"delete state", "delete config", "delete reports"} =>
          \A d \in Env \ loose : TakesAny(e, d) => disc[d] = None
    /\ e \notin held =>
          /\ pc \in {"delete state", "delete config", "delete reports", "unlist"} =>
                \A d \in Env : Takes("discovery", e, d) => disc[d] = None
          /\ pc \in {"delete config", "delete reports", "unlist"} =>
                snap[e] = None /\ man[e] = None /\ led[e] = None /\ saved[e] = {}
          /\ pc \in {"delete reports", "unlist"} => conf[e] = None
          /\ pc = "unlist" => rep[e] = None

\* Keys are about the payload whose hash is noted, and the snapshot is it.
KeysHaveTheHash ==
    \A e \in Env : man[e] # None /\ man[e].keys # None =>
        /\ man[e].hash # None => man[e].keys.of = man[e].hash
        /\ e \notin torn => man[e].keys.of = snap[e]
ChildHasTheSnapshot ==
    pc = "child manifest" =>
        snap[job.env] = snap[job.parent] /\ (job.parent \in torn => job.env \in torn)

\* A copy of a manifest is as good as the manifest was.
SavedFits ==
    \A e \in Env : \A k \in saved[e] :
        /\ k.disc # Unseen => \A g \in Gate : k.copy.signed[g] \in {None, k.disc}
        /\ k.copy.keys # None =>
              /\ k.copy.hash # None => k.copy.keys.of = k.copy.hash
              /\ k.raw # Unseen => k.copy.keys.of = k.raw

ScopeInv ==
    /\ TypeOK /\ Arguments /\ Current /\ Resetting /\ Analysing /\ Deleting
    /\ KeysHaveTheHash /\ ChildHasTheSnapshot /\ SavedFits
-----------------------------------------------------------------------------
\* What is loaded is a manifest, and a ledger.
LEMMA LoadedIsTyped ==
    ASSUME TypeOK, NEW e \in Env
    PROVE  ManifestOf(e) \in Manifest /\ LedgerOf(e) \in Ledger
<1>1. Default \in Manifest
  BY DEF Default, Manifest, Approvals, Unsigned, Keys
<1>2. NewLedger \in Ledger
  BY DEF NewLedger, Ledger
<1>3. man[e] \in Manifest \cup {None} /\ led[e] \in Ledger \cup {None}
  BY DEF TypeOK
<1> QED BY <1>1, <1>2, <1>3 DEF ManifestOf, LedgerOf

\* Every edit of a manifest gives a manifest.
LEMMA EditsAreTyped ==
    ASSUME NEW m \in Manifest
    PROVE  /\ \A c \in Content : Staged(m, c) \in Manifest
           /\ \A c \in {"default", "edited"}, b \in BOOLEAN : Decided(m, c, b) \in Manifest
           /\ [m EXCEPT !.signed = Unsigned] \in Manifest
           /\ \A g \in Gate, b \in Build \cup {None, Unseen} :
                  [m EXCEPT !.signed[g] = b] \in Manifest
           /\ [m EXCEPT !.hash = None] \in Manifest
           /\ \A p \in Env, k \in Keys :
                  [Default EXCEPT !.scope = TRUE, !.parent = p, !.keys = k] \in Manifest
           /\ \A c \in Content : InitialManifest(c) \in Manifest
<1>1. \A c \in Content : Staged(m, c) \in Manifest
  BY DEF Staged, Manifest, Keys
<1>2. \A c \in {"default", "edited"}, b \in BOOLEAN : Decided(m, c, b) \in Manifest
  BY DEF Decided, Manifest, Keys
<1>3. [m EXCEPT !.signed = Unsigned] \in Manifest
  BY DEF Manifest, Approvals, Unsigned
<1>4. \A g \in Gate, b \in Build \cup {None, Unseen} : [m EXCEPT !.signed[g] = b] \in Manifest
  BY DEF Manifest, Approvals
<1>5. [m EXCEPT !.hash = None] \in Manifest
  BY DEF Manifest
<1>6. \A p \in Env, k \in Keys :
         [Default EXCEPT !.scope = TRUE, !.parent = p, !.keys = k] \in Manifest
  BY DEF Default, Manifest, Approvals, Unsigned
<1>7. \A c \in Content : InitialManifest(c) \in Manifest
  BY DEF InitialManifest, Default, Manifest, Approvals, Unsigned, Keys
<1> QED BY <1>1, <1>2, <1>3, <1>4, <1>5, <1>6, <1>7

\* Every edit of a ledger gives a ledger.
LEMMA MarksAreTyped ==
    ASSUME NEW l \in Ledger
    PROVE  /\ \A ph \in Phase, s \in {"pending", "done"} : Marked(l, ph, s) \in Ledger
           /\ \A b \in Build : [l EXCEPT !.items = @ \cup {b}] \in Ledger
           /\ NewLedger \in Ledger
BY DEF Marked, Ledger, NewLedger

\* When the candidate is built there is a snapshot to build it from.
LEMMA CandidateIsBuild ==
    ASSUME TypeOK, Arguments, pc = "discovery" PROVE Candidate(job.env) \in Build
<1>1. job.env \in Env
  BY DEF TypeOK, Job
<1>2. snap[job.env] \in Content /\ ManifestOf(job.env).keys \in Keys
  BY <1>1, LoadedIsTyped DEF Arguments, TypeOK, Manifest
<1> QED BY <1>2 DEF Candidate, Build

\* Every step keeps the types.
LEMMA TypeStep ==
    ASSUME TypeOK, Arguments, Analysing, Next PROVE TypeOK'
<1> DEFINE e == job.env
<1>1. e \in Env /\ job \in Job /\ Idle \in Job /\ NewLedger \in Ledger
  BY WorkedAreEnvs DEF TypeOK, Job, Idle, Ledger, NewLedger
<1>2. \A d \in Env : ManifestOf(d) \in Manifest /\ LedgerOf(d) \in Ledger
  BY LoadedIsTyped
<1>0. Spend \/ UNCHANGED spent => spent' \in 0 .. Budget
  BY BudgetIsFinite DEF Spend, TypeOK
<1> USE DEF Goes
<1>3. CASE StageStep
  <2>1. CASE StageManifest
    <3>1. Staged(ManifestOf(e), job.load) \in Manifest
      BY <1>1, <1>2, <2>1, EditsAreTyped DEF StageManifest, Step, Arguments
    <3> QED BY <1>1, <2>1, <3>1 DEF StageManifest, Step, TypeOK, outputs
  <2>2. CASE StageLedger
    BY <1>1, <1>2, <2>2 DEF StageLedger, End, TypeOK, outputs, history
  <2> QED BY <1>3, <2>1, <2>2 DEF StageStep
<1>4. CASE CommitStep
  <2>1. CASE ResetLedger
    BY <1>1, <2>1 DEF ResetLedger, Step, TypeOK, outputs, history
  <2>2. CASE ResetManifest
    <3>1. [ManifestOf(e) EXCEPT !.signed = Unsigned] \in Manifest
      BY <1>1, <1>2, EditsAreTyped
    <3> QED BY <1>1, <2>2, <3>1 DEF ResetManifest, Step, TypeOK, outputs
  <2>3. CASE UnlinkConfig
    BY <1>0, <1>1, <2>3 DEF UnlinkConfig, TypeOK, state
  <2>4. CASE UnlinkReports
    BY <1>0, <1>1, <2>4 DEF UnlinkReports, TypeOK, state, history
  <2>5. CASE WriteDiscovery
    BY <1>1, <2>5, CandidateIsBuild DEF WriteDiscovery, Step, TypeOK, state
  <2>6. CASE Discovered
    BY <1>1, <1>2, <2>6 DEF Discovered, Step, TypeOK, outputs, history
  <2>7. CASE ListFindings
    <3>1. disc[e] \in Build
      BY <1>1, <2>7 DEF ListFindings, Step, Analysing, TypeOK
    <3>2. [LedgerOf(e) EXCEPT !.items = @ \cup {disc[e]}] \in Ledger
      BY <1>1, <1>2, <3>1, MarksAreTyped
    <3> QED BY <1>1, <2>7, <3>2 DEF ListFindings, Step, TypeOK, outputs, history
  <2>8. CASE WriteReports
    BY <1>1, <2>8 DEF WriteReports, Step, TypeOK, state, history
  <2>9. CASE Analysed
    <3>1. Marked(LedgerOf(e), "analyse", "done") \in Ledger
      BY <1>1, <1>2, MarksAreTyped DEF Phase
    <3> QED BY <1>1, <2>9, <3>1 DEF Analysed, AfterAnalysis, End, TypeOK, outputs, history
  <2>10. CASE AnalysisRaises
    BY <1>1, <2>10 DEF AnalysisRaises, AfterAnalysis, End, TypeOK, state, outputs, history
  <2> QED BY <1>4, <2>1, <2>2, <2>3, <2>4, <2>5, <2>6, <2>7, <2>8, <2>9, <2>10
             DEF CommitStep
<1>5. CASE SubtaskStep
  <2>1. CASE ChildManifest
    <3>1. job.parent \in Env
      BY <2>1 DEF ChildManifest, Step, Arguments
    <3>2. ManifestOf(job.parent).keys \in Keys
      BY <1>2, <3>1 DEF Manifest
    <3>3. [Default EXCEPT !.scope = TRUE, !.parent = job.parent,
                          !.keys = ManifestOf(job.parent).keys] \in Manifest
      BY <1>2, <3>1, <3>2, EditsAreTyped
    <3> QED BY <1>1, <2>1, <3>3 DEF ChildManifest, Step, TypeOK, outputs, history
  <2>2. CASE Bypass
    BY <1>1, <1>2, <2>2 DEF Bypass, Step, TypeOK, outputs, history
  <2>3. CASE ParentManifest
    BY <1>1, <1>2, <2>3 DEF ParentManifest, End, Arguments, TypeOK, outputs, history
  <2> QED BY <1>5, <2>1, <2>2, <2>3 DEF SubtaskStep
<1>6. CASE DeleteStep
  <2>1. ASSUME NEW d \in Env, UnlinkDiscovery(d) \/ UnlinkConfigOf(d) \/ UnlinkReportsOf(d)
        PROVE  TypeOK'
    BY <2>1 DEF UnlinkDiscovery, UnlinkConfigOf, UnlinkReportsOf, StillDeleting, control,
          TypeOK, state, history
  <2>2. CASE UnlinkSnapshot \/ UnlinkManifest \/ UnlinkLedger
    BY <1>1, <2>2 DEF UnlinkSnapshot, UnlinkManifest, UnlinkLedger, StillDeleting, control,
          TypeOK, outputs, history
  <2>3. CASE UnlinkCopy
    <3>1. PICK k \in saved[job.env] : saved' = [saved EXCEPT ![job.env] = @ \ {k}]
      BY <2>3 DEF UnlinkCopy
    <3>2. saved[job.env] \ {k} \in SUBSET Copy
      BY <1>1 DEF TypeOK
    <3>3. saved' \in [Env -> SUBSET Copy]
      BY <1>1, <3>1, <3>2 DEF TypeOK
    <3> QED BY <2>3, <3>3 DEF UnlinkCopy, StillDeleting, control, TypeOK, outputs, history
  <2>4. CASE DiscoveryDeleted \/ StateDeleted \/ ConfigDeleted \/ ReportsDeleted
    <3>1. held' \subseteq Env /\ spent' \in 0 .. Budget
      BY <1>0, <1>1, <2>4 DEF DiscoveryDeleted, StateDeleted, ConfigDeleted, ReportsDeleted,
            LeftIf, TypeOK
    <3> QED BY <2>4, <3>1 DEF DiscoveryDeleted, StateDeleted, ConfigDeleted, ReportsDeleted,
            TypeOK, state, outputs
  <2>5. CASE Unlist
    BY <1>1, <2>5 DEF Unlist, End, TypeOK, state, outputs
  <2> QED BY <1>6, <2>1, <2>2, <2>3, <2>4, <2>5 DEF DeleteStep
<1>7. CASE Raise
  BY <1>0, <1>1, <1>7 DEF Raise, End, TypeOK, state, outputs, history
<1>8. CASE Restart
  <2>1. \A d \in Env : man[d] # None => [man[d] EXCEPT !.hash = None] \in Manifest
    BY EditsAreTyped DEF TypeOK
  <2>2. ASSUME NEW d \in Env, NEW k \in saved[d]
        PROVE  [k EXCEPT !.copy = [@ EXCEPT !.hash = None]] \in Copy
    <3>1. k \in Copy /\ k.copy \in Manifest
      BY DEF TypeOK, Copy
    <3>2. [k.copy EXCEPT !.hash = None] \in Manifest
      BY <3>1, EditsAreTyped
    <3> QED BY <3>1, <3>2 DEF Copy
  <2>3. saved' \in [Env -> SUBSET Copy]
    BY <1>8, <2>2 DEF Restart
  <2> QED BY <1>0, <1>1, <1>8, <2>1, <2>3 DEF Restart, End, TypeOK, outputs, history
<1>9. ASSUME NEW d \in Env, Page(d) PROVE TypeOK'
  <2>1. ASSUME NEW c \in {"default", "edited"}, NEW b \in BOOLEAN, SaveScope(d, c, b)
        PROVE  TypeOK'
    <3>1. Decided(ManifestOf(d), c, b) \in Manifest
      BY <1>2, EditsAreTyped
    <3> QED BY <1>1, <2>1, <3>1 DEF SaveScope, Quiet, control, TypeOK, outputs, history
  <2>2. ASSUME NEW g \in Gate, Sign(d, g) PROVE TypeOK'
    <3>1. (IF disc[d] = None THEN Unseen ELSE disc[d]) \in Build \cup {None, Unseen}
      BY DEF TypeOK
    <3>2. [ManifestOf(d) EXCEPT !.signed[g] = IF disc[d] = None THEN Unseen ELSE disc[d]]
             \in Manifest
      BY <1>2, <3>1, EditsAreTyped
    <3> QED BY <1>1, <2>2, <3>2 DEF Sign, Quiet, control, TypeOK, outputs
  <2>3. ASSUME NEW g \in Gate, Withdraw(d, g) PROVE TypeOK'
    <3>1. man[d] \in Manifest
      BY <2>3 DEF Withdraw, TypeOK
    <3>2. [man[d] EXCEPT !.signed[g] = None] \in Manifest
      BY <3>1, EditsAreTyped
    <3>3. man' = [man EXCEPT ![d] = [man[d] EXCEPT !.signed[g] = None]]
      BY <2>3 DEF Withdraw
    <3> QED BY <1>1, <2>3, <3>2, <3>3 DEF Withdraw, Quiet, control, TypeOK, outputs, history
  <2>4. CASE Analyse(d)
    <3>1. Marked(LedgerOf(d), "analyse", "done") \in Ledger
      BY <1>2, MarksAreTyped DEF Phase
    <3>2. disc[d] \in Build
      BY <2>4 DEF Analyse, TypeOK
    <3>3. [Marked(LedgerOf(d), "analyse", "done") EXCEPT !.items = @ \cup {disc[d]}] \in Ledger
      BY <3>1, <3>2, MarksAreTyped
    <3> QED BY <1>1, <2>4, <3>3 DEF Analyse, Quiet, control, TypeOK, history
  <2>5. CASE Transform(d)
    <3>1. Marked(LedgerOf(d), "transform", "done") \in Ledger
      BY <1>2, MarksAreTyped DEF Phase
    <3> QED BY <1>1, <2>5, <3>1 DEF Transform, Quiet, control, TypeOK, history
  <2>6. CASE Deploy(d)
    <3>1. Marked(LedgerOf(d), "deploy", "done") \in Ledger
      BY <1>2, MarksAreTyped DEF Phase
    <3> QED BY <1>1, <2>6, <3>1 DEF Deploy, Quiet, control, TypeOK, outputs, history
  <2>7. CASE CreateSnapshot(d)
    <3> DEFINE k == [copy |-> ManifestOf(d),
                     disc |-> IF d \in loose \cup restored THEN Unseen ELSE disc[d],
                     raw  |-> IF d \in torn THEN Unseen ELSE snap[d]]
    <3>1. k \in Copy
      BY <1>2 DEF Copy, TypeOK
    <3>2. saved' = [saved EXCEPT ![d] = @ \cup {k}]
      BY <2>7 DEF CreateSnapshot
    <3> HIDE DEF k
    <3>3. saved' \in [Env -> SUBSET Copy]
      BY <3>1, <3>2 DEF TypeOK
    <3> QED BY <1>0, <1>2, <2>7, <3>3 DEF CreateSnapshot, TypeOK, outputs, history
  <2>8. ASSUME NEW k \in saved[d], RestoreSnapshot(d, k) PROVE TypeOK'
    <3>1. k.copy \in Manifest
      BY DEF TypeOK, Copy
    <3> QED BY <2>8, <3>1 DEF RestoreSnapshot, Quiet, control, TypeOK, outputs
  <2> QED BY <1>9, <2>1, <2>2, <2>3, <2>4, <2>5, <2>6, <2>7, <2>8 DEF Page
<1>10. ASSUME NEW d \in Env, Console(d) PROVE TypeOK'
  <2> USE DEF Begin
  <2>0. \A p \in Env \cup {None}, o \in {"stage", "commit", "subtask", "delete"},
           c \in Content \cup {None} :
           [op |-> o, env |-> d, parent |-> p, load |-> c] \in Job
    BY DEF Job
  <2>1. ASSUME NEW c \in Content, StageSnapshot(d, c) PROVE TypeOK'
    BY <1>0, <2>0, <2>1 DEF StageSnapshot, TypeOK, outputs
  <2>2. ASSUME NEW c \in {"default", "edited"}, CommitScope(d, c) PROVE TypeOK'
    <3>1. Decided(ManifestOf(d), c, TRUE) \in Manifest
      BY <1>2, EditsAreTyped
    <3> QED BY <1>0, <2>0, <2>2, <3>1 DEF CommitScope, TypeOK, outputs, history
  <2>3. ASSUME NEW p \in Env, CopySnapshot(p, d) PROVE TypeOK'
    BY <1>0, <2>0, <2>3 DEF CopySnapshot, TypeOK, outputs
  <2>4. CASE DeleteEnvironment(d)
    BY <1>0, <2>0, <2>4 DEF DeleteEnvironment, TypeOK, state, outputs, history
  <2> QED BY <1>10, <2>1, <2>2, <2>3, <2>4 DEF Console
<1>11. ASSUME NEW d \in Env, ReadonlyAction(d) PROVE TypeOK'
  <2>1. ASSUME NEW c \in Content, ShellDiscovers(d, c) PROVE TypeOK'
    <3>1. [snap |-> c, keys |-> None] \in Build
      BY DEF Build, Keys
    <3> QED BY <1>0, <1>1, <1>2, <2>1, <3>1 DEF ShellDiscovers, TypeOK
  <2>2. CASE Analyse(d)
    BY <1>9, <2>2 DEF Page
  <2> QED BY <1>11, <2>1, <2>2 DEF ReadonlyAction
<1> QED BY <1>3, <1>4, <1>5, <1>6, <1>7, <1>8, <1>9, <1>10, <1>11, WorkedAreEnvs DEF Next

\* Every step keeps the operation in progress and its arguments together.
LEMMA ArgumentsStep ==
    ASSUME TypeOK, Arguments, Next PROVE Arguments'
<1> USE DEF Arguments, Goes, Step, End, Quiet, control, state, history
<1>1. job.env \in Env /\ Idle.op = "none"
  BY DEF TypeOK, Job, Idle
<1>2. CASE StageStep
  BY <1>1, <1>2 DEF StageStep, StageManifest, StageLedger
<1>3. CASE CommitStep
  <2>1. CASE ResetLedger \/ ResetManifest \/ UnlinkConfig \/ UnlinkReports
    BY <2>1 DEF ResetLedger, ResetManifest, UnlinkConfig, UnlinkReports
  <2>2. CASE WriteDiscovery \/ Discovered \/ ListFindings \/ WriteReports
    BY <2>2 DEF WriteDiscovery, Discovered, ListFindings, WriteReports
  <2>3. CASE Analysed \/ AnalysisRaises
    BY <1>1, <2>3 DEF Analysed, AnalysisRaises, AfterAnalysis
  <2> QED BY <1>3, <2>1, <2>2, <2>3 DEF CommitStep
<1>4. CASE SubtaskStep
  BY <1>1, <1>4 DEF SubtaskStep, ChildManifest, Bypass, ParentManifest
<1>5. CASE DeleteStep
  <2>1. (job.op = "delete" /\ UNCHANGED job) \/ Unlist
    BY <1>5 DEF DeleteStep, StillDeleting, UnlinkDiscovery, UnlinkConfigOf, UnlinkReportsOf,
          UnlinkSnapshot, UnlinkManifest, UnlinkLedger, UnlinkCopy, DiscoveryDeleted, StateDeleted,
          ConfigDeleted, ReportsDeleted
  <2>2. \/ pc' \in {"delete discovery", "delete state", "delete config", "delete reports", "unlist"}
        \/ Unlist
    BY <1>5 DEF DeleteStep, StillDeleting, UnlinkDiscovery, UnlinkConfigOf, UnlinkReportsOf,
          UnlinkSnapshot, UnlinkManifest, UnlinkLedger, UnlinkCopy, DiscoveryDeleted, StateDeleted,
          ConfigDeleted, ReportsDeleted
  <2> QED BY <1>1, <2>1, <2>2 DEF Unlist
<1>6. CASE Raise \/ Restart
  BY <1>1, <1>6 DEF Raise, Restart
<1>7. ASSUME NEW d \in Env, Page(d) PROVE Arguments'
  BY <1>7 DEF Page, SaveScope, Sign, Withdraw, CreateSnapshot, RestoreSnapshot, Analyse,
        Transform, Deploy
<1>8. ASSUME NEW d \in Env, Console(d) PROVE Arguments'
  <2> USE DEF Begin
  <2>1. ASSUME NEW c \in Content, StageSnapshot(d, c) PROVE Arguments'
    BY <2>1 DEF StageSnapshot, TypeOK
  <2>2. ASSUME NEW c \in {"default", "edited"}, CommitScope(d, c) PROVE Arguments'
    BY <2>2 DEF CommitScope
  <2>3. ASSUME NEW p \in Env, CopySnapshot(p, d) PROVE Arguments'
    BY <2>3 DEF CopySnapshot, TypeOK
  <2>4. CASE DeleteEnvironment(d)
    BY <2>4 DEF DeleteEnvironment
  <2> QED BY <1>8, <2>1, <2>2, <2>3, <2>4 DEF Console
<1>9. ASSUME NEW d \in Env, ReadonlyAction(d) PROVE Arguments'
  BY <1>9 DEF ReadonlyAction, ShellDiscovers, Analyse
<1> QED BY <1>2, <1>3, <1>4, <1>5, <1>6, <1>7, <1>8, <1>9, WorkedAreEnvs DEF Next

\* What an edit leaves of hash and keys.
LEMMA EditsOfKeys ==
    ASSUME NEW m \in Manifest
    PROVE  /\ \A c \in Content :
                 /\ Staged(m, c).hash = c
                 /\ Staged(m, c).keys.of = c \/ (m.hash = c /\ Staged(m, c).keys = m.keys)
           /\ \A c \in {"default", "edited"}, b \in BOOLEAN :
                 /\ Decided(m, c, b).hash = m.hash
                 /\ m.keys = None => Decided(m, c, b).keys = None
                 /\ m.keys # None => Decided(m, c, b).keys.of = m.keys.of
           /\ \A s : LET n == [m EXCEPT !.signed = s] IN n.hash = m.hash /\ n.keys = m.keys
           /\ LET n == [m EXCEPT !.hash = None] IN n.hash = None /\ n.keys = m.keys
<1>1. m.keys # None => m.keys \in [of : Content, choice : {"default", "edited"}]
  BY DEF Manifest, Keys
<1> QED BY <1>1 DEF Staged, Decided, Manifest

\* Keys stay about the snapshot: what changes the one changes the other, or is noted.
LEMMA KeysStep ==
    ASSUME TypeOK, Arguments, KeysHaveTheHash, ChildHasTheSnapshot, SavedFits, Next
    PROVE  KeysHaveTheHash' /\ ChildHasTheSnapshot'
<1> DEFINE e == job.env
           About(d) == man[d] # None /\ man[d].keys # None =>
                          /\ man[d].hash # None => man[d].keys.of = man[d].hash
                          /\ d \notin torn => man[d].keys.of = snap[d]
<1>1. e \in Env
  BY DEF TypeOK, Job
<1>2. \A d \in Env : ManifestOf(d) \in Manifest
  BY LoadedIsTyped
<1>3. Default.keys = None
  BY DEF Default
<1>4. \A d \in Env : About(d)
  BY DEF KeysHaveTheHash
<1>5. ASSUME UNCHANGED <<snap, man, torn>>, pc' # "child manifest"
      PROVE  KeysHaveTheHash' /\ ChildHasTheSnapshot'
  BY <1>5 DEF KeysHaveTheHash, ChildHasTheSnapshot
<1>6. ASSUME UNCHANGED <<snap, torn>>, pc' # "child manifest", NEW d \in Env, NEW m,
             man' = [man EXCEPT ![d] = m], m.hash = ManifestOf(d).hash,
             m.keys # None => /\ ManifestOf(d).keys # None
                              /\ m.keys.of = ManifestOf(d).keys.of
      PROVE  KeysHaveTheHash' /\ ChildHasTheSnapshot'
  <2>1. m.keys # None => man[d] # None /\ ManifestOf(d) = man[d]
    BY <1>3, <1>6 DEF ManifestOf
  <2> QED BY <1>4, <1>6, <2>1 DEF KeysHaveTheHash, ChildHasTheSnapshot, TypeOK
<1> USE DEF Goes, Step, End, Quiet, control, state, history
<1>7. CASE StageStep
  <2>1. CASE StageManifest
    <3>1. job.load \in Content /\ snap[e] = job.load /\ job.load # None
      BY <2>1, NoneIsNothing DEF StageManifest, Arguments
    <3> DEFINE m == ManifestOf(e)
    <3>2. Staged(m, job.load).keys.of = job.load \/ Staged(m, job.load).keys = None
      <4>1. CASE Staged(m, job.load).keys.of = job.load
        BY <4>1
      <4>2. CASE m.hash = job.load /\ Staged(m, job.load).keys = m.keys
        BY <1>1, <1>3, <1>4, <3>1, <4>2 DEF ManifestOf
      <4> QED BY <1>1, <1>2, <3>1, <4>1, <4>2, EditsOfKeys
    <3>3. man' = [man EXCEPT ![e] = Staged(m, job.load)] /\ torn' = torn \ {e} /\ snap' = snap
      BY <2>1 DEF StageManifest
    <3>4. Staged(m, job.load).hash = job.load
      BY <1>1, <1>2, <3>1, EditsOfKeys
    <3> HIDE DEF m
    <3>5. KeysHaveTheHash'
      BY <1>1, <1>4, <3>1, <3>2, <3>3, <3>4 DEF KeysHaveTheHash, TypeOK
    <3> QED BY <2>1, <3>5 DEF StageManifest, ChildHasTheSnapshot
  <2>2. CASE StageLedger
    BY <1>5, <2>2 DEF StageLedger
  <2> QED BY <1>7, <2>1, <2>2 DEF StageStep
<1>8. CASE CommitStep
  <2>1. CASE ResetManifest
    <3> DEFINE m == ManifestOf(e)
               n == [m EXCEPT !.signed = Unsigned]
    <3>1. n.hash = m.hash /\ n.keys = m.keys
      BY <1>1, <1>2, EditsOfKeys
    <3> QED BY <1>1, <1>6, <2>1, <3>1 DEF ResetManifest
  <2>2. CASE ~ResetManifest
    BY <1>5, <1>8, <2>2 DEF CommitStep, ResetLedger, UnlinkConfig, UnlinkReports, WriteDiscovery,
          Discovered, ListFindings, WriteReports, Analysed, AnalysisRaises, AfterAnalysis
  <2> QED BY <2>1, <2>2
<1>9. CASE SubtaskStep
  <2> DEFINE p == job.parent
  <2>1. CASE ChildManifest
    <3> DEFINE m == [Default EXCEPT !.scope = TRUE, !.parent = p, !.keys = ManifestOf(p).keys]
    <3>1. p \in Env /\ snap[e] = snap[p] /\ (p \in torn => e \in torn)
      BY <2>1 DEF ChildManifest, Arguments, ChildHasTheSnapshot
    <3>2. m.hash = None /\ m.keys = ManifestOf(p).keys
      BY DEF Default
    <3>3. m.keys # None /\ e \notin torn => m.keys.of = snap[e]
      BY <1>3, <1>4, <3>1, <3>2 DEF ManifestOf
    <3>4. man' = [man EXCEPT ![e] = m] /\ UNCHANGED <<snap, torn>>
      BY <2>1 DEF ChildManifest
    <3> HIDE DEF m
    <3>5. KeysHaveTheHash'
      BY <1>1, <1>4, <3>2, <3>3, <3>4 DEF KeysHaveTheHash, TypeOK
    <3> QED BY <2>1, <3>5 DEF ChildManifest, ChildHasTheSnapshot
  <2>2. CASE Bypass
    BY <1>5, <2>2 DEF Bypass
  <2>3. CASE ParentManifest
    <3>1. p \in Env
      BY <2>3 DEF ParentManifest, Arguments
    <3> QED BY <1>6, <2>3, <3>1 DEF ParentManifest
  <2> QED BY <1>9, <2>1, <2>2, <2>3 DEF SubtaskStep
<1>10. CASE DeleteStep
  <2>1. CASE UnlinkSnapshot
    BY <1>1, <1>4, <2>1 DEF UnlinkSnapshot, StillDeleting, KeysHaveTheHash, ChildHasTheSnapshot,
          TypeOK
  <2>2. CASE UnlinkManifest
    BY <1>1, <1>4, <2>2 DEF UnlinkManifest, StillDeleting, KeysHaveTheHash, ChildHasTheSnapshot,
          TypeOK
  <2>3. CASE ~UnlinkSnapshot /\ ~UnlinkManifest
    BY <1>5, <1>10, <2>3 DEF DeleteStep, StillDeleting, UnlinkDiscovery, UnlinkConfigOf,
          UnlinkReportsOf, UnlinkLedger, UnlinkCopy, DiscoveryDeleted, StateDeleted, ConfigDeleted,
          ReportsDeleted, Unlist
  <2> QED BY <2>1, <2>2, <2>3
<1>11. CASE Raise
  BY <1>5, <1>11 DEF Raise
<1>12. CASE Restart
  <2>1. ASSUME NEW d \in Env, man[d] # None
        PROVE  man'[d].hash = None /\ man'[d].keys = man[d].keys
    <3>1. man[d] \in Manifest /\ man'[d] = [man[d] EXCEPT !.hash = None]
      BY <1>12, <2>1 DEF Restart, TypeOK
    <3> QED BY <3>1, EditsOfKeys
  <2>2. \A d \in Env : man[d] = None => man'[d] = None
    BY <1>12 DEF Restart
  <2> QED BY <1>4, <1>12, <2>1, <2>2 DEF Restart, KeysHaveTheHash, ChildHasTheSnapshot
<1>13. ASSUME NEW d \in Env, Page(d) PROVE KeysHaveTheHash' /\ ChildHasTheSnapshot'
  <2>1. ASSUME NEW c \in {"default", "edited"}, NEW b \in BOOLEAN, SaveScope(d, c, b)
        PROVE  KeysHaveTheHash' /\ ChildHasTheSnapshot'
    <3> DEFINE n == Decided(ManifestOf(d), c, b)
    <3>1. /\ n.hash = ManifestOf(d).hash
          /\ n.keys # None => /\ ManifestOf(d).keys # None
                              /\ n.keys.of = ManifestOf(d).keys.of
      BY <1>2, EditsOfKeys
    <3>2. man' = [man EXCEPT ![d] = n] /\ UNCHANGED <<snap, torn>> /\ pc' # "child manifest"
      BY <2>1 DEF SaveScope
    <3> HIDE DEF n
    <3> QED BY <1>6, <3>1, <3>2
  <2>2. ASSUME NEW g \in Gate, Sign(d, g) PROVE KeysHaveTheHash' /\ ChildHasTheSnapshot'
    <3> DEFINE b == IF disc[d] = None THEN Unseen ELSE disc[d]
               n == [ManifestOf(d) EXCEPT !.signed[g] = b]
    <3>1. n.hash = ManifestOf(d).hash /\ n.keys = ManifestOf(d).keys
      BY <1>2 DEF Manifest
    <3> QED BY <1>6, <2>2, <3>1 DEF Sign
  <2>3. ASSUME NEW g \in Gate, Withdraw(d, g) PROVE KeysHaveTheHash' /\ ChildHasTheSnapshot'
    <3> DEFINE n == [man[d] EXCEPT !.signed[g] = None]
    <3>1. man[d] \in Manifest /\ ManifestOf(d) = man[d] /\ man' = [man EXCEPT ![d] = n]
      BY <2>3 DEF Withdraw, ManifestOf, TypeOK
    <3>2. n.hash = ManifestOf(d).hash /\ n.keys = ManifestOf(d).keys
      BY <3>1 DEF Manifest
    <3> QED BY <1>6, <2>3, <3>1, <3>2 DEF Withdraw
  <2>4. CASE Analyse(d) \/ Transform(d) \/ Deploy(d)
    BY <1>5, <2>4 DEF Analyse, Transform, Deploy
  <2>5. CASE CreateSnapshot(d)
    BY <1>6, <2>5 DEF CreateSnapshot
  <2>6. ASSUME NEW k \in saved[d], RestoreSnapshot(d, k)
        PROVE  KeysHaveTheHash' /\ ChildHasTheSnapshot'
    <3>1. /\ man' = [man EXCEPT ![d] = k.copy] /\ snap' = snap
          /\ torn' = IF k.raw = snap[d] THEN torn \ {d} ELSE torn \cup {d}
      BY <2>6 DEF RestoreSnapshot
    <3>2. k.copy.keys # None => /\ k.copy.hash # None => k.copy.keys.of = k.copy.hash
                                /\ k.raw # Unseen => k.copy.keys.of = k.raw
      BY DEF SavedFits
    <3>3. snap[d] # Unseen
      BY NoneIsNothing DEF TypeOK
    <3>4. KeysHaveTheHash'
      BY <1>4, <3>1, <3>2, <3>3 DEF KeysHaveTheHash, TypeOK
    <3> QED BY <2>6, <3>4 DEF RestoreSnapshot, ChildHasTheSnapshot
  <2> QED BY <1>13, <2>1, <2>2, <2>3, <2>4, <2>5, <2>6 DEF Page
<1>14. ASSUME NEW d \in Env, Console(d) PROVE KeysHaveTheHash' /\ ChildHasTheSnapshot'
  <2> USE DEF Begin
  <2>1. ASSUME NEW c \in Content, StageSnapshot(d, c)
        PROVE  KeysHaveTheHash' /\ ChildHasTheSnapshot'
    BY <1>4, <2>1 DEF StageSnapshot, KeysHaveTheHash, ChildHasTheSnapshot, TypeOK
  <2>2. ASSUME NEW c \in {"default", "edited"}, CommitScope(d, c)
        PROVE  KeysHaveTheHash' /\ ChildHasTheSnapshot'
    BY <1>2, <1>6, <2>2, EditsOfKeys DEF CommitScope
  <2>3. ASSUME NEW p \in Env, CopySnapshot(p, d)
        PROVE  KeysHaveTheHash' /\ ChildHasTheSnapshot'
    <3>1. man[d] = None /\ p # d /\ job'.env = d /\ job'.parent = p
      BY <2>3 DEF CopySnapshot, Fresh
    <3>2. /\ snap' = [snap EXCEPT ![d] = snap[p]] /\ man' = man
          /\ torn' = IF p \in torn THEN torn \cup {d} ELSE torn \ {d}
      BY <2>3 DEF CopySnapshot
    <3> QED BY <1>4, <3>1, <3>2 DEF KeysHaveTheHash, ChildHasTheSnapshot, TypeOK
  <2>4. CASE DeleteEnvironment(d)
    BY <1>5, <2>4 DEF DeleteEnvironment
  <2> QED BY <1>14, <2>1, <2>2, <2>3, <2>4 DEF Console
<1>15. ASSUME NEW d \in Env, ReadonlyAction(d) PROVE KeysHaveTheHash' /\ ChildHasTheSnapshot'
  BY <1>5, <1>15 DEF ReadonlyAction, ShellDiscovers, Analyse
<1> QED BY <1>7, <1>8, <1>9, <1>10, <1>11, <1>12, <1>13, <1>14, <1>15, WorkedAreEnvs DEF Next

\* A commit and its analysis, one write after the other, and nothing in between.
LEMMA CommitProgress ==
    ASSUME TypeOK, Arguments, Resetting, Analysing, Next PROVE Resetting' /\ Analysing'
<1> USE DEF Resetting, Analysing, Goes, Step, End, Quiet, control, state, outputs, history
<1>1. job.env \in Env
  BY DEF TypeOK, Job
<1>2. ASSUME pc' \notin {"reset manifest", "unlink config", "unlink reports", "discovery",
                         "child manifest", "discovered", "items", "reports", "analysed"}
      PROVE  Resetting' /\ Analysing'
  BY <1>2
<1>3. CASE StageStep
  BY <1>2, <1>3 DEF StageStep, StageManifest, StageLedger
<1>4. CASE CommitStep
  <2>1. CASE ResetLedger
    BY <1>1, <2>1 DEF ResetLedger, TypeOK
  <2>2. CASE ResetManifest
    <3>1. ManifestOf(job.env) \in Manifest
      BY <1>1, LoadedIsTyped
    <3> DEFINE m == [ManifestOf(job.env) EXCEPT !.signed = Unsigned]
    <3>2. m \in Manifest /\ m.signed = Unsigned
      BY <3>1, EditsAreTyped DEF Manifest
    <3>3. m # None
      BY <3>2, RecordsAreSomething
    <3> QED BY <1>1, <2>2, <3>2, <3>3 DEF ResetManifest, TypeOK
  <2>3. CASE UnlinkConfig
    BY <1>1, <2>3 DEF UnlinkConfig, TypeOK
  <2>4. CASE UnlinkReports
    BY <1>1, <2>4 DEF UnlinkReports
  <2>5. CASE WriteDiscovery
    <3>1. disc'[job.env] # None
      BY <1>1, <2>5, CandidateIsBuild, NoneIsNothing DEF WriteDiscovery, TypeOK
    <3> QED BY <2>5, <3>1 DEF WriteDiscovery
  <2>6. CASE Discovered \/ ListFindings
    BY <2>6 DEF Discovered, ListFindings
  <2>7. CASE WriteReports
    BY <1>1, <2>7 DEF WriteReports, TypeOK
  <2>8. CASE Analysed \/ AnalysisRaises
    BY <1>2, <2>8 DEF Analysed, AnalysisRaises, AfterAnalysis
  <2> QED BY <1>4, <2>1, <2>2, <2>3, <2>4, <2>5, <2>6, <2>7, <2>8 DEF CommitStep
<1>5. CASE SubtaskStep
  BY <1>2, <1>5 DEF SubtaskStep, ChildManifest, Bypass, ParentManifest
<1>6. CASE DeleteStep
  BY <1>2, <1>6 DEF DeleteStep, StillDeleting, UnlinkDiscovery, UnlinkConfigOf, UnlinkReportsOf,
        UnlinkSnapshot, UnlinkManifest, UnlinkLedger, UnlinkCopy, DiscoveryDeleted, StateDeleted,
        ConfigDeleted, ReportsDeleted, Unlist
<1>7. CASE Raise \/ Restart
  BY <1>2, <1>7 DEF Raise, Restart
<1>8. ASSUME NEW d \in Env, Page(d) PROVE Resetting' /\ Analysing'
  BY <1>2, <1>8 DEF Page, SaveScope, Sign, Withdraw, CreateSnapshot, RestoreSnapshot, Analyse,
        Transform, Deploy
<1>9. ASSUME NEW d \in Env, Console(d) PROVE Resetting' /\ Analysing'
  <2> USE DEF Begin
  <2>1. ASSUME NEW c \in {"default", "edited"}, CommitScope(d, c) PROVE Resetting' /\ Analysing'
    BY <2>1 DEF CommitScope
  <2>2. ASSUME NEW p \in Env, CopySnapshot(p, d) PROVE Resetting' /\ Analysing'
    BY <2>2 DEF CopySnapshot, Fresh
  <2>3. CASE (\E c \in Content : StageSnapshot(d, c)) \/ DeleteEnvironment(d)
    BY <1>2, <2>3 DEF StageSnapshot, DeleteEnvironment
  <2> QED BY <1>9, <2>1, <2>2, <2>3 DEF Console
<1>10. ASSUME NEW d \in Env, ReadonlyAction(d) PROVE Resetting' /\ Analysing'
  BY <1>2, <1>10 DEF ReadonlyAction, ShellDiscovers, Analyse
<1> QED BY <1>3, <1>4, <1>5, <1>6, <1>7, <1>8, <1>9, <1>10, WorkedAreEnvs DEF Next

\* A deletion, one root directory after the other.
LEMMA DeleteProgress ==
    ASSUME TypeOK, Deleting, Next PROVE Deleting'
<1> USE DEF Goes, Step, End, Quiet, control, state, outputs, history
<1>1. job.env \in Env
  BY DEF TypeOK, Job
<1>2. ASSUME pc' \notin {"delete state", "delete config", "delete reports", "unlist"}
      PROVE  Deleting'
  BY <1>2 DEF Deleting
<1>3. CASE StageStep
  BY <1>2, <1>3 DEF StageStep, StageManifest, StageLedger
<1>4. CASE CommitStep
  <2>1. CASE ResetLedger \/ ResetManifest \/ UnlinkConfig \/ UnlinkReports
    BY <1>2, <2>1 DEF ResetLedger, ResetManifest, UnlinkConfig, UnlinkReports
  <2>2. CASE WriteDiscovery \/ Discovered \/ ListFindings \/ WriteReports
    BY <1>2, <2>2 DEF WriteDiscovery, Discovered, ListFindings, WriteReports
  <2>3. CASE Analysed \/ AnalysisRaises
    BY <1>2, <2>3 DEF Analysed, AnalysisRaises, AfterAnalysis
  <2> QED BY <1>4, <2>1, <2>2, <2>3 DEF CommitStep
<1>5. CASE SubtaskStep
  BY <1>2, <1>5 DEF SubtaskStep, ChildManifest, Bypass, ParentManifest
<1>6. CASE DeleteStep
  <2>1. ASSUME NEW d \in Env, UnlinkDiscovery(d) PROVE Deleting'
    BY <1>2, <2>1 DEF UnlinkDiscovery, StillDeleting
  <2>2. ASSUME NEW d \in Env, UnlinkConfigOf(d) \/ UnlinkReportsOf(d) PROVE Deleting'
    BY <2>2 DEF UnlinkConfigOf, UnlinkReportsOf, StillDeleting, Deleting, TypeOK
  <2>3. CASE UnlinkSnapshot \/ UnlinkManifest \/ UnlinkLedger \/ UnlinkCopy
    BY <2>3 DEF UnlinkSnapshot, UnlinkManifest, UnlinkLedger, UnlinkCopy, StillDeleting, Deleting
  <2>4. CASE DiscoveryDeleted
    BY <2>4 DEF DiscoveryDeleted, LeftIf, Leaves, Deleting, TypeOK
  <2>5. CASE StateDeleted
    BY <2>5 DEF StateDeleted, LeftIf, Deleting
  <2>6. CASE ConfigDeleted \/ ReportsDeleted
    <3>1. Takes("fortiadc", job.env, job.env) /\ Takes("reports", job.env, job.env)
      BY DEF Takes
    <3>2. CASE ConfigDeleted
      <4>1. /\ pc = "delete config" /\ pc' = "delete reports"
            /\ UNCHANGED <<job, snap, man, led, saved, disc, conf, rep, loose>>
        BY <3>2 DEF ConfigDeleted
      <4>2. job.env \notin held' => job.env \notin held /\ conf[job.env] = None
        BY <1>1, <3>1, <3>2 DEF ConfigDeleted, LeftIf, Leaves, TypeOK
      <4> QED BY <1>1, <4>1, <4>2 DEF Deleting
    <3>3. CASE ReportsDeleted
      <4>1. /\ pc = "delete reports" /\ pc' = "unlist"
            /\ UNCHANGED <<job, snap, man, led, saved, disc, conf, rep, loose>>
        BY <3>3 DEF ReportsDeleted
      <4>2. job.env \notin held' => job.env \notin held /\ rep[job.env] = None
        BY <1>1, <3>1, <3>3 DEF ReportsDeleted, LeftIf, Leaves, TypeOK
      <4> QED BY <1>1, <4>1, <4>2 DEF Deleting
    <3> QED BY <2>6, <3>2, <3>3
  <2>7. CASE Unlist
    BY <1>2, <2>7 DEF Unlist
  <2> QED BY <1>6, <2>1, <2>2, <2>3, <2>4, <2>5, <2>6, <2>7 DEF DeleteStep
<1>7. CASE Raise \/ Restart
  BY <1>2, <1>7 DEF Raise, Restart
<1>8. ASSUME NEW d \in Env, Page(d) PROVE Deleting'
  BY <1>2, <1>8 DEF Page, SaveScope, Sign, Withdraw, CreateSnapshot, RestoreSnapshot, Analyse,
        Transform, Deploy
<1>9. ASSUME NEW d \in Env, Console(d) PROVE Deleting'
  BY <1>2, <1>9 DEF Console, Begin, StageSnapshot, CommitScope, CopySnapshot, DeleteEnvironment
<1>10. ASSUME NEW d \in Env, ReadonlyAction(d) PROVE Deleting'
  BY <1>2, <1>10 DEF ReadonlyAction, ShellDiscovers, Analyse
<1> QED BY <1>3, <1>4, <1>5, <1>6, <1>7, <1>8, <1>9, <1>10, WorkedAreEnvs DEF Next

\* What an edit of a manifest leaves of its approvals.
LEMMA EditsOfApprovals ==
    ASSUME NEW m \in Manifest
    PROVE  /\ \A c \in Content : Staged(m, c).signed = m.signed
           /\ \A c \in {"default", "edited"}, b \in BOOLEAN : Decided(m, c, b).signed = m.signed
           /\ [m EXCEPT !.signed = Unsigned].signed = Unsigned
           /\ [m EXCEPT !.hash = None].signed = m.signed
           /\ \A b : \A g \in Gate :
                 /\ [m EXCEPT !.signed[g] = b].signed[g] = b
                 /\ \A h \in Gate \ {g} : [m EXCEPT !.signed[g] = b].signed[h] = m.signed[h]
           /\ \A p, k : [Default EXCEPT !.scope = TRUE, !.parent = p, !.keys = k].signed = Unsigned
<1>1. \A c \in Content : Staged(m, c).signed = m.signed
  BY DEF Staged, Manifest
<1>2. \A c \in {"default", "edited"}, b \in BOOLEAN : Decided(m, c, b).signed = m.signed
  BY DEF Decided, Manifest
<1>3. [m EXCEPT !.signed = Unsigned].signed = Unsigned /\ [m EXCEPT !.hash = None].signed = m.signed
  BY DEF Manifest
<1>4. \A b : \A g \in Gate :
         /\ [m EXCEPT !.signed[g] = b].signed[g] = b
         /\ \A h \in Gate \ {g} : [m EXCEPT !.signed[g] = b].signed[h] = m.signed[h]
  BY DEF Manifest, Approvals
<1>5. \A p, k : [Default EXCEPT !.scope = TRUE, !.parent = p, !.keys = k].signed = Unsigned
  BY DEF Default
<1> QED BY <1>1, <1>2, <1>3, <1>4, <1>5

\* An environment whose files stay as they are fits as before.
LEMMA SameFits ==
    ASSUME NEW d \in Env, Fits(d), d \in held => d \in held',
           d \in restored => d \in restored',
           UNCHANGED <<man[d], led[d], disc[d], conf[d], rep[d], target[d]>>
    PROVE  Fits(d)'
BY DEF Fits, CurrentApprovals, CurrentLedger, CurrentConfig

\* One whose manifest is edited fits if no approval is added.
LEMMA ManifestFits ==
    ASSUME TypeOK, NEW d \in Env, NEW m, Fits(d), UNCHANGED <<led, disc, conf, rep, target, held, restored>>,
           man' = [man EXCEPT ![d] = m], m.signed \in {ManifestOf(d).signed, Unsigned}
    PROVE  \A e \in Env : Fits(e) => Fits(e)'
<1>1. d \notin restored => \A g \in Gate : m.signed[g] \in {None, disc[d]}
  BY DEF Fits, CurrentApprovals, ManifestOf, Default, Unsigned
<1>2. man'[d] = m /\ \A e \in Env \ {d} : man'[e] = man[e]
  BY DEF TypeOK
<1>3. Fits(d)'
  BY <1>1, <1>2 DEF Fits, CurrentApprovals, CurrentLedger, CurrentConfig
<1>4. \A e \in Env \ {d} : Fits(e) => Fits(e)'
  BY <1>2, SameFits
<1> QED BY <1>3, <1>4

\* One whose ledger is loaded and saved, or begun anew, fits.
LEMMA LedgerFits ==
    ASSUME TypeOK, NEW d \in Env, NEW l \in {LedgerOf(d), NewLedger}, Fits(d),
           UNCHANGED <<man, disc, conf, rep, target, held, restored>>, led' = [led EXCEPT ![d] = l]
    PROVE  \A e \in Env : Fits(e) => Fits(e)'
<1>1. /\ NewLedger.items = {}
      /\ \A ph \in {"analyse", "transform", "deploy"} : NewLedger.status[ph] = "pending"
  BY DEF NewLedger, Phase
<1>2. led'[d] = l /\ \A e \in Env \ {d} : led'[e] = led[e]
  BY DEF TypeOK
<1>3. Fits(d)'
  <2>1. CurrentLedger(d)'
    BY <1>1, <1>2 DEF Fits, CurrentLedger, LedgerOf
  <2> QED BY <2>1 DEF Fits, CurrentApprovals, CurrentConfig
<1>4. \A e \in Env \ {d} : Fits(e) => Fits(e)'
  BY <1>2, SameFits
<1> QED BY <1>3, <1>4

\* What a mark changes in a ledger.
LEMMA MarkedLedger ==
    ASSUME NEW l \in Ledger, NEW ph \in Phase
    PROVE  /\ Marked(l, ph, "done").items = l.items
           /\ \A q \in Phase : Marked(l, ph, "done").status[q] =
                                  IF q = ph THEN "done" ELSE l.status[q]
BY DEF Marked, Ledger

\* A ledger as loaded says no more than the one on file.
LEMMA LoadedLedger ==
    ASSUME TypeOK, NEW d \in Env, CurrentLedger(d)
    PROVE  /\ LedgerOf(d) \in Ledger
           /\ LedgerOf(d).items \subseteq {disc[d]}
           /\ LedgerOf(d).status["analyse"] = "done" => disc[d] # None /\ rep[d] = disc[d]
           /\ LedgerOf(d).status["transform"] = "done" => disc[d] # None /\ conf[d] = disc[d]
           /\ LedgerOf(d).status["deploy"] = "done" =>
                 disc[d] # None /\ (d \notin held => target[d] = disc[d])
<1>1. LedgerOf(d) \in Ledger
  BY LoadedIsTyped
<1>2. CASE led[d] = None
  BY <1>1, <1>2 DEF LedgerOf, NewLedger, Phase
<1>3. CASE led[d] # None
  BY <1>1, <1>3 DEF LedgerOf, CurrentLedger
<1> QED BY <1>2, <1>3

\* The files of an environment keep to one discovery, at every write.
LEMMA CurrentStep ==
    ASSUME TypeOK, Arguments, Current, Resetting, Analysing, Deleting, SavedFits, Next PROVE Current'
<1> USE DEF Goes, Step, End, Quiet, control, state, outputs, history
<1>1. PICK e \in Env : e = job.env
  BY DEF TypeOK, Job
<1>2. \A d \in Env : ManifestOf(d) \in Manifest
  BY LoadedIsTyped
<1>3. \A d \in Env \ loose : Fits(d) /\ CurrentLedger(d)
  BY DEF Current, Fits
<1>4. ASSUME UNCHANGED <<man, led, disc, conf, rep, target, held, loose, restored>> PROVE Current'
  BY <1>3, <1>4, SameFits DEF Current
<1>5. ASSUME NEW d \in Env, NEW m, man' = [man EXCEPT ![d] = m],
             m.signed \in {ManifestOf(d).signed, Unsigned},
             UNCHANGED <<led, disc, conf, rep, target, held, loose, restored>>
      PROVE  Current'
  <2>1. CASE d \in loose
    <3>1. \A f \in Env \ {d} : man'[f] = man[f]
      BY <1>5 DEF TypeOK
    <3> QED BY <1>3, <1>5, <2>1, <3>1, SameFits DEF Current
  <2>2. CASE d \notin loose
    BY <1>3, <1>5, <2>2, ManifestFits DEF Current
  <2> QED BY <2>1, <2>2
<1>6. ASSUME NEW d \in Env, NEW l \in {LedgerOf(d), NewLedger}, led' = [led EXCEPT ![d] = l],
             UNCHANGED <<man, disc, conf, rep, target, held, loose, restored>>
      PROVE  Current'
  <2>1. CASE d \in loose
    <3>1. \A f \in Env \ {d} : led'[f] = led[f]
      BY <1>6 DEF TypeOK
    <3> QED BY <1>3, <1>6, <2>1, <3>1, SameFits DEF Current
  <2>2. CASE d \notin loose
    BY <1>3, <1>6, <2>2, LedgerFits DEF Current
  <2> QED BY <2>1, <2>2
\* One environment is worked on: the others are as they were.
<1>7. ASSUME NEW d \in Env, d \in loose' \/ Fits(d)', loose \ {d} \subseteq loose',
             \A f \in Env \ {d} : /\ UNCHANGED <<man[f], led[f], disc[f], conf[f], rep[f], target[f]>>
                                  /\ f \in held => f \in held'
                                  /\ f \in restored => f \in restored'
      PROVE  Current'
  BY <1>3, <1>7, SameFits DEF Current
<1>8. CASE StageStep
  <2>1. CASE StageManifest
    <3>1. /\ man' = [man EXCEPT ![e] = Staged(ManifestOf(e), job.load)]
          /\ UNCHANGED <<led, disc, conf, rep, target, held, loose, restored>>
          /\ ManifestOf(e) \in Manifest /\ job.load \in Content
      BY <1>1, <1>2, <2>1 DEF StageManifest, Step, Arguments, outputs
    <3>2. Staged(ManifestOf(e), job.load).signed = ManifestOf(e).signed
      BY <3>1, EditsOfApprovals
    <3> QED BY <1>1, <1>5, <3>1, <3>2
  <2>2. CASE StageLedger
    BY <1>1, <1>6, <2>2 DEF StageLedger
  <2> QED BY <1>8, <2>1, <2>2 DEF StageStep
<1>9. CASE CommitStep
  <2>1. CASE ResetLedger
    BY <1>1, <1>6, <2>1 DEF ResetLedger
  <2>2. CASE ResetManifest
    <3> DEFINE n == [ManifestOf(e) EXCEPT !.signed = Unsigned]
    <3>1. n.signed = Unsigned
      BY <1>2, EditsOfApprovals
    <3>2. /\ man' = [man EXCEPT ![e] = n] /\ restored' = restored \ {e}
          /\ UNCHANGED <<led, disc, conf, rep, target, held, loose>>
      BY <1>1, <2>2 DEF ResetManifest
    <3> HIDE DEF n
    <3>3. man'[e] = n /\ \A f \in Env \ {e} : man'[f] = man[f]
      BY <3>2 DEF TypeOK
    <3>4. ASSUME e \notin loose PROVE Fits(e)'
      <4>1. CurrentApprovals(e)'
        BY <3>1, <3>3 DEF CurrentApprovals, Unsigned
      <4> QED BY <1>3, <3>2, <3>4, <4>1 DEF Fits, CurrentLedger, CurrentConfig
    <3> QED BY <1>7, <3>2, <3>3, <3>4
  <2>3. CASE UnlinkConfig
    <3>1. ASSUME e \notin loose PROVE Fits(e)'
      <4>1. led[e] # None => led[e].status["transform"] # "done"
        <5>1. CASE disc[e] = None
          BY <1>1, <1>3, <3>1, <5>1 DEF CurrentLedger
        <5>2. CASE disc[e] # None
          <6>1. led[e] = NewLedger
            BY <1>1, <2>3, <5>2 DEF UnlinkConfig, Resetting
          <6> QED BY <6>1 DEF NewLedger, Phase
        <5> QED BY <5>1, <5>2
      <4> QED BY <1>1, <1>3, <2>3, <3>1, <4>1
              DEF UnlinkConfig, Fits, CurrentApprovals, CurrentLedger, CurrentConfig, TypeOK
    <3> QED BY <1>1, <1>7, <2>3, <3>1 DEF UnlinkConfig, TypeOK
  <2>4. CASE UnlinkReports
    <3>1. ASSUME e \notin loose PROVE Fits(e)'
      <4>1. led[e] # None => led[e].status["analyse"] # "done"
        <5>1. CASE disc[e] = None
          BY <1>1, <1>3, <3>1, <5>1 DEF CurrentLedger
        <5>2. CASE disc[e] # None
          <6>1. led[e] = NewLedger
            BY <1>1, <2>4, <5>2 DEF UnlinkReports, Resetting
          <6> QED BY <6>1 DEF NewLedger, Phase
        <5> QED BY <5>1, <5>2
      <4> QED BY <1>1, <1>3, <2>4, <3>1, <4>1
              DEF UnlinkReports, Fits, CurrentApprovals, CurrentLedger, CurrentConfig, TypeOK
    <3> QED BY <1>1, <1>7, <2>4, <3>1 DEF UnlinkReports, TypeOK
  <2>5. CASE Discovered
    BY <1>1, <1>6, <2>5 DEF Discovered
  <2>6. CASE AnalysisRaises
    BY <1>4, <2>6 DEF AnalysisRaises
  <2>7. CASE WriteDiscovery
    <3>1. disc' = [disc EXCEPT ![e] = Candidate(e)] /\ UNCHANGED <<man, led, conf, rep, target, held, restored>>
      BY <1>1, <2>7 DEF WriteDiscovery
    <3>2. CASE disc[e] = None
      <4>1. loose' = loose
        BY <1>1, <2>7, <3>2 DEF WriteDiscovery
      <4>2. ASSUME e \notin loose PROVE Fits(e)'
        <5>1. Fits(e) /\ None \notin Build
          BY <1>1, <1>3, <4>2, NoneIsNothing
        <5>2. led[e] # None => led[e].items \subseteq Build
          BY <1>1 DEF TypeOK, Ledger
        <5>3. CurrentApprovals(e)'
          BY <3>1, <3>2, <5>1 DEF Fits, CurrentApprovals
        <5>4. CurrentLedger(e)'
          BY <1>1, <3>1, <3>2, <5>1, <5>2 DEF Fits, CurrentLedger
        <5>5. CurrentConfig(e)'
          BY <3>1, <3>2, <5>1 DEF Fits, CurrentConfig, TypeOK
        <5> QED BY <5>3, <5>4, <5>5 DEF Fits
      <4> QED BY <1>1, <1>7, <3>1, <4>1, <4>2 DEF TypeOK
    <3>3. CASE disc[e] # None
      <4>1. /\ led[e] = NewLedger /\ man[e] # None /\ man[e].signed = Unsigned
            /\ conf[e] = None \/ e \in held
        BY <1>1, <2>7, <3>3 DEF WriteDiscovery, Resetting
      <4>2. Fits(e)'
        <5>1. CurrentApprovals(e)'
          BY <3>1, <4>1 DEF CurrentApprovals, Unsigned
        <5>2. CurrentLedger(e)'
          BY <3>1, <4>1 DEF CurrentLedger, NewLedger, Phase
        <5>3. disc'[e] # None
          BY <1>1, <2>7, <3>1, CandidateIsBuild, NoneIsNothing DEF WriteDiscovery, TypeOK
        <5>4. CurrentConfig(e)'
          BY <3>1, <4>1, <5>3 DEF CurrentConfig
        <5> QED BY <5>1, <5>2, <5>4 DEF Fits
      <4>3. loose' = loose \ {e}
        BY <1>1, <2>7, <3>3 DEF WriteDiscovery
      <4> QED BY <1>1, <1>7, <3>1, <4>2, <4>3 DEF TypeOK
    <3> QED BY <3>2, <3>3
  <2>8. CASE ListFindings
    <3>1. CASE UNCHANGED led
      BY <1>4, <2>8, <3>1 DEF ListFindings
    <3>2. CASE led' = [led EXCEPT ![e] = [LedgerOf(e) EXCEPT !.items = @ \cup {disc[e]}]]
      <4> DEFINE l == [LedgerOf(e) EXCEPT !.items = @ \cup {disc[e]}]
      <4>1. ASSUME e \notin loose PROVE Fits(e)'
        <5>1. LedgerOf(e) \in Ledger
          BY <1>1, LoadedIsTyped
        <5>2. l.items = LedgerOf(e).items \cup {disc[e]} /\ l.status = LedgerOf(e).status
          BY <5>1 DEF Ledger
        <5>3. led'[e] = l
          BY <1>1, <3>2 DEF TypeOK
        <5> HIDE DEF l
        <5>4. CurrentLedger(e)'
          BY <1>1, <1>3, <2>8, <4>1, <5>2, <5>3, LoadedLedger DEF ListFindings, CurrentLedger
        <5> QED BY <1>1, <1>3, <2>8, <4>1, <5>4
                DEF ListFindings, Fits, CurrentApprovals, CurrentConfig
      <4>2. \A f \in Env \ {e} : led'[f] = led[f]
        BY <1>1, <3>2 DEF TypeOK
      <4> QED BY <1>1, <1>7, <2>8, <4>1, <4>2 DEF ListFindings
    <3> QED BY <1>1, <2>8, <3>1, <3>2 DEF ListFindings
  <2>9. CASE WriteReports
    <3>1. rep'[e] = disc[e] /\ \A f \in Env \ {e} : rep'[f] = rep[f]
      BY <1>1, <2>9 DEF WriteReports, TypeOK
    <3>2. ASSUME e \notin loose PROVE Fits(e)'
      BY <1>1, <1>3, <2>9, <3>1, <3>2
         DEF WriteReports, Fits, CurrentApprovals, CurrentLedger, CurrentConfig
    <3> QED BY <1>1, <1>7, <2>9, <3>1, <3>2 DEF WriteReports
  <2>10. CASE Analysed
    <3> DEFINE l == Marked(LedgerOf(e), "analyse", "done")
    <3>1. led' = [led EXCEPT ![e] = l]
      BY <1>1, <2>10 DEF Analysed
    <3>2. led'[e] = l /\ \A f \in Env \ {e} : led'[f] = led[f]
      BY <1>1, <3>1 DEF TypeOK
    <3>3. disc[e] # None /\ rep[e] = disc[e]
      BY <1>1, <2>10 DEF Analysed, Analysing
    <3> HIDE DEF l
    <3>4. UNCHANGED <<man, disc, conf, rep, target, held, loose, restored>>
      BY <2>10 DEF Analysed
    <3>5. ASSUME e \notin loose PROVE Fits(e)'
      <4>1. LedgerOf(e) \in Ledger /\ CurrentLedger(e)
        BY <1>1, <1>3, <3>5, LoadedIsTyped
      <4>2. l.items = LedgerOf(e).items
            /\ \A q \in Phase : l.status[q] = IF q = "analyse" THEN "done" ELSE LedgerOf(e).status[q]
        BY <4>1, MarkedLedger DEF l, Phase
      <4>3. CurrentLedger(e)'
        BY <1>1, <3>2, <3>3, <3>4, <4>1, <4>2, LoadedLedger DEF CurrentLedger, Phase
      <4> QED BY <1>1, <1>3, <3>4, <3>5, <4>3 DEF Fits, CurrentApprovals, CurrentConfig
    <3> QED BY <1>1, <1>7, <3>2, <3>4, <3>5
  <2> QED BY <1>9, <2>1, <2>2, <2>3, <2>4, <2>5, <2>6, <2>7, <2>8, <2>9, <2>10 DEF CommitStep
<1>10. CASE SubtaskStep
  <2>1. CASE ChildManifest
    <3> DEFINE m == [Default EXCEPT !.scope = TRUE, !.parent = job.parent,
                                    !.keys = ManifestOf(job.parent).keys]
    <3>1. m.signed = Unsigned
      BY DEF Default
    <3>2. man' = [man EXCEPT ![e] = m] /\ UNCHANGED <<led, disc, conf, rep, target, held, loose, restored>>
      BY <1>1, <2>1 DEF ChildManifest
    <3> HIDE DEF m
    <3> QED BY <1>5, <3>1, <3>2
  <2>2. CASE Bypass
    BY <1>1, <1>6, <2>2 DEF Bypass
  <2>3. CASE ParentManifest
    BY <1>5, <2>3 DEF ParentManifest, Arguments
  <2> QED BY <1>10, <2>1, <2>2, <2>3 DEF SubtaskStep
<1>11. CASE DeleteStep
  <2> USE DEF StillDeleting
  <2>1. ASSUME NEW d \in Env, UnlinkDiscovery(d) PROVE Current'
    <3>1. /\ UNCHANGED <<man, led, conf, rep, target, held, restored>>
          /\ loose' = loose \cup {d} /\ \A f \in Env \ {d} : disc'[f] = disc[f]
      BY <2>1 DEF UnlinkDiscovery, TypeOK
    <3> QED BY <1>7, <3>1
  <2>2. ASSUME NEW d \in Env, UnlinkConfigOf(d) \/ UnlinkReportsOf(d) PROVE Current'
    <3>1. /\ UNCHANGED <<man, led, disc, target, held, loose, restored>>
          /\ \A f \in Env \ {d} : conf'[f] = conf[f] /\ rep'[f] = rep[f]
          /\ conf'[d] \in {conf[d], None}
      BY <2>2 DEF UnlinkConfigOf, UnlinkReportsOf, TypeOK
    <3>2. TakesAny(e, d) /\ pc \in {"delete config", "delete reports"}
      BY <1>1, <2>2 DEF UnlinkConfigOf, UnlinkReportsOf, TakesAny, Root
    <3>3. ASSUME d \notin loose PROVE Fits(d)'
      <4>1. disc[d] = None
        BY <1>1, <3>2, <3>3 DEF Deleting
      <4> QED BY <1>3, <3>1, <3>3, <4>1
              DEF Fits, CurrentApprovals, CurrentLedger, CurrentConfig
    <3> QED BY <1>7, <3>1, <3>3
  <2>3. CASE UnlinkSnapshot \/ UnlinkCopy
    BY <1>4, <2>3 DEF UnlinkSnapshot, UnlinkCopy
  <2>4. CASE UnlinkManifest
    <3>1. /\ UNCHANGED <<led, disc, conf, rep, target, held, loose>>
          /\ man'[e] = None /\ \A f \in Env \ {e} : man'[f] = man[f]
          /\ restored' = restored \ {e}
      BY <1>1, <2>4 DEF UnlinkManifest, TypeOK
    <3>2. ASSUME e \notin loose PROVE Fits(e)'
      BY <1>3, <3>1, <3>2 DEF Fits, CurrentApprovals, CurrentLedger, CurrentConfig
    <3> QED BY <1>7, <3>1, <3>2
  <2>5. CASE UnlinkLedger
    <3>1. /\ UNCHANGED <<man, disc, conf, rep, target, held, loose, restored>>
          /\ led'[e] = None /\ \A f \in Env \ {e} : led'[f] = led[f]
      BY <1>1, <2>5 DEF UnlinkLedger, TypeOK
    <3>2. ASSUME e \notin loose PROVE Fits(e)'
      BY <1>3, <3>1, <3>2 DEF Fits, CurrentApprovals, CurrentLedger, CurrentConfig
    <3> QED BY <1>7, <3>1, <3>2
  <2>6. CASE DiscoveryDeleted \/ StateDeleted \/ ConfigDeleted \/ ReportsDeleted
    <3>1. /\ UNCHANGED <<man, led, disc, conf, rep, target, restored>>
          /\ held \subseteq held' /\ loose \subseteq loose'
      BY <2>6 DEF DiscoveryDeleted, StateDeleted, ConfigDeleted, ReportsDeleted, LeftIf
    <3>2. ASSUME NEW f \in Env \ loose' PROVE Fits(f)'
      BY <1>3, <3>1, SameFits
    <3> QED BY <3>2 DEF Current
  <2>7. CASE Unlist
    <3>1. /\ UNCHANGED <<man, led, disc, conf, rep, target, held, restored>>
          /\ loose' = IF e \in held THEN loose ELSE loose \ {e}
      BY <1>1, <2>7 DEF Unlist
    <3>2. e \notin held => man[e] = None /\ led[e] = None /\ conf[e] = None
      BY <1>1, <2>7 DEF Unlist, Deleting
    <3>3. ASSUME e \notin held PROVE Fits(e)'
      BY <3>1, <3>2, <3>3 DEF Fits, CurrentApprovals, CurrentLedger, CurrentConfig
    <3>4. ASSUME e \notin loose PROVE Fits(e)'
      BY <1>3, <3>1, <3>4, SameFits
    <3> QED BY <1>1, <1>7, <3>1, <3>3, <3>4
  <2> QED BY <1>11, <2>1, <2>2, <2>3, <2>4, <2>5, <2>6, <2>7 DEF DeleteStep
<1>12. CASE Raise
  BY <1>4, <1>12 DEF Raise
<1>13. CASE Restart
  <2>1. ASSUME NEW d \in Env, man'[d] # None
        PROVE  man[d] # None /\ man'[d].signed = man[d].signed
    <3>1. man[d] \in Manifest /\ man[d] # None /\ man'[d] = [man[d] EXCEPT !.hash = None]
      BY <1>13, <2>1 DEF Restart, TypeOK
    <3> QED BY <3>1, EditsOfApprovals
  <2>2. UNCHANGED <<led, disc, conf, rep, target, held, loose, restored>>
    BY <1>13 DEF Restart
  <2> QED BY <1>3, <2>1, <2>2
          DEF Current, Fits, CurrentApprovals, CurrentLedger, CurrentConfig
<1>14. ASSUME NEW d \in Env, Page(d) PROVE Current'
  <2>1. ASSUME NEW c \in {"default", "edited"}, NEW b \in BOOLEAN, SaveScope(d, c, b)
        PROVE  Current'
    <3> DEFINE n == Decided(ManifestOf(d), c, b)
    <3>1. n.signed = ManifestOf(d).signed
      BY <1>2, EditsOfApprovals
    <3>2. man' = [man EXCEPT ![d] = n] /\ UNCHANGED <<led, disc, conf, rep, target, held, loose, restored>>
      BY <2>1 DEF SaveScope
    <3> HIDE DEF n
    <3> QED BY <1>5, <3>1, <3>2
  <2>2. ASSUME NEW g \in Gate, Sign(d, g) PROVE Current'
    <3> DEFINE b == IF disc[d] = None THEN Unseen ELSE disc[d]
               n == [ManifestOf(d) EXCEPT !.signed[g] = b]
    <3>1. /\ man' = [man EXCEPT ![d] = n] /\ man[d] # None /\ ManifestOf(d) = man[d]
          /\ UNCHANGED <<led, disc, conf, rep, target, held, restored>>
          /\ loose' = IF disc[d] = None THEN loose \cup {d} ELSE loose
      BY <2>2 DEF Sign, ManifestOf
    <3>2. man'[d] = n /\ \A f \in Env \ {d} : man'[f] = man[f]
      BY <3>1 DEF TypeOK
    <3>3. n.signed[g] = b /\ \A h \in Gate \ {g} : n.signed[h] = man[d].signed[h]
      <4>1. man[d] \in Manifest
        BY <1>2, <3>1
      <4>2. n = [man[d] EXCEPT !.signed[g] = b]
        BY <3>1
      <4> QED BY <4>1, <4>2 DEF Manifest, Approvals
    <3> HIDE DEF n
    <3>4. ASSUME d \notin loose' PROVE Fits(d)'
      <4>1. CurrentApprovals(d)'
        BY <1>3, <3>1, <3>2, <3>3, <3>4 DEF Fits, CurrentApprovals
      <4> QED BY <1>3, <3>1, <3>4, <4>1 DEF Fits, CurrentLedger, CurrentConfig
    <3> QED BY <1>7, <3>1, <3>2, <3>4
  <2>3. ASSUME NEW g \in Gate, Withdraw(d, g) PROVE Current'
    <3> DEFINE n == [man[d] EXCEPT !.signed[g] = None]
    <3>1. /\ man' = [man EXCEPT ![d] = n] /\ man[d] # None /\ ManifestOf(d) = man[d]
          /\ UNCHANGED <<led, disc, conf, rep, target, held, loose, restored>>
      BY <2>3 DEF Withdraw, ManifestOf
    <3>2. man'[d] = n /\ \A f \in Env \ {d} : man'[f] = man[f]
      BY <3>1 DEF TypeOK
    <3>3. n.signed[g] = None /\ \A h \in Gate \ {g} : n.signed[h] = man[d].signed[h]
      <4>1. man[d] \in Manifest
        BY <1>2, <3>1
      <4>2. n = [man[d] EXCEPT !.signed[g] = None]
        BY <3>1
      <4> QED BY <4>1, <4>2 DEF Manifest, Approvals
    <3> HIDE DEF n
    <3>4. ASSUME d \notin loose PROVE Fits(d)'
      <4>1. CurrentApprovals(d)'
        BY <1>3, <3>1, <3>2, <3>3, <3>4 DEF Fits, CurrentApprovals
      <4> QED BY <1>3, <3>1, <3>4, <4>1 DEF Fits, CurrentLedger, CurrentConfig
    <3> QED BY <1>7, <3>1, <3>2, <3>4
  <2>4. CASE Analyse(d)
    <3> DEFINE k == Marked(LedgerOf(d), "analyse", "done")
               l == [k EXCEPT !.items = @ \cup {disc[d]}]
    <3>1. /\ led' = [led EXCEPT ![d] = l] /\ rep' = [rep EXCEPT ![d] = disc[d]] /\ disc[d] # None
          /\ UNCHANGED <<man, disc, conf, target, held, loose, restored>>
      BY <2>4 DEF Analyse
    <3>2. k \in Ledger
      BY LoadedIsTyped, MarksAreTyped DEF Phase
    <3>3. l.items = k.items \cup {disc[d]} /\ l.status = k.status
      BY <3>2 DEF Ledger
    <3>4. k.items = LedgerOf(d).items
          /\ \A q \in Phase : k.status[q] = IF q = "analyse" THEN "done" ELSE LedgerOf(d).status[q]
      BY LoadedIsTyped, MarkedLedger DEF Phase
    <3> HIDE DEF k, l
    <3>5. /\ led'[d] = l /\ rep'[d] = disc[d]
          /\ \A f \in Env \ {d} : led'[f] = led[f] /\ rep'[f] = rep[f]
      BY <3>1 DEF TypeOK
    <3>6. ASSUME d \notin loose PROVE Fits(d)'
      <4>1. CurrentLedger(d)'
        BY <1>3, <3>1, <3>3, <3>4, <3>5, <3>6, LoadedLedger DEF CurrentLedger, Phase
      <4> QED BY <1>3, <3>1, <3>6, <4>1 DEF Fits, CurrentApprovals, CurrentConfig
    <3> QED BY <1>7, <3>1, <3>5, <3>6
  <2>5. CASE Transform(d)
    <3> DEFINE l == Marked(LedgerOf(d), "transform", "done")
    <3>1. /\ led' = [led EXCEPT ![d] = l] /\ conf' = [conf EXCEPT ![d] = disc[d]] /\ disc[d] # None
          /\ UNCHANGED <<man, disc, rep, target, held, loose, restored>>
      BY <2>5 DEF Transform
    <3>2. l.items = LedgerOf(d).items
          /\ \A q \in Phase : l.status[q] = IF q = "transform" THEN "done" ELSE LedgerOf(d).status[q]
      BY LoadedIsTyped, MarkedLedger DEF Phase
    <3> HIDE DEF l
    <3>3. /\ led'[d] = l /\ conf'[d] = disc[d]
          /\ \A f \in Env \ {d} : led'[f] = led[f] /\ conf'[f] = conf[f]
      BY <3>1 DEF TypeOK
    <3>4. ASSUME d \notin loose PROVE Fits(d)'
      <4>1. CurrentLedger(d)'
        BY <1>3, <3>1, <3>2, <3>3, <3>4, LoadedLedger DEF CurrentLedger, Phase
      <4> QED BY <1>3, <3>1, <3>3, <3>4, <4>1 DEF Fits, CurrentApprovals, CurrentConfig
    <3> QED BY <1>7, <3>1, <3>3, <3>4
  <2>6. CASE Deploy(d)
    <3> DEFINE l == Marked(LedgerOf(d), "deploy", "done")
    <3>1. /\ led' = [led EXCEPT ![d] = l] /\ target' = [target EXCEPT ![d] = conf[d]]
          /\ conf[d] # None
          /\ UNCHANGED <<man, disc, conf, rep, held, loose, restored>>
      BY <2>6 DEF Deploy
    <3>2. l.items = LedgerOf(d).items
          /\ \A q \in Phase : l.status[q] = IF q = "deploy" THEN "done" ELSE LedgerOf(d).status[q]
      BY LoadedIsTyped, MarkedLedger DEF Phase
    <3> HIDE DEF l
    <3>3. /\ led'[d] = l /\ target'[d] = conf[d]
          /\ \A f \in Env \ {d} : led'[f] = led[f] /\ target'[f] = target[f]
      BY <3>1 DEF TypeOK
    <3>4. ASSUME d \notin loose PROVE Fits(d)'
      <4>1. disc[d] # None /\ (d \notin held => conf[d] = disc[d])
        BY <1>3, <3>1, <3>4 DEF Fits, CurrentConfig
      <4>2. CurrentLedger(d)'
        BY <1>3, <3>1, <3>2, <3>3, <3>4, <4>1, LoadedLedger DEF CurrentLedger, Phase
      <4> QED BY <1>3, <3>1, <3>3, <3>4, <4>2 DEF Fits, CurrentApprovals, CurrentConfig
    <3> QED BY <1>7, <3>1, <3>3, <3>4
  <2>7. CASE CreateSnapshot(d)
    BY <1>5, <2>7 DEF CreateSnapshot
  <2>8. ASSUME NEW k \in saved[d], RestoreSnapshot(d, k) PROVE Current'
    <3>1. /\ man' = [man EXCEPT ![d] = k.copy]
          /\ restored' = IF k.disc \in {None, disc[d]} THEN restored \ {d} ELSE restored \cup {d}
          /\ UNCHANGED <<led, disc, conf, rep, target, held, loose>>
      BY <2>8 DEF RestoreSnapshot
    <3>2. man'[d] = k.copy /\ \A f \in Env \ {d} : man'[f] = man[f]
      BY <3>1 DEF TypeOK
    <3>3. d \notin restored' => \A g \in Gate : k.copy.signed[g] \in {None, disc[d]}
      <4>1. Unseen \notin {None, disc[d]}
        BY NoneIsNothing DEF TypeOK
      <4> QED BY <3>1, <4>1 DEF SavedFits
    <3>4. ASSUME d \notin loose PROVE Fits(d)'
      <4>1. CurrentApprovals(d)'
        BY <3>1, <3>2, <3>3 DEF CurrentApprovals
      <4> QED BY <1>3, <3>1, <3>4, <4>1 DEF Fits, CurrentLedger, CurrentConfig
    <3> QED BY <1>7, <3>1, <3>2, <3>4
  <2> QED BY <1>14, <2>1, <2>2, <2>3, <2>4, <2>5, <2>6, <2>7, <2>8 DEF Page
<1>15. ASSUME NEW d \in Env, Console(d) PROVE Current'
  <2> USE DEF Begin
  <2>1. ASSUME NEW c \in Content, StageSnapshot(d, c) PROVE Current'
    BY <1>4, <2>1 DEF StageSnapshot
  <2>2. ASSUME NEW c \in {"default", "edited"}, CommitScope(d, c) PROVE Current'
    <3> DEFINE n == Decided(ManifestOf(d), c, TRUE)
    <3>1. n.signed = ManifestOf(d).signed
      BY <1>2, EditsOfApprovals
    <3>2. man' = [man EXCEPT ![d] = n] /\ UNCHANGED <<led, disc, conf, rep, target, held, loose, restored>>
      BY <2>2 DEF CommitScope
    <3> HIDE DEF n
    <3> QED BY <1>5, <3>1, <3>2
  <2>3. ASSUME NEW p \in Env, CopySnapshot(p, d) PROVE Current'
    <3>1. /\ man[d] = None /\ led[d] = None /\ disc[d] = None /\ conf[d] = None
          /\ UNCHANGED <<man, led, disc, conf, rep, target, restored>>
          /\ loose' = loose \ {d} /\ held' = held \ {d}
      BY <2>3 DEF CopySnapshot, Fresh
    <3>2. Fits(d)'
      BY <3>1 DEF Fits, CurrentApprovals, CurrentLedger, CurrentConfig
    <3> QED BY <1>7, <3>1, <3>2
  <2>4. CASE DeleteEnvironment(d)
    BY <1>4, <2>4 DEF DeleteEnvironment
  <2> QED BY <1>15, <2>1, <2>2, <2>3, <2>4 DEF Console
<1>16. ASSUME NEW d \in Env, ReadonlyAction(d) PROVE Current'
  <2>1. ASSUME NEW c \in Content, ShellDiscovers(d, c) PROVE Current'
    <3>1. /\ d \in loose' /\ loose \subseteq loose'
          /\ \A f \in Env \ {d} : disc'[f] = disc[f] /\ led'[f] = led[f]
          /\ UNCHANGED <<man, conf, rep, target, held, restored>>
      BY <2>1 DEF ShellDiscovers, TypeOK
    <3> QED BY <1>7, <3>1
  <2>2. CASE Analyse(d)
    BY <1>14, <2>2 DEF Page
  <2> QED BY <1>16, <2>1, <2>2 DEF ReadonlyAction
<1> QED BY <1>8, <1>9, <1>10, <1>11, <1>12, <1>13, <1>14, <1>15, <1>16, WorkedAreEnvs DEF Next

\* Copies are taken of what fits, and a death takes only the hash from them.
LEMMA SavedStep ==
    ASSUME TypeOK, Current, KeysHaveTheHash, SavedFits, Next PROVE SavedFits'
<1> USE DEF Goes, Step, Quiet, control, state, outputs, history
<1>1. ASSUME UNCHANGED saved PROVE SavedFits'
  BY <1>1 DEF SavedFits
<1>2. CASE StageStep
  BY <1>1, <1>2 DEF StageStep, StageManifest, StageLedger
<1>3. CASE CommitStep
  BY <1>1, <1>3 DEF CommitStep, ResetLedger, ResetManifest, UnlinkConfig, UnlinkReports,
        WriteDiscovery, Discovered, ListFindings, WriteReports, Analysed, AnalysisRaises
<1>4. CASE SubtaskStep
  BY <1>1, <1>4 DEF SubtaskStep, ChildManifest, Bypass, ParentManifest
<1>5. CASE DeleteStep
  <2>1. CASE UnlinkCopy
    <3>1. \A d \in Env : saved'[d] \subseteq saved[d]
      BY <2>1 DEF UnlinkCopy, TypeOK
    <3> QED BY <3>1 DEF SavedFits
  <2>2. CASE ~UnlinkCopy
    BY <1>1, <1>5, <2>2 DEF DeleteStep, UnlinkDiscovery, UnlinkConfigOf, UnlinkReportsOf,
          UnlinkSnapshot, UnlinkManifest, UnlinkLedger, DiscoveryDeleted, StateDeleted,
          ConfigDeleted, ReportsDeleted, Unlist
  <2> QED BY <2>1, <2>2
<1>6. CASE Raise
  BY <1>1, <1>6 DEF Raise
<1>7. CASE Restart
  <2>1. ASSUME NEW d \in Env, NEW n \in saved'[d]
        PROVE  /\ n.disc # Unseen => \A g \in Gate : n.copy.signed[g] \in {None, n.disc}
               /\ n.copy.keys # None =>
                     /\ n.copy.hash # None => n.copy.keys.of = n.copy.hash
                     /\ n.raw # Unseen => n.copy.keys.of = n.raw
    <3>1. PICK k \in saved[d] : n = [k EXCEPT !.copy = [@ EXCEPT !.hash = None]]
      BY <1>7, <2>1 DEF Restart
    <3>2. k \in Copy /\ k.copy \in Manifest
      BY DEF TypeOK, Copy
    <3>3. /\ n.disc = k.disc /\ n.raw = k.raw
          /\ n.copy = [k.copy EXCEPT !.hash = None]
      BY <3>1, <3>2 DEF Copy
    <3>4. n.copy.hash = None /\ n.copy.keys = k.copy.keys /\ n.copy.signed = k.copy.signed
      BY <3>2, <3>3, EditsOfKeys, EditsOfApprovals
    <3> QED BY <3>3, <3>4 DEF SavedFits
  <2> QED BY <2>1 DEF SavedFits
<1>8. ASSUME NEW d \in Env, Page(d) PROVE SavedFits'
  <2>1. CASE CreateSnapshot(d)
    <3> DEFINE k == [copy |-> ManifestOf(d),
                     disc |-> IF d \in loose \cup restored THEN Unseen ELSE disc[d],
                     raw  |-> IF d \in torn THEN Unseen ELSE snap[d]]
    <3>1. \A f \in Env : saved'[f] \subseteq saved[f] \cup IF f = d THEN {k} ELSE {}
      BY <2>1 DEF CreateSnapshot, TypeOK
    <3>2. k.disc # Unseen => \A g \in Gate : k.copy.signed[g] \in {None, k.disc}
      BY DEF Current, Fits, CurrentApprovals, ManifestOf, Default, Unsigned
    <3>3. k.copy.keys # None => /\ k.copy.hash # None => k.copy.keys.of = k.copy.hash
                                /\ k.raw # Unseen => k.copy.keys.of = k.raw
      BY DEF KeysHaveTheHash, ManifestOf, Default
    <3> HIDE DEF k
    <3> QED BY <3>1, <3>2, <3>3 DEF SavedFits
  <2>2. CASE ~CreateSnapshot(d)
    BY <1>1, <1>8, <2>2 DEF Page, SaveScope, Sign, Withdraw, RestoreSnapshot, Analyse, Transform,
          Deploy
  <2> QED BY <2>1, <2>2
<1>9. ASSUME NEW d \in Env, Console(d) PROVE SavedFits'
  BY <1>1, <1>9 DEF Console, Begin, StageSnapshot, CommitScope, CopySnapshot, DeleteEnvironment
<1>10. ASSUME NEW d \in Env, ReadonlyAction(d) PROVE SavedFits'
  BY <1>1, <1>10 DEF ReadonlyAction, ShellDiscovers, Analyse
<1> QED BY <1>2, <1>3, <1>4, <1>5, <1>6, <1>7, <1>8, <1>9, <1>10, WorkedAreEnvs DEF Next

\* Nothing is on file yet, or what a first commit has left.
LEMMA ScopeInit ==
    ASSUME Init PROVE ScopeInv
<1>0. PICK used \in SUBSET Env : \E c \in Content :
        /\ snap = [e \in Env |-> IF e \in used THEN c ELSE None]
        /\ man = [e \in Env |-> IF e \in used THEN InitialManifest(c) ELSE None]
        /\ led = [e \in Env |-> IF e \in used THEN NewLedger ELSE None]
        /\ disc = [e \in Env |->
              IF e \in used THEN [snap |-> c, keys |-> InitialManifest(c).keys]
              ELSE None]
        /\ spent \in {0, 1}
  BY WorkedAreEnvs DEF Init
<1>1. PICK c \in Content :
        /\ snap = [e \in Env |-> IF e \in used THEN c ELSE None]
        /\ man = [e \in Env |-> IF e \in used THEN InitialManifest(c) ELSE None]
        /\ led = [e \in Env |-> IF e \in used THEN NewLedger ELSE None]
        /\ disc = [e \in Env |->
              IF e \in used THEN [snap |-> c, keys |-> InitialManifest(c).keys]
              ELSE None]
        /\ spent \in {0, 1}
  BY <1>0
<1> USE DEF Init
<1>2. \A b \in Content :
        /\ InitialManifest(b) \in Manifest /\ InitialManifest(b).signed = Unsigned
        /\ InitialManifest(b).keys = [of |-> b, choice |-> "default"]
        /\ InitialManifest(b).hash = b
        /\ [snap |-> b, keys |-> InitialManifest(b).keys] \in Build
  <2>1. ASSUME NEW b \in Content
        PROVE  /\ InitialManifest(b).signed = Unsigned
               /\ InitialManifest(b).keys = [of |-> b, choice |-> "default"]
               /\ InitialManifest(b).hash = b
               /\ InitialManifest(b) \in Manifest
    BY DEF InitialManifest, Default, Manifest, Approvals, Unsigned, Keys
  <2>2. \A b \in Content : [snap |-> b, keys |-> [of |-> b, choice |-> "default"]] \in Build
    BY DEF Build, Keys
  <2> QED BY <2>1, <2>2
<1>3. /\ NewLedger \in Ledger /\ NewLedger.items = {}
      /\ \A ph \in Phase : NewLedger.status[ph] = "pending"
  BY DEF NewLedger, Ledger
<1>4. TypeOK
  <2>1. snap \in [Env -> Content \cup {None}]
    BY <1>1
  <2>2. man \in [Env -> Manifest \cup {None}]
    BY <1>1, <1>2
  <2>3. led \in [Env -> Ledger \cup {None}]
    BY <1>1, <1>3
  <2>4. disc \in [Env -> Build \cup {None}]
    BY <1>1, <1>2
  <2>5. job \in Job
    BY WorkedAreEnvs DEF Job, Idle
  <2>6. spent \in 0 .. Budget
    BY <1>1, BudgetIsFinite
  <2>7. saved \in [Env -> SUBSET Copy]
    OBVIOUS
  <2> QED BY <2>1, <2>2, <2>3, <2>4, <2>5, <2>6, <2>7 DEF TypeOK
<1>5. Arguments /\ Resetting /\ Analysing /\ Deleting /\ ChildHasTheSnapshot /\ SavedFits
  BY DEF Arguments, Resetting, Analysing, Deleting, ChildHasTheSnapshot, SavedFits, Idle
<1>6. Current
  <2>1. ASSUME NEW e \in Env PROVE Fits(e)
    <3>1. CurrentApprovals(e)
      <4>1. ASSUME man[e] # None PROVE man[e].signed = Unsigned
        <5>1. e \in used /\ man[e] = InitialManifest(c) /\ c \in Content
          BY <1>1, <2>1, <4>1
        <5> QED BY <1>2, <5>1
      <4> QED BY <4>1 DEF CurrentApprovals, Unsigned
    <3>2. CurrentLedger(e)
      BY <1>1, <1>3, <2>1 DEF CurrentLedger, Phase
    <3> QED BY <2>1, <3>1, <3>2 DEF Fits, CurrentConfig
  <2> QED BY <2>1 DEF Current
<1>7. KeysHaveTheHash
  <2>1. ASSUME NEW e \in Env, man[e] # None
        PROVE  man[e].hash = man[e].keys.of /\ man[e].keys.of = snap[e]
    <3>1. e \in used /\ man[e] = InitialManifest(c) /\ snap[e] = c
      BY <1>1, <2>1
    <3>2. c \in Content
      BY <3>1
    <3> HIDE DEF Init
    <3>3. /\ InitialManifest(c).keys = [of |-> c, choice |-> "default"]
          /\ InitialManifest(c).hash = c
      BY <1>2, <3>2
    <3> QED BY <3>1, <3>3
  <2> HIDE DEF Init
  <2> QED BY <2>1 DEF KeysHaveTheHash
<1> QED BY <1>4, <1>5, <1>6, <1>7 DEF ScopeInv

\* The invariant is kept, and so it holds throughout.
LEMMA ScopeInvHolds == Spec => []ScopeInv
<1>1. ScopeInv /\ [Next]_vars => ScopeInv'
  <2> SUFFICES ASSUME ScopeInv, [Next]_vars PROVE ScopeInv'
    OBVIOUS
  <2>1. CASE Next
    <3> USE <2>1 DEF ScopeInv
    <3>1. TypeOK' /\ Arguments'
      BY TypeStep, ArgumentsStep
    <3>2. Current'
      BY CurrentStep
    <3>3. Resetting' /\ Analysing' /\ Deleting'
      BY CommitProgress, DeleteProgress
    <3>4. KeysHaveTheHash' /\ ChildHasTheSnapshot'
      BY KeysStep
    <3>5. SavedFits'
      BY SavedStep
    <3> QED BY <3>1, <3>2, <3>3, <3>4, <3>5
  <2>2. CASE UNCHANGED vars
    <3> USE <2>2 DEF ScopeInv, vars
    <3>1. TypeOK' /\ Arguments'
      BY DEF TypeOK, Arguments
    <3>2. Current'
      BY DEF Current, Fits, CurrentApprovals, CurrentLedger, CurrentConfig
    <3>3. Resetting' /\ Analysing' /\ Deleting'
      BY DEF Resetting, Analysing, Deleting
    <3>4. KeysHaveTheHash' /\ ChildHasTheSnapshot'
      BY DEF KeysHaveTheHash, ChildHasTheSnapshot
    <3>5. SavedFits'
      BY DEF SavedFits
    <3> QED BY <3>1, <3>2, <3>3, <3>4, <3>5
  <2> QED BY <2>1, <2>2
<1>2. Init => ScopeInv
  BY ScopeInit
<1> QED BY <1>1, <1>2, PTL DEF Spec
-----------------------------------------------------------------------------
\* TypeOK: the files and the operation in progress have their types.
THEOREM TypeCorrect == Spec => []TypeOK
<1>1. ScopeInv => TypeOK
  BY DEF ScopeInv
<1> QED BY <1>1, ScopeInvHolds, PTL

\* SignaturesFollowDiscovery: commit_import_scope (pipeline_service.py) revokes
\* the approvals before it replaces the discovery they were given for; older ones
\* come back only with a copy of the manifest (restore_snapshot), and copies of
\* this discovery's approvals may come back at any time.
THEOREM ApprovalsAreForTheDiscovery == Spec => []SignaturesFollowDiscovery
<1>1. ScopeInv => SignaturesFollowDiscovery
  BY DEF ScopeInv, Current, Fits, CurrentApprovals, SignaturesFollowDiscovery
<1> QED BY <1>1, ScopeInvHolds, PTL

\* ShownIsCurrent: what the overview shows as completed (get_pipeline_status)
\* was made from the discovery on file, wherever an operation was cut short.
THEOREM CompletedIsCurrent == Spec => []ShownIsCurrent
<1>1. ScopeInv => ShownIsCurrent
  <2> SUFFICES ASSUME ScopeInv PROVE ShownIsCurrent
    OBVIOUS
  <2>1. ASSUME NEW e \in Env \ loose
        PROVE  /\ Shown(e, "analyse") => rep[e] = disc[e]
               /\ Shown(e, "transform") => conf[e] = disc[e]
               /\ Shown(e, "deploy") /\ e \notin held => target[e] = disc[e]
    BY DEF Shown, ScopeInv, Current, Fits, CurrentLedger
  <2> QED BY <2>1 DEF ShownIsCurrent
<1> QED BY <1>1, ScopeInvHolds, PTL

\* TriageListIsCurrent: no unsupported item of an earlier discovery is left in
\* the ledger (state_ledger.py add_unsupported).
THEOREM TriageIsOfTheDiscovery == Spec => []TriageListIsCurrent
<1>1. ScopeInv => TriageListIsCurrent
  BY DEF ScopeInv, Current, Fits, CurrentLedger, TriageListIsCurrent
<1> QED BY <1>1, ScopeInvHolds, PTL

\* KeysAreAboutTheSnapshot: import_avi_config keeps key decisions only where the
\* hash says that the payload is the same, and a copy that is brought back
\* keeps its hash with its decisions.
THEOREM KeysFollowTheSnapshot == Spec => []KeysAreAboutTheSnapshot
<1>1. ScopeInv => KeysAreAboutTheSnapshot
  BY DEF ScopeInv, KeysHaveTheHash, KeysAreAboutTheSnapshot
<1> QED BY <1>1, ScopeInvHolds, PTL

\* DeployedAsSigned: the deploy phase (ensure_phase_gate, cmd_deploy) pushes the
\* configuration its approval was given for.
THEOREM DeploysAreAsSigned == Spec => DeployedAsSigned
<1>1. ScopeInv /\ [Next]_vars =>
        \A e \in Env \ (loose \cup held \cup restored) : Deploy(e) => conf[e] = man[e].signed["deploy"]
  <2> SUFFICES ASSUME ScopeInv, NEW e \in Env \ (loose \cup held \cup restored), Deploy(e)
               PROVE  conf[e] = man[e].signed["deploy"]
    OBVIOUS
  <2>1. conf[e] # None /\ ManifestOf(e).signed["deploy"] # None
    BY DEF Deploy, Open
  <2>2. man[e] # None /\ man[e].signed["deploy"] # None
    BY <2>1, GatesOfThePhases DEF ManifestOf, Default, Unsigned
  <2> QED BY <2>1, <2>2, GatesOfThePhases
          DEF ScopeInv, Current, Fits, CurrentApprovals, CurrentConfig
<1> QED BY <1>1, ScopeInvHolds, PTL DEF Spec, DeployedAsSigned

\* DeletedIsGone: an environment deleted without an error is known no more and
\* has left nothing that a new one of its name would find, but perhaps its
\* discovery (load_known_envs, delete_environment).
THEOREM DeletionsLeaveNothing == Spec => DeletedIsGone
<1>1. ScopeInv /\ [Next]_vars =>
        \A e \in Env \ held : Unlist /\ job.env = e =>
          /\ ~Known(e)'
          /\ man'[e] = None /\ led'[e] = None /\ saved'[e] = {}
          /\ conf'[e] = None /\ rep'[e] = None
          /\ ReadAs("discovery", e) = e => disc'[e] = None
  <2> SUFFICES ASSUME ScopeInv, NEW e \in Env \ held, Unlist, job.env = e
               PROVE  /\ ~Known(e)'
                      /\ man'[e] = None /\ led'[e] = None /\ saved'[e] = {}
                      /\ conf'[e] = None /\ rep'[e] = None
                      /\ ReadAs("discovery", e) = e => disc'[e] = None
    OBVIOUS
  <2>1. /\ snap[e] = None /\ man[e] = None /\ led[e] = None /\ saved[e] = {}
        /\ conf[e] = None /\ rep[e] = None
        /\ \A d \in Env : ReadAs("discovery", d) = e => disc[d] = None
    BY DEF Unlist, ScopeInv, Deleting, Takes
  <2> QED BY <2>1 DEF Unlist, Known, state, outputs
<1> QED BY <1>1, ScopeInvHolds, PTL DEF Spec, DeletedIsGone
=============================================================================
