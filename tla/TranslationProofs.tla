-------------------------- MODULE TranslationProofs --------------------------
(***************************************************************************)
(* The way from an export to a configuration, for every export, selection, *)
(* mapping and deferral.                                                   *)
(*                                                                         *)
(* TraceIsClosure: the trace of a selection ends with the least closed set *)
(* whatever refers to whatever, in cycles, to itself, across tenants.      *)
(* The queue goes through the objects in some order and each is looked at  *)
(* once, so what is seen is closed only up to the queue; the inductive     *)
(* invariant says which objects may still be open, and that nothing is     *)
(* seen that some closed set can do without.                               *)
(*                                                                         *)
(* The others relate the configuration to the files it was made from.      *)
(* Between the two lie commits, triages and deferrals, so the invariant    *)
(* says which of them a configuration outlives: none but a discovery       *)
(* collected anew, and where every deferral in the manifest came from.     *)
(*                                                                         *)
(* KeptIsShown compares two traces, the page's and the commit's.  The page *)
(* has all that its trace must find and the discovery nothing that the     *)
(* commit's need not; the commit starts from the tenants' own objects too, *)
(* which adds nothing, since they refer to nothing.                        *)
(***************************************************************************)
EXTENDS Translation, FiniteSetTheorems, TLAPS

\* A set of naturals that is not empty has a least one.
LEMMA LeastNatural ==
    ASSUME NEW S \in SUBSET Nat, S # {}
    PROVE  \E n \in S : \A m \in S : n <= m
<1> DEFINE Up == {0 .. n : n \in S}
<1>1. Up \subseteq FiniteSubsetsOf(Nat) /\ Up # {}
  <2>1. \A n \in S : 0 .. n \in FiniteSubsetsOf(Nat)
    <3> TAKE n \in S
    <3>1. n \in Int /\ 0 \in Int /\ 0 .. n \in SUBSET Nat
      OBVIOUS
    <3>2. IsFiniteSet(0 .. n)
      BY <3>1, FS_Interval
    <3> QED BY <3>1, <3>2 DEF FiniteSubsetsOf
  <2> QED BY <2>1
<1>2. PICK x \in Up : \A y \in Up : ~ (<<y, x>> \in StrictSubsetOrdering(Nat))
  <2> HIDE DEF Up
  <2> QED BY <1>1, WFMin, FS_StrictSubsetOrderingWellFounded
<1>3. PICK n \in S : x = 0 .. n
  OBVIOUS
<1>4. ASSUME NEW m \in S, m < n PROVE FALSE
  <2>1. 0 .. m \in Up /\ 0 .. m \subseteq 0 .. n /\ n \in 0 .. n /\ n \notin 0 .. m
    BY <1>4
  <2>2. <<0 .. m, 0 .. n>> \in StrictSubsetOrdering(Nat)
    BY <2>1 DEF StrictSubsetOrdering
  <2> QED BY <1>2, <1>3, <2>1, <2>2
<1> QED BY <1>4

\* What is looked at for a name is an object of that name.
LEMMA FirstIsNamed ==
    ASSUME NEW s \in Export, NEW r \in Ids(s)
    PROVE  First(s, r) \in Named(s, r)
<1>1. Named(s, r) \in SUBSET Nat /\ Named(s, r) # {}
  BY ExportsAreObjects DEF Named, Ids
<1> QED BY <1>1, LeastNatural DEF First

\* The object that stands for a name has that name.
LEMMA StandIsNamed ==
    ASSUME NEW s \in Export, NEW R \in SUBSET DOMAIN s, NEW r \in Ids(s)
    PROVE  Stand(s, R, r) \in Named(s, r)
<1> DEFINE S == {i \in R : Id(s, i) = r}
<1>1. CASE \E i \in R : Id(s, i) = r
  <2>1. S \in SUBSET Nat /\ S # {}
    BY <1>1, ExportsAreObjects
  <2>2. PICK n \in S : \A m \in S : n <= m
    BY <2>1, LeastNatural
  <2> HIDE DEF S
  <2>3. \E i \in R : Id(s, i) = r /\ \A j \in R : Id(s, j) = r => i <= j
    BY <2>2 DEF S
  <2> QED BY <1>1, <2>3 DEF Stand, Named
<1>2. CASE ~ \E i \in R : Id(s, i) = r
  BY <1>2, FirstIsNamed DEF Stand
<1> QED BY <1>1, <1>2

\* What an export is made of.
LEMMA Objects ==
    ASSUME NEW s \in Export
    PROVE  /\ DOMAIN s \subseteq Nat /\ \A i \in DOMAIN s : s[i] \in Object
           /\ Ids(s) \subseteq Key \X Name
<1>1. s \in Seq(Object)
  BY ExportsAreObjects
<1>2. DOMAIN s \subseteq Nat /\ \A i \in DOMAIN s : s[i] \in Object
  BY <1>1
<1>3. \A i \in DOMAIN s : s[i].key \in Key /\ s[i].name \in Name
  BY <1>2 DEF Object
<1> QED BY <1>2, <1>3 DEF Ids, Id

\* The words of the tool are among those a key can be switched to.
LEMMA WordsAreWords ==
    /\ \A k \in DOMAIN FlagWord : FlagWord[k] \in Word
    /\ \A k \in DOMAIN CompatWord : CompatWord[k] \in Word
    /\ \A k \in DOMAIN Family : Family[k] \in Word
    /\ \A k \in DOMAIN CollectWord : CollectWord[k] \in Word
BY DEF Word, Range

\* A selection with its switches applied is one.
LEMMA SwitchedIsTyped == ASSUME NEW g \in Selection PROVE Switched(g) \in Selection
<1>1. CASE Selects(g)
  BY <1>1 DEF Switched, Selection
<1>2. CASE ~Selects(g)
  <2>1. Switched(g) = [g EXCEPT !.enabled = g.enabled]
    BY <1>2 DEF Switched
  <2>2. [g EXCEPT !.enabled = g.enabled] = g
    BY DEF Selection
  <2> QED BY <2>1, <2>2
<1> QED BY <1>1, <1>2

\* What the page offers is a selection.
LEMMA OfferedIsTyped == ASSUME TypeOK, NEW f \in Filter PROVE Offered(f) \in Selection
BY FiltersSelect DEF Offered, Selection, TypeOK, Manifest

\* A trace begins with objects of the export.
LEMMA RootsAreObjects ==
    ASSUME NEW op \in {"page", "commit"}, NEW f
    PROVE  JobRoots(op, f) \subseteq DOMAIN snap
BY DEF JobRoots, PageRoots, CommitRoots, Roots

\* A trace that begins keeps the types.
LEMMA StartIsTyped ==
    ASSUME TypeOK, NEW op \in {"page", "commit"}, NEW f \in Selection,
           NEW subs \in SUBSET Selection, Start(op, f, subs)
    PROVE  TypeOK'
<1> USE DEF TypeOK
<1>1. snap \in Export
  BY DEF Start
<1> DEFINE R == JobRoots(op, f)
<1>2. R \subseteq DOMAIN snap
  BY RootsAreObjects
<1> HIDE DEF R
<1>3. RootIds(snap, R) \subseteq Ids(snap)
  BY <1>2 DEF RootIds, Ids
<1>4. seen' \subseteq Key \X Name
  BY <1>1, <1>3, Objects DEF Start, StartTrace, R
<1>5. queue' \subseteq Nat
  <2>1. \A r \in RootIds(snap, R) : Stand(snap, R, r) \in Nat
    BY <1>1, <1>2, <1>3, StandIsNamed, Objects DEF Named
  <2> QED BY <2>1 DEF Start, StartTrace, R
<1>6. job' \in [op : {"none", "page", "commit"}, filter : Selection, subs : SUBSET Selection]
  BY DEF Start
<1> QED BY <1>4, <1>5, <1>6 DEF Start

\* A step of the trace keeps the types.
LEMMA TraceIsTyped == ASSUME TypeOK, job # Idle => snap \in Export, Trace PROVE TypeOK'
<1> USE DEF TypeOK
<1>1. PICK i \in queue : Visit(snap, i)
  BY DEF Trace
<1>2. snap \in Export
  BY DEF Trace
<1>3. Needs(snap, i) \subseteq Ids(snap)
  BY DEF Needs
<1>4. seen' \subseteq Key \X Name
  BY <1>1, <1>2, <1>3, Objects DEF Visit
<1>5. queue' \subseteq Nat
  <2>1. \A r \in Needs(snap, i) : First(snap, r) \in Nat
    BY <1>2, <1>3, FirstIsNamed, Objects DEF Named
  <2> QED BY <1>1, <2>1 DEF Visit
<1> QED BY <1>4, <1>5 DEF Trace

\* Staging an export keeps the types.
LEMMA StageIsTyped == ASSUME TypeOK, NEW s \in Export, Stage(s) PROVE TypeOK'
<1> USE DEF TypeOK
<1> DEFINE found == {s[i].tenant : i \in {i \in DOMAIN s :
                      s[i].key \notin GlobalKey \ {"GslbService"}}} \ {Admin}
<1>1. found \subseteq Tenant \ {Admin}
  BY Objects DEF Object
<1> HIDE DEF found
<1>2. man' = [man EXCEPT !.avail = found,
                         !.filter.tenants = IF @ = {} THEN found ELSE @,
                         !.keys = IF s = snap THEN @ ELSE PipelineKey]
  BY DEF Stage, found
<1>3. PipelineKey \subseteq Key
  BY DEF PipelineKey
<1>4. man' \in Manifest
  BY <1>1, <1>2, <1>3 DEF Manifest, Selection
<1>5. edits' \in 0..MaxEdits
  BY EditsAreBounded DEF Stage
<1> QED BY <1>4, <1>5 DEF Stage, noTrace

\* One edit on the import page keeps the types.
LEMMA EditIsTyped ==
    ASSUME TypeOK, NEW m \in Manifest, Edit(m)
    PROVE  TypeOK'
<1> USE DEF TypeOK
<1>1. edits' \in 0..MaxEdits
  BY EditsAreBounded DEF Edit
<1> QED BY <1>1 DEF Edit, noTrace

\* All edits on the import page keep the types.
LEMMA EditsAreTyped ==
    ASSUME TypeOK,
           \/ \E f \in Filter, k \in KeyChoice : SavePage(f, k)
           \/ \E f \in Filter : Subtask(f)
           \/ ShellIncludesGslb
           \/ \E m \in Mapping : MapTenant(m[1], m[2])
           \/ \E item \in listed : TriagePage(item)
           \/ \E item \in Deferral : ShellDefers(item)
    PROVE  TypeOK'
<1>1. man \in Manifest /\ listed \subseteq Word \X Name
  BY DEF TypeOK
<1>2. ASSUME NEW f \in Filter, NEW k \in KeyChoice, SavePage(f, k) PROVE TypeOK'
  <2> DEFINE h == Switched(Offered(f))
  <2>1. h \in Selection
    BY OfferedIsTyped, SwitchedIsTyped
  <2> HIDE DEF h
  <2>2. PICK g \in SUBSET (man.keys \cap {"GslbService"}) :
           Edit([man EXCEPT !.filter = h, !.keys = k \cup g])
    BY <1>2 DEF SavePage, h
  <2>3. k \cup g \subseteq Key
    BY ChoicesAreOfThePage DEF PipelineKey, Key
  <2>4. [man EXCEPT !.filter = h, !.keys = k \cup g] \in Manifest
    BY <1>1, <2>1, <2>3 DEF Manifest
  <2> QED BY <1>1, <1>2, <2>2, <2>4, EditIsTyped DEF SavePage
<1>3. ASSUME NEW f \in Filter, Subtask(f) PROVE TypeOK'
  <2> DEFINE m == [man EXCEPT !.filter = Offered(f), !.subs = @ \cup {Offered(f)}]
  <2>1. m \in Manifest
    BY <1>1, OfferedIsTyped DEF Manifest
  <2> QED BY <1>1, <1>3, <2>1, EditIsTyped DEF Subtask
<1>4. CASE ShellIncludesGslb
  <2> DEFINE m == [man EXCEPT !.keys = @ \cup {"GslbService"}]
  <2>1. m \in Manifest
    BY <1>1 DEF Manifest, Key
  <2> QED BY <1>1, <1>4, <2>1, EditIsTyped DEF ShellIncludesGslb
<1>5. ASSUME NEW t \in Tenant, NEW d \in Vdom, MapTenant(t, d) PROVE TypeOK'
  <2> DEFINE m == [man EXCEPT !.vmap[t] = d]
  <2>1. m \in Manifest
    BY <1>1 DEF Manifest
  <2> QED BY <1>1, <1>5, <2>1, EditIsTyped DEF MapTenant
<1>6. ASSUME NEW item \in Word \X Name, TriagePage(item) \/ ShellDefers(item) PROVE TypeOK'
  <2> DEFINE m == [man EXCEPT !.defer = @ \cup {item}]
  <2>1. m \in Manifest
    BY <1>1 DEF Manifest
  <2> QED BY <1>1, <1>6, <2>1, EditIsTyped DEF TriagePage, ShellDefers
<1> QED BY <1>1, <1>2, <1>3, <1>4, <1>5, <1>6, MappingsAreNamed, DeferralsAreTyped

\* The page shown after its trace keeps the types.
LEMMA PageIsTyped == ASSUME TypeOK, job # Idle => snap \in Export, FinishPage PROVE TypeOK'
<1> USE DEF TypeOK
<1>1. snap \in Export
  BY DEF FinishPage, Idle
<1>2. /\ page' = None \/ (page'.snap \in Export /\ page'.shown \subseteq DOMAIN page'.snap)
      /\ job' = Idle /\ seen' = {}
  BY <1>1 DEF FinishPage
<1>3. Idle \in [op : {"none", "page", "commit"}, filter : Selection, subs : SUBSET Selection]
  BY DEF Idle, Everything, Selection
<1> QED BY <1>2, <1>3 DEF FinishPage

\* What the analysis finds has its type.
LEMMA AnalysisIsTyped ==
    ASSUME NEW s \in Export, NEW kept \in SUBSET DOMAIN s
    PROVE  Analysis(s, kept) \subseteq Word \X Name
<1>1. \A i \in Refused(s, kept) : i \in DOMAIN s /\ s[i].key \in DOMAIN CompatWord
  BY DEF Refused, Blocked, Profiled, Of, CompatWord
<1>2. \A i \in Patterns(s, kept) : i \in DOMAIN s /\ s[i].key \in DOMAIN Family
  BY DEF Patterns, Profiled, Of, Family
<1>3. \A i \in DOMAIN s : s[i].name \in Name
  BY Objects DEF Object
<1> QED BY <1>1, <1>2, <1>3, WordsAreWords DEF Analysis

\* A commit after its trace keeps the types.
LEMMA CommitIsTyped == ASSUME TypeOK, job # Idle => snap \in Export, FinishCommit PROVE TypeOK'
<1> USE DEF TypeOK
<1>1. snap \in Export /\ Kept \in SUBSET DOMAIN snap
  BY DEF FinishCommit, Idle, Kept
<1>2. disc' \in Discovery /\ disc'.kept \subseteq DOMAIN disc'.snap
  BY <1>1, Objects DEF FinishCommit, Discovery, Manifest
<1>3. listed' \subseteq Word \X Name
  BY <1>1, AnalysisIsTyped DEF FinishCommit
<1>4. man' \in Manifest /\ (conf' = None \/ conf' = conf)
  BY DEF FinishCommit, Replaced, Manifest
<1>5. Idle \in [op : {"none", "page", "commit"}, filter : Selection, subs : SUBSET Selection]
  BY DEF Idle, Everything, Selection
<1> QED BY <1>2, <1>3, <1>4, <1>5 DEF FinishCommit

\* What the collectors take from a discovery has its type.
LEMMA CollectedIsTyped ==
    ASSUME TypeOK, NEW s \in Collected, NEW lost \in Outage, ShellDiscovers(s, lost)
    PROVE  TypeOK'
<1> USE DEF TypeOK
<1> DEFINE got == CollectedFrom(s, lost)
<1>1. s \in Export
  BY ExportsAreObjects
<1>2. got \subseteq DOMAIN s
  BY DEF CollectedFrom, ListOf, Of
<1> HIDE DEF got
<1>3. disc' \in Discovery /\ disc'.kept \subseteq DOMAIN disc'.snap
  BY <1>1, <1>2, Objects DEF ShellDiscovers, Discovery, Everything, Selection, got
<1>4. \A i \in {i \in got : Flagged(s[i])} : s[i].key \in DOMAIN CollectWord
  BY DEF Flagged, ServiceFlagged, CertificateFlagged, PersistenceFlagged, GslbFlagged,
         CollectWord
<1>5. \A i \in got : s[i].name \in Name
  BY <1>1, <1>2, Objects DEF Object
<1>6. listed' \subseteq Word \X Name
  BY <1>4, <1>5, WordsAreWords DEF ShellDiscovers, got
<1> QED BY <1>3, <1>6 DEF ShellDiscovers

\* The transformers keep the types.
LEMMA TransformIsTyped == ASSUME TypeOK, Transform PROVE TypeOK'
<1> USE DEF TypeOK
<1> DEFINE s == disc.snap
           taken == {i \in Sections(s, disc.kept) : ~Deferred(s[i])}
           good == {i \in taken : Translates(s[i])}
<1>1. /\ s \in Export /\ disc.kept \subseteq DOMAIN s
  BY DEF Transform, Discovery
<1>2. /\ conf'.snap \in Export
      /\ conf'.built \subseteq conf'.kept
      /\ conf'.kept \subseteq DOMAIN conf'.snap
  BY <1>1 DEF Transform, Sections
<1>3. \A i \in taken \ good : s[i].key \in DOMAIN FlagWord /\ s[i].name \in Name
  <2>1. \A i \in taken : s[i] \in Object /\ s[i].key \in BuiltKey
    BY <1>1, Objects DEF Sections
  <2> QED BY <2>1 DEF Translates, PoolTranslates, SSLProfileTranslates, BuiltKey, Key,
                      FlagWord, Object
<1>4. listed' \subseteq Word \X Name
  <2>1. listed' = listed \cup {<<FlagWord[s[i].key], s[i].name>> : i \in taken \ good}
    BY DEF Transform
  <2> HIDE DEF taken, good, s
  <2> QED BY <1>3, <2>1, WordsAreWords
<1> QED BY <1>2, <1>4 DEF Transform

\* Only the trace itself moves while a request traces, and it starts from idle.
LEMMA OneRequest ==
    ASSUME [Next]_vars
    PROVE  \/ UNCHANGED <<snap, job, seen, queue>>
           \/ job' = Idle
           \/ /\ job = Idle
              /\ snap' = snap /\ snap # None
              /\ \E op \in {"page", "commit"} :
                    /\ job'.op = op
                    /\ StartTrace(snap, JobRoots(op, job'.filter))
           \/ /\ job # Idle
              /\ UNCHANGED <<snap, job>>
              /\ \E i \in queue : Visit(snap, i)
<1> USE DEF noTrace, Edit
<1>1. ASSUME NEW s \in Export, Stage(s) PROVE job' = Idle
  BY <1>1 DEF Stage
<1>2. ASSUME NEW s \in Collected, NEW lost \in Outage, ShellDiscovers(s, lost)
      PROVE  UNCHANGED <<snap, job, seen, queue>>
  BY <1>2 DEF ShellDiscovers
<1>3. ASSUME NEW op \in {"page", "commit"}, NEW f, NEW subs, Start(op, f, subs)
      PROVE  /\ job = Idle /\ snap' = snap /\ snap # None
             /\ job'.op = op
             /\ StartTrace(snap, JobRoots(op, job'.filter))
  BY <1>3 DEF Start
<1>4. CASE \E f \in Filter : Preview(f)
  BY <1>3, <1>4 DEF Preview
<1>5. CASE ShowPage
  BY <1>3, <1>5 DEF ShowPage
<1>6. CASE Commit
  BY <1>3, <1>6 DEF Commit
<1>7. ASSUME NEW f \in Filter, Subtask(f) PROVE UNCHANGED <<snap, job, seen, queue>>
  BY <1>7 DEF Subtask
<1>8. ASSUME NEW f \in Filter, NEW k \in KeyChoice, SavePage(f, k)
      PROVE  UNCHANGED <<snap, job, seen, queue>>
  BY <1>8 DEF SavePage
<1>9. CASE ShellIncludesGslb
  BY <1>9 DEF ShellIncludesGslb
<1>10. ASSUME NEW m \in Mapping, MapTenant(m[1], m[2])
       PROVE  UNCHANGED <<snap, job, seen, queue>>
  BY <1>10 DEF MapTenant
<1>11. ASSUME NEW item, TriagePage(item) \/ ShellDefers(item)
       PROVE  UNCHANGED <<snap, job, seen, queue>>
  BY <1>11 DEF TriagePage, ShellDefers
<1>12. CASE Trace
  BY <1>12 DEF Trace
<1>13. CASE FinishPage \/ FinishCommit
  BY <1>13 DEF FinishPage, FinishCommit
<1>14. CASE Transform
  BY <1>14 DEF Transform
<1>15. CASE UNCHANGED vars
  BY <1>15 DEF vars
<1> QED BY <1>1, <1>2, <1>4, <1>5, <1>6, <1>7, <1>8, <1>9, <1>10, <1>11, <1>12,
           <1>13, <1>14, <1>15 DEF Next

\* Only payloads are traced.
JobInv == TypeOK /\ (job # Idle => snap \in Export)

\* Nothing has been traced.
LEMMA JobInit == ASSUME Init PROVE JobInv
<1>1. man \in Manifest
  BY DEF Init, Manifest, Everything, Selection
<1>2. Idle \in [op : {"none", "page", "commit"}, filter : Selection, subs : SUBSET Selection]
  BY DEF Idle, Everything, Selection
<1>3. edits \in 0..MaxEdits /\ there \subseteq BuiltKey \X Name
  BY EditsAreBounded, ExistingAreIds DEF Init
<1> QED BY <1>1, <1>2, <1>3 DEF Init, JobInv, TypeOK

\* Every step keeps the trace at hand within its closure.
LEMMA JobStep == ASSUME JobInv, [Next]_vars PROVE JobInv'
<1>1. TypeOK /\ (job # Idle => snap \in Export)
  BY DEF JobInv
<1>2. job' # Idle => snap' \in Export
  BY <1>1, OneRequest DEF TypeOK
<1>3. TypeOK'
  <2>1. CASE \E s \in Export : Stage(s)
    BY <1>1, <2>1, StageIsTyped
  <2>2. CASE \E s \in Collected, lost \in Outage : ShellDiscovers(s, lost)
    BY <1>1, <2>2, CollectedIsTyped
  <2>3. CASE \/ \E f \in Filter, k \in KeyChoice : SavePage(f, k)
             \/ \E f \in Filter : Subtask(f)
             \/ ShellIncludesGslb
             \/ \E m \in Mapping : MapTenant(m[1], m[2])
             \/ \E item \in listed : TriagePage(item)
             \/ \E item \in Deferral : ShellDefers(item)
    BY <1>1, <2>3, EditsAreTyped
  <2>4. CASE (\E f \in Filter : Preview(f)) \/ ShowPage \/ Commit
    <3>1. /\ man.filter \in Selection /\ man.subs \in SUBSET Selection
          /\ {} \in SUBSET Selection /\ \A f \in Filter : Switched(f) \in Selection
      BY <1>1, SwitchedIsTyped, FiltersSelect DEF TypeOK, Manifest
    <3> QED BY <1>1, <2>4, <3>1, StartIsTyped DEF Preview, ShowPage, Commit
  <2>5. CASE Trace
    BY <1>1, <2>5, TraceIsTyped
  <2>6. CASE FinishPage \/ FinishCommit
    BY <1>1, <2>6, PageIsTyped, CommitIsTyped
  <2>7. CASE Transform
    BY <1>1, <2>7, TransformIsTyped
  <2>8. CASE UNCHANGED vars
    BY <1>1, <2>8 DEF TypeOK, vars
  <2> QED BY <2>1, <2>2, <2>3, <2>4, <2>5, <2>6, <2>7, <2>8 DEF Next
<1> QED BY <1>2, <1>3 DEF JobInv

\* TypeOK: the manifest, the files and the trace stay well formed through every
\* order of requests and commands (pipeline_service.py, ui/routes.py, migrate.py).
THEOREM TypeCorrect == Spec => []TypeOK
<1>1. Init => JobInv
  BY JobInit
<1>2. JobInv /\ [Next]_vars => JobInv'
  BY JobStep
<1>3. JobInv => TypeOK
  BY DEF JobInv
<1> QED BY <1>1, <1>2, <1>3, PTL DEF Spec
-----------------------------------------------------------------------------
\* A trace over the export s from the objects R, on its way.
Tracing(s, R, S, Q) ==
    /\ RootIds(s, R) \subseteq S
    /\ Q \subseteq {Stand(s, R, r) : r \in S}
    /\ \A r \in S : Stand(s, R, r) \in Q \/ Needs(s, Stand(s, R, r)) \subseteq S
    /\ \A D \in SUBSET Ids(s) : Closed(s, R, D) => S \subseteq D

TraceInv == job # Idle => Tracing(snap, JobRoots(job.op, job.filter), seen, queue)
-----------------------------------------------------------------------------
\* A trace begins with the roots and nothing else.
LEMMA TraceStarts ==
    ASSUME NEW s, NEW R, StartTrace(s, R)
    PROVE  Tracing(s, R, seen', queue')
BY DEF StartTrace, Tracing, Closed

\* An object that no root has the name of stands for itself.
LEMMA StandOfNew ==
    ASSUME NEW s, NEW R, NEW r, r \notin RootIds(s, R)
    PROVE  Stand(s, R, r) = First(s, r)
BY DEF Stand, RootIds

\* Looking at one object of the queue keeps what is known of a trace.
LEMMA TraceGoesOn ==
    ASSUME NEW s, NEW R, NEW i, Tracing(s, R, seen, queue), Visit(s, i)
    PROVE  Tracing(s, R, seen', queue')
<1> DEFINE new == Needs(s, i) \ seen
<1>1. /\ i \in queue /\ seen' = seen \cup new
      /\ queue' = (queue \ {i}) \cup {First(s, r) : r \in new}
  BY DEF Visit
<1>2. PICK r0 \in seen : i = Stand(s, R, r0)
  BY <1>1 DEF Tracing
<1>3. \A r \in new : Stand(s, R, r) = First(s, r)
  BY StandOfNew DEF Tracing
<1>4. RootIds(s, R) \subseteq seen'
  BY <1>1 DEF Tracing
<1>5. queue' \subseteq {Stand(s, R, r) : r \in seen'}
  <2>1. queue \ {i} \subseteq {Stand(s, R, r) : r \in seen'}
    BY <1>1 DEF Tracing
  <2>2. {First(s, r) : r \in new} \subseteq {Stand(s, R, r) : r \in seen'}
    BY <1>1, <1>3
  <2> QED BY <1>1, <2>1, <2>2
<1>6. ASSUME NEW r \in seen'
      PROVE  Stand(s, R, r) \in queue' \/ Needs(s, Stand(s, R, r)) \subseteq seen'
  <2>1. CASE r \in new
    BY <1>1, <1>3, <2>1
  <2>2. CASE r \in seen /\ Stand(s, R, r) = i
    BY <1>1, <2>2
  <2>3. CASE r \in seen /\ Stand(s, R, r) # i
    BY <1>1, <2>3 DEF Tracing
  <2> QED BY <1>1, <2>1, <2>2, <2>3
<1>7. ASSUME NEW D \in SUBSET Ids(s), Closed(s, R, D)
      PROVE  seen' \subseteq D
  <2>1. seen \subseteq D
    BY <1>7 DEF Tracing
  <2>2. Needs(s, i) \subseteq D
    BY <1>2, <1>7, <2>1 DEF Closed
  <2> QED BY <1>1, <2>1, <2>2
<1> QED BY <1>4, <1>5, <1>6, <1>7 DEF Tracing

\* With nothing left to look at, what was seen is the least closed set.
LEMMA TraceEnds ==
    ASSUME NEW s, NEW R, Tracing(s, R, seen, {})
    PROVE  LeastClosed(s, R, seen)
BY DEF Tracing, LeastClosed, Closed
-----------------------------------------------------------------------------
\* The roots of a request depend on the export and the request alone.
LEMMA SameRoots ==
    ASSUME snap' = snap, NEW op, NEW f
    PROVE  JobRoots(op, f)' = JobRoots(op, f)
BY DEF JobRoots, PageRoots, Filtered

\* At first nothing is traced.
LEMMA TraceBegins == ASSUME Init PROVE TraceInv
BY DEF Init, TraceInv

\* Every step keeps what is known of the trace at hand.
LEMMA TraceStep == ASSUME TraceInv, [Next]_vars PROVE TraceInv'
<1> SUFFICES ASSUME job' # Idle
             PROVE  Tracing(snap, JobRoots(job.op, job.filter), seen, queue)'
  BY DEF TraceInv, Idle
<1>1. CASE UNCHANGED <<snap, job, seen, queue>>
  <2>1. Tracing(snap, JobRoots(job.op, job.filter), seen', queue')
    BY <1>1 DEF TraceInv
  <2> QED BY <1>1, <2>1, SameRoots
<1>2. CASE /\ job = Idle /\ snap' = snap
           /\ \E op \in {"page", "commit"} :
                 job'.op = op /\ StartTrace(snap, JobRoots(op, job'.filter))
  <2>1. Tracing(snap, JobRoots(job'.op, job'.filter), seen', queue')
    BY <1>2, TraceStarts
  <2> QED BY <1>2, <2>1, SameRoots
<1>3. CASE /\ job # Idle /\ UNCHANGED <<snap, job>>
           /\ \E i \in queue : Visit(snap, i)
  <2>1. Tracing(snap, JobRoots(job.op, job.filter), seen', queue')
    BY <1>3, TraceGoesOn DEF TraceInv
  <2> QED BY <1>3, <2>1, SameRoots
<1> QED BY <1>1, <1>2, <1>3, OneRequest DEF Idle

\* TraceIsClosure: the trace that the import-scope page, the preview and the
\* commit run over an export (core/resolver.py's references, followed by
\* get_import_scope_review and by the candidate builder) ends with exactly the
\* selected objects and everything they refer to, transitively.
THEOREM TraceFindsTheClosure == Spec => []TraceIsClosure
<1>1. Init => TraceInv
  BY TraceBegins
<1>2. TraceInv /\ [Next]_vars => TraceInv'
  BY TraceStep
<1>3. TraceInv => TraceIsClosure
  BY TraceEnds DEF TraceInv, TraceIsClosure
<1> QED BY <1>1, <1>2, <1>3, PTL DEF Spec
-----------------------------------------------------------------------------
\* A set with a name for each of its members has no fewer members than names.
LEMMA NoMoreThanNames ==
    ASSUME NEW S, IsFiniteSet(S), NEW f, DOMAIN f = S, NEW T, T = {f[x] : x \in S}
    PROVE  IsFiniteSet(T) /\ Cardinality(T) <= Cardinality(S)
<1>1. [x \in S |-> f[x]] \in Surjection(S, T)
  BY DEF Surjection
<1> QED BY <1>1, FS_Surjection

\* An export has finitely many names.
LEMMA NamesAreFinite == ASSUME NEW s \in Export PROVE IsFiniteSet(Ids(s))
<1>1. DOMAIN s = 1 .. Len(s) /\ Len(s) \in Int /\ 1 \in Int
  BY ExportsAreObjects
<1>2. IsFiniteSet(DOMAIN s)
  BY <1>1, FS_Interval
<1> DEFINE f == [i \in DOMAIN s |-> Id(s, i)]
<1>3. DOMAIN f = DOMAIN s /\ Ids(s) = {f[i] : i \in DOMAIN s}
  BY DEF Ids
<1> HIDE DEF f
<1> QED BY <1>2, <1>3, NoMoreThanNames

\* A turn takes one object from the queue, and adds one for a name at most that
\* was not seen before.
LEMMA ATurnIsTaken ==
    ASSUME NEW s \in Export, NEW i, Visit(s, i), IsFiniteSet(queue)
    PROVE  /\ IsFiniteSet(queue')
           /\ Cardinality(queue') + Cardinality(Ids(s) \ seen')
                < Cardinality(queue) + Cardinality(Ids(s) \ seen)
<1> DEFINE new == Needs(s, i) \ seen
           f   == [r \in new |-> First(s, r)]
           put == {f[r] : r \in new}
           out == Ids(s) \ seen
<1>1. /\ i \in queue /\ Ids(s) \ seen' = out \ new
      /\ queue' = (queue \ {i}) \cup put
  BY DEF Visit
<1>2. IsFiniteSet(out) /\ Cardinality(out) \in Nat
  BY NamesAreFinite, FS_Difference, FS_CardinalityType
<1>3. new \in SUBSET out /\ out \cap new = new
  BY DEF Needs
<1>4. IsFiniteSet(new) /\ Cardinality(new) \in Nat
  <2> HIDE DEF new, out
  <2> QED BY <1>2, <1>3, FS_Subset, FS_CardinalityType
<1>5. Cardinality(out \ new) = Cardinality(out) - Cardinality(new)
  <2> HIDE DEF new, out
  <2> QED BY <1>2, <1>3, FS_Difference
<1>6. IsFiniteSet(put) /\ Cardinality(put) <= Cardinality(new) /\ Cardinality(put) \in Nat
  <2>1. DOMAIN f = new
    OBVIOUS
  <2> HIDE DEF new, f
  <2> QED BY <1>4, <2>1, NoMoreThanNames, FS_CardinalityType
<1> HIDE DEF new, f, put, out
<1> DEFINE rest == queue \ {i}
<1>7. /\ IsFiniteSet(rest) /\ Cardinality(rest) \in Nat
      /\ Cardinality(queue) \in Nat /\ Cardinality(rest) = Cardinality(queue) - 1
  BY <1>1, FS_RemoveElement, FS_CardinalityType
<1>8. queue' = rest \cup put
  BY <1>1
<1> HIDE DEF rest
<1>9. IsFiniteSet(rest \cap put) /\ Cardinality(rest \cap put) \in Nat
  BY <1>7, FS_Intersection, FS_CardinalityType
<1>10. /\ IsFiniteSet(rest \cup put)
       /\ Cardinality(rest \cup put)
             = Cardinality(rest) + Cardinality(put) - Cardinality(rest \cap put)
  BY <1>6, <1>7, FS_Union
<1>11. Cardinality(queue') <= Cardinality(queue) - 1 + Cardinality(new)
  <2>1. Cardinality(rest \cup put) <= Cardinality(rest) + Cardinality(new)
    BY <1>4, <1>6, <1>7, <1>9, <1>10
  <2> QED BY <1>4, <1>7, <1>8, <2>1
<1>12. Cardinality(queue') \in Nat
  BY <1>8, <1>10, FS_CardinalityType
<1>13. Cardinality(Ids(s) \ seen') = Cardinality(out) - Cardinality(new)
  BY <1>1, <1>5
<1>14. Cardinality(queue') + Cardinality(Ids(s) \ seen') < Cardinality(queue) + Cardinality(out)
  BY <1>2, <1>4, <1>7, <1>11, <1>12, <1>13
<1> QED BY <1>8, <1>10, <1>14 DEF out

\* A trace begins with one object for each name of the roots.
LEMMA ATraceBegins ==
    ASSUME NEW s \in Export, NEW R \in SUBSET DOMAIN s, StartTrace(s, R)
    PROVE  /\ IsFiniteSet(queue')
           /\ Cardinality(queue') + Cardinality(Ids(s) \ seen') <= Cardinality(Ids(s))
<1> DEFINE roots == RootIds(s, R)
           f     == [r \in roots |-> Stand(s, R, r)]
<1>1. seen' = roots /\ queue' = {f[r] : r \in roots} /\ DOMAIN f = roots
  BY DEF StartTrace
<1>2. roots \in SUBSET Ids(s) /\ Ids(s) \cap roots = roots
  BY DEF RootIds, Ids
<1> HIDE DEF roots, f
<1>3. IsFiniteSet(Ids(s)) /\ Cardinality(Ids(s)) \in Nat
  BY NamesAreFinite, FS_CardinalityType
<1>4. IsFiniteSet(roots) /\ Cardinality(roots) \in Nat
  BY <1>2, <1>3, FS_Subset, FS_CardinalityType
<1>5. Cardinality(Ids(s) \ roots) = Cardinality(Ids(s)) - Cardinality(roots)
  BY <1>2, <1>3, FS_Difference
<1>6. IsFiniteSet(queue') /\ Cardinality(queue') <= Cardinality(roots)
  BY <1>1, <1>4, NoMoreThanNames
<1>7. Cardinality(queue') \in Nat
  BY <1>6, FS_CardinalityType
<1> QED BY <1>1, <1>3, <1>4, <1>5, <1>6, <1>7

FiniteQueue == job # Idle => IsFiniteSet(queue)

\* What a trace has to look at stays finite.
LEMMA QueueStaysFinite ==
    ASSUME JobInv, FiniteQueue, [Next]_vars
    PROVE  FiniteQueue'
<1>1. CASE job = Idle /\ job' # Idle /\ UNCHANGED <<snap, job, seen, queue>>
  BY <1>1
<1>2. CASE /\ job = Idle /\ snap' = snap /\ snap # None
           /\ \E op \in {"page", "commit"} : StartTrace(snap, JobRoots(op, job'.filter))
  BY <1>2, RootsAreObjects, ATraceBegins DEF FiniteQueue, JobInv, TypeOK
<1>3. CASE job # Idle /\ UNCHANGED <<snap, job>> /\ \E i \in queue : Visit(snap, i)
  BY <1>3, ATurnIsTaken DEF FiniteQueue, JobInv
<1>4. CASE UNCHANGED <<snap, job, seen, queue>>
  BY <1>4 DEF FiniteQueue, Idle
<1> QED BY <1>1, <1>2, <1>3, <1>4, OneRequest DEF FiniteQueue, Idle

\* TraceGetsOn: the loops over the queue in get_import_scope_review and in
\* _build_candidate_discovery_from_raw_and_decisions come to their end after at
\* most as many turns as the export has names, for any export and selection.
THEOREM TracesComeToAnEnd == Spec => TraceGetsOn
<1> DEFINE Inv == JobInv /\ FiniteQueue
<1>1. Init => Inv
  BY JobInit DEF Init, FiniteQueue
<1>2. Inv /\ [Next]_vars => Inv'
  BY JobStep, QueueStaysFinite
<1>3. Inv /\ [Next]_vars =>
          [/\ Trace => TurnsLeft' < TurnsLeft
           /\ job = Idle /\ job' # Idle => TurnsLeft' <= Cardinality(Ids(snap))]_vars
  <2> SUFFICES ASSUME Inv, [Next]_vars
               PROVE  /\ Trace => TurnsLeft' < TurnsLeft
                      /\ job = Idle /\ job' # Idle =>
                            TurnsLeft' <= Cardinality(Ids(snap))
    OBVIOUS
  <2>1. ASSUME Trace PROVE TurnsLeft' < TurnsLeft
    <3>1. PICK i \in queue : Visit(snap, i)
      BY <2>1 DEF Trace
    <3>2. snap \in Export /\ snap' = snap /\ IsFiniteSet(queue)
      BY <2>1 DEF Trace, JobInv, FiniteQueue
    <3>3. Cardinality(queue') + Cardinality(Ids(snap) \ seen')
              < Cardinality(queue) + Cardinality(Ids(snap) \ seen)
      BY <3>1, <3>2, ATurnIsTaken
    <3>4. Ids(snap)' = Ids(snap)
      BY <3>2 DEF Ids, Id
    <3> QED BY <3>3, <3>4 DEF TurnsLeft
  <2>2. ASSUME job = Idle, job' # Idle PROVE TurnsLeft' <= Cardinality(Ids(snap))
    <3>1. PICK op \in {"page", "commit"} : StartTrace(snap, JobRoots(op, job'.filter))
      BY <2>2, OneRequest
    <3>2. snap \in Export /\ snap' = snap
      BY <2>2, OneRequest DEF JobInv, TypeOK
    <3>3. Cardinality(queue') + Cardinality(Ids(snap) \ seen') <= Cardinality(Ids(snap))
      BY <3>1, <3>2, RootsAreObjects, ATraceBegins
    <3>4. Ids(snap)' = Ids(snap)
      BY <3>2 DEF Ids, Id
    <3> QED BY <3>3, <3>4 DEF TurnsLeft
  <2> QED BY <2>1, <2>2
<1> QED BY <1>1, <1>2, <1>3, PTL DEF Spec, TraceGetsOn
-----------------------------------------------------------------------------
(* The configuration and what it was made from. *)

\* The configuration is of the discovery on file, unless that came from a shell;
\* what it has was translated, for the VDOMs mapped then.
ConfInv ==
    conf # None =>
        /\ disc # None
        /\ conf.snap \in Export /\ conf.kept \subseteq DOMAIN conf.snap
        /\ ~disc.live => conf.snap = disc.snap /\ conf.kept = disc.kept
        /\ conf.built \subseteq {i \in Sections(conf.snap, conf.kept) : Translates(conf.snap[i])}
        /\ \A i \in conf.built :
              conf.vdom[i] = IF conf.vmap[conf.snap[i].tenant] # None
                             THEN conf.vmap[conf.snap[i].tenant]
                             ELSE IF conf.snap[i].tenant = Admin THEN Root
                             ELSE conf.snap[i].tenant

BuildInv == JobInv /\ ConfInv

\* The actions that only edit the manifest, or move a trace.
LEMMA EditsKeepTheFiles == ASSUME BuildInv, JobInv', UNCHANGED <<disc, conf>> PROVE BuildInv'
BY DEF BuildInv, ConfInv

-----------------------------------------------------------------------------
\* A commit: whatever was made of the discovery before it is gone.
LEMMA CommitKeeps == ASSUME BuildInv, JobInv', FinishCommit PROVE BuildInv'
<1>1. disc = None \/ conf' = None
  BY DEF FinishCommit, Replaced
<1>2. conf' = None
  BY <1>1 DEF BuildInv, ConfInv, FinishCommit
<1> QED BY <1>2 DEF BuildInv, ConfInv

\* A discovery collected anew ends what is known of the configuration.
LEMMA CollectingKeeps ==
    ASSUME BuildInv, JobInv', NEW s \in Collected, NEW lost \in Outage, ShellDiscovers(s, lost)
    PROVE  BuildInv'
<1>1. disc'.live /\ UNCHANGED conf
  BY DEF ShellDiscovers
<1>2. disc' # None
  <2>1. CollectedFrom(s, lost) \subseteq Nat /\ s \in Export
    BY Objects, ExportsAreObjects DEF CollectedFrom, ListOf, Of
  <2>2. disc' \in Discovery
    BY <2>1 DEF ShellDiscovers, Discovery, Everything, Selection
  <2> QED BY <2>2, NoneIsNothing
<1> QED BY <1>1, <1>2 DEF BuildInv, ConfInv

\* A configuration is built of the discovery on file.
LEMMA TransformKeeps == ASSUME BuildInv, JobInv', Transform PROVE BuildInv'
<1> DEFINE s == disc.snap
           taken == {i \in Sections(s, disc.kept) : ~Deferred(s[i])}
           good == {i \in taken : Translates(s[i])}
<1>1. /\ disc # None /\ UNCHANGED <<disc, man>>
      /\ s \in Export /\ disc.kept \subseteq DOMAIN s
  BY DEF Transform, BuildInv, JobInv, TypeOK, Discovery
<1>2. /\ conf'.snap = s /\ conf'.kept = disc.kept /\ conf'.vmap = man.vmap
      /\ conf'.built = good
      /\ \A i \in good : conf'.vdom[i] = VdomOf(s[i].tenant)
  BY DEF Transform
<1>3. ConfInv'
  <2>1. good \subseteq {i \in Sections(s, disc.kept) : Translates(s[i])}
    OBVIOUS
  <2> HIDE DEF good
  <2> QED BY <1>1, <1>2, <2>1 DEF ConfInv, VdomOf
<1> QED BY <1>3 DEF BuildInv

\* Every step keeps discovery and configuration made from their trace.
LEMMA BuildStep == ASSUME BuildInv, [Next]_vars PROVE BuildInv'
<1> USE DEF noTrace, Edit
<1>1. JobInv'
  BY JobStep DEF BuildInv
<1>2. CASE \E s \in Export : Stage(s)
  BY <1>1, <1>2, EditsKeepTheFiles DEF Stage
<1>3. CASE \E s \in Collected, lost \in Outage : ShellDiscovers(s, lost)
  BY <1>1, <1>3, CollectingKeeps
<1>4. CASE \E f \in Filter : Subtask(f) \/ \E k \in KeyChoice : SavePage(f, k)
  BY <1>1, <1>4, EditsKeepTheFiles DEF SavePage, Subtask
<1>5. CASE ShellIncludesGslb \/ \E m \in Mapping : MapTenant(m[1], m[2])
  BY <1>1, <1>5, EditsKeepTheFiles DEF ShellIncludesGslb, MapTenant
<1>6. ASSUME NEW item, TriagePage(item) \/ ShellDefers(item) PROVE BuildInv'
  BY <1>1, <1>6, EditsKeepTheFiles DEF TriagePage, ShellDefers
<1>7. CASE (\E f \in Filter : Preview(f)) \/ ShowPage \/ Commit
  BY <1>1, <1>7, EditsKeepTheFiles DEF Preview, ShowPage, Commit, Start
<1>8. CASE Trace \/ FinishPage
  BY <1>1, <1>8, EditsKeepTheFiles DEF Trace, FinishPage
<1>9. CASE FinishCommit
  BY <1>1, <1>9, CommitKeeps
<1>10. CASE Transform
  BY <1>1, <1>10, TransformKeeps
<1>11. CASE UNCHANGED vars
  BY <1>1, <1>11, EditsKeepTheFiles DEF vars
<1> QED BY <1>2, <1>3, <1>4, <1>5, <1>6, <1>7, <1>8, <1>9, <1>10, <1>11 DEF Next

\* The invariant holds throughout.
LEMMA BuildInvHolds == Spec => []BuildInv
<1>1. Init => BuildInv
  <2>1. Init => JobInv
    BY JobInit
  <2> QED BY <2>1 DEF Init, BuildInv, ConfInv
<1>2. BuildInv /\ [Next]_vars => BuildInv'
  BY BuildStep
<1> QED BY <1>1, <1>2, PTL DEF Spec

\* VsClashIsShown: for every VDOM mapping, virtual servers of one name that were
\* built for one VDOM are in the collisions that get_transform_mapping_review
\* reports, but for what is shared, unmapped, and joined by a tenant in root.
THEOREM ClashesAreShown == Spec => []VsClashIsShown
<1>1. BuildInv => VsClashIsShown
  <2> SUFFICES ASSUME BuildInv, conf # None, conf.snap = disc.snap, conf.kept = disc.kept,
                      conf.vmap = man.vmap,
                      NEW i \in Of("VirtualService", conf.built, conf.snap),
                      NEW j \in Of("VirtualService", conf.built, conf.snap),
                      i # j, conf.snap[i].name = conf.snap[j].name, conf.vdom[i] = conf.vdom[j]
               PROVE  \/ <<i, j>> \in Collisions
                      \/ /\ conf.vdom[i] = Root
                         /\ \E t \in {conf.snap[i].tenant, conf.snap[j].tenant} :
                               t = Admin /\ man.vmap[t] = None
    BY DEF VsClashIsShown
  <2> DEFINE a == conf.snap[i].tenant
             b == conf.snap[j].tenant
  <2>1. /\ i \in conf.kept /\ j \in conf.kept /\ i \in conf.built /\ j \in conf.built
        /\ conf.snap[i].key = "VirtualService" /\ conf.snap[j].key = "VirtualService"
        /\ conf.snap \in Export /\ i \in DOMAIN conf.snap /\ j \in DOMAIN conf.snap
    BY DEF Of, BuildInv, ConfInv, Sections
  <2>2. a # b
    BY <2>1, NamesAreTenants DEF Id
  <2>3. conf.vdom[i] = VdomOf(a) /\ conf.vdom[j] = VdomOf(b)
    BY <2>1 DEF BuildInv, ConfInv, VdomOf
  <2>4. CASE ReviewVdom(a) = ReviewVdom(b)
    BY <2>1, <2>2, <2>4 DEF Collisions, Of
  <2>5. CASE ReviewVdom(a) # ReviewVdom(b)
    BY <2>2, <2>3, <2>5 DEF VdomOf, ReviewVdom
  <2> QED BY <2>4, <2>5
<1> QED BY <1>1, BuildInvHolds, PTL

\* ReadyMeansComplete: a section for which _build_transform_review (ui/routes.py)
\* finds as many objects as it expects has every object of the committed scope
\* that can be translated, although it compares nothing but numbers.
THEOREM ReadyIsComplete == Spec => []ReadyMeansComplete
<1>1. BuildInv => ReadyMeansComplete
  <2> SUFFICES ASSUME BuildInv, conf # None, ~disc.live, NEW k \in BuiltKey, Ready(k),
                      NEW i \in Of(k, disc.kept, disc.snap), Translates(disc.snap[i])
               PROVE  conf.snap = disc.snap /\ i \in conf.built
    BY DEF ReadyMeansComplete
  <2>1. /\ conf.snap = disc.snap /\ conf.kept = disc.kept /\ disc.snap \in Export
        /\ disc.kept \subseteq DOMAIN disc.snap
        /\ conf.built \subseteq {j \in Sections(disc.snap, disc.kept) : Translates(disc.snap[j])}
    BY DEF BuildInv, ConfInv
  <2>2. Generated(k) \subseteq Expected(k)
    <3> SUFFICES ASSUME NEW j \in Generated(k) PROVE j \in Expected(k)
      OBVIOUS
    <3>1. /\ j \in disc.kept /\ disc.snap[j].key = k /\ Translates(disc.snap[j])
      BY <2>1 DEF Generated, Of, Sections
    <3>2. k = "VirtualService" => disc.snap[j].ok
      BY <3>1 DEF Translates, PoolTranslates, MonitorTranslates, CertTranslates,
                  VsTranslates, PersistTranslates, SSLProfileTranslates
    <3> QED BY <3>1, <3>2 DEF Expected, Of
  <2>3. IsFiniteSet(Expected(k))
    <3>1. disc.snap \in Seq(Object)
      BY <2>1, ExportsAreObjects
    <3>2. IsFiniteSet(1 .. Len(disc.snap))
      BY <3>1, FS_Interval
    <3>3. Expected(k) \in SUBSET (1 .. Len(disc.snap))
      BY <2>1, <3>1 DEF Expected, Of
    <3> QED BY <3>2, <3>3, FS_Subset
  <2>4. Generated(k) = Expected(k)
    <3>1. /\ Cardinality(Generated(k)) <= Cardinality(Expected(k))
          /\ Cardinality(Expected(k)) = Cardinality(Generated(k)) => Expected(k) = Generated(k)
          /\ IsFiniteSet(Generated(k))
      BY <2>2, <2>3, FS_Subset
    <3>2. Cardinality(Generated(k)) \in Nat /\ Cardinality(Expected(k)) \in Nat
      BY <2>3, <3>1, FS_CardinalityType
    <3> QED BY <3>1, <3>2 DEF Ready
  <2>5. k = "VirtualService" => disc.snap[i].ok
    BY DEF Of, Translates, PoolTranslates, MonitorTranslates, CertTranslates,
           VsTranslates, PersistTranslates, SSLProfileTranslates
  <2>6. i \in Expected(k)
    BY <2>5 DEF Expected
  <2> QED BY <2>1, <2>4, <2>6 DEF Generated, Of
<1> QED BY <1>1, BuildInvHolds, PTL
-----------------------------------------------------------------------------
(* What the page shows and the commit keeps. *)

\* The objects that every trace over s from R must find.
Traced(s, R) == {r \in Ids(s) : \A D \in SUBSET Ids(s) : Closed(s, R, D) => r \in D}

\* An object of a tenant that has no row of its own.
Rowless(s, i) ==
    /\ s[i].key \in GlobalKey
    /\ \A j \in DOMAIN s : s[j].tenant = s[i].tenant => s[j].key \in GlobalKey

\* The page has all that its trace must find, of the types with a column.
PageInv ==
    page # None => \A i \in DOMAIN page.snap :
        /\ page.snap[i].key \in Column \cap page.keys
        /\ page.filter.enabled => Id(page.snap, i) \in Traced(page.snap, Roots(page.snap, page.filter))
        => i \in page.shown \cup page.delegated \/ Rowless(page.snap, i)

\* The discovery has nothing else than its trace must find.
KeptInv ==
    disc # None => \A i \in disc.kept :
        /\ disc.snap[i].key \in disc.keys
        /\ Filtered(disc.filter) =>
              Id(disc.snap, i) \in Traced(disc.snap, CommitRoots(disc.snap, disc.filter))

\* Tenants' own objects among the roots do not change what a name stands for.
LEMMA StandOfCommit ==
    ASSUME NEW s \in Export, NEW f, NEW r \in Ids(s), r[1] # "Tenant"
    PROVE  Stand(s, CommitRoots(s, f), r) = Stand(s, Roots(s, f), r)
<1> DEFINE P == Roots(s, f)
           C == CommitRoots(s, f)
<1>1. P \in SUBSET DOMAIN s /\ C \in SUBSET DOMAIN s /\ DOMAIN s \subseteq Nat
  BY Objects DEF CommitRoots, Roots
<1>2. \A i : (i \in P /\ Id(s, i) = r) <=> (i \in C /\ Id(s, i) = r)
  BY DEF CommitRoots, Id
<1>3. CASE \E i \in P : Id(s, i) = r
  <2>1. PICK i \in {i \in P : Id(s, i) = r} : \A j \in {j \in P : Id(s, j) = r} : i <= j
    BY <1>1, <1>3, LeastNatural
  <2> HIDE DEF P, C
  <2>2. Stand(s, P, r) \in P /\ Id(s, Stand(s, P, r)) = r
        /\ \A j \in P : Id(s, j) = r => Stand(s, P, r) <= j
    BY <1>3, <2>1 DEF Stand
  <2>3. Stand(s, C, r) \in C /\ Id(s, Stand(s, C, r)) = r
        /\ \A j \in C : Id(s, j) = r => Stand(s, C, r) <= j
    BY <1>2, <1>3, <2>1 DEF Stand
  <2>4. Stand(s, P, r) \in Nat /\ Stand(s, C, r) \in Nat
        /\ Stand(s, P, r) <= Stand(s, C, r) /\ Stand(s, C, r) <= Stand(s, P, r)
    BY <1>1, <1>2, <2>2, <2>3
  <2> HIDE DEF Stand
  <2>5. \A m, n \in Nat : m <= n /\ n <= m => m = n
    OBVIOUS
  <2>6. Stand(s, P, r) = Stand(s, C, r)
    BY <2>4, <2>5
  <2> QED BY <2>6 DEF P, C
<1>4. CASE ~ \E i \in P : Id(s, i) = r
  <2> HIDE DEF P, C
  <2>1. Stand(s, P, r) = First(s, r) /\ Stand(s, C, r) = First(s, r)
    BY <1>2, <1>4 DEF Stand
  <2> QED BY <2>1 DEF P, C
<1> QED BY <1>3, <1>4

\* What the commit must find the page must find, but for tenants' own objects.
LEMMA CommitFindsNoMore ==
    ASSUME NEW s \in Export, NEW f, NEW r \in Traced(s, CommitRoots(s, f)), r[1] # "Tenant"
    PROVE  r \in Traced(s, Roots(s, f))
<1> SUFFICES ASSUME NEW D \in SUBSET Ids(s), Closed(s, Roots(s, f), D) PROVE r \in D
  BY DEF Traced
<1> DEFINE own == {q \in Ids(s) : q[1] = "Tenant"}
           E == D \cup own
<1>1. RootIds(s, CommitRoots(s, f)) \subseteq E
  <2> SUFFICES ASSUME NEW i \in CommitRoots(s, f) PROVE Id(s, i) \in E
    BY DEF RootIds
  <2>1. CASE i \in Roots(s, f)
    BY <2>1 DEF Closed, RootIds
  <2>2. CASE i \in DOMAIN s /\ s[i].key = "Tenant"
    BY <2>2 DEF Ids, Id
  <2> QED BY <2>1, <2>2 DEF CommitRoots
<1>2. ASSUME NEW q \in E PROVE Needs(s, Stand(s, CommitRoots(s, f), q)) \subseteq E
  <2>1. CASE q[1] = "Tenant"
    <3> DEFINE i == Stand(s, CommitRoots(s, f), q)
    <3>1. CommitRoots(s, f) \in SUBSET DOMAIN s
      BY DEF CommitRoots, Roots
    <3>2. i \in DOMAIN s /\ Id(s, i) = q
      BY <3>1, StandIsNamed DEF Named
    <3> HIDE DEF i
    <3>3. s[i].refs = {}
      BY <2>1, <3>2, TenantsReferToNothing DEF Id
    <3>4. Needs(s, i) = {}
      BY <3>3 DEF Needs
    <3> QED BY <3>4 DEF i
  <2>2. CASE q[1] # "Tenant"
    <3>1. q \in D /\ q \in Ids(s)
      BY <2>2
    <3>2. Stand(s, CommitRoots(s, f), q) = Stand(s, Roots(s, f), q)
      BY <2>2, <3>1, StandOfCommit
    <3> QED BY <3>1, <3>2 DEF Closed
  <2> QED BY <2>1, <2>2
<1>3. E \in SUBSET Ids(s) /\ Closed(s, CommitRoots(s, f), E)
  BY <1>1, <1>2 DEF Closed
<1>4. r \in E
  BY <1>3 DEF Traced
<1> QED BY <1>4

\* A trace that has ended has seen what every such trace must find, and only that.
LEMMA SeenIsTraced ==
    ASSUME JobInv, TraceInv, job.op \in {"page", "commit"}, queue = {}
    PROVE  seen = Traced(snap, JobRoots(job.op, job.filter))
<1> DEFINE R == JobRoots(job.op, job.filter)
<1>1. snap \in Export /\ LeastClosed(snap, R, seen)
  BY TraceEnds DEF TraceInv, JobInv, Idle
<1>2. R \subseteq DOMAIN snap
  BY RootsAreObjects
<1> HIDE DEF R
<1>3. Closed(snap, R, Ids(snap))
  BY <1>2 DEF Closed, RootIds, Ids, Needs
<1>4. seen \subseteq Ids(snap) /\ Closed(snap, R, seen)
  BY <1>1, <1>3 DEF LeastClosed
<1>5. seen = Traced(snap, R)
  BY <1>1, <1>4 DEF LeastClosed, Traced
<1> QED BY <1>5 DEF R

\* The page that is shown at the end of a trace.
LEMMA PageShows == ASSUME JobInv, TraceInv, FinishPage PROVE PageInv'
<1>1. job.op = "page" /\ queue = {}
  BY DEF FinishPage
<1>2. /\ page'.snap = snap /\ page'.filter = job.filter /\ page'.keys = man.keys
      /\ page'.shown \cup page'.delegated
            = {i \in DOMAIN snap : snap[i].key \in Column /\ Live(snap[i].key) /\ Listed(i)}
  BY DEF FinishPage
<1>3. ASSUME NEW i \in DOMAIN snap, snap[i].key \in Column \cap man.keys,
             job.filter.enabled => Id(snap, i) \in Traced(snap, Roots(snap, job.filter))
      PROVE  Live(snap[i].key) /\ (Listed(i) \/ Rowless(snap, i))
  <2>1. job.filter.enabled => Id(snap, i) \in seen
    BY <1>1, <1>3, SeenIsTraced DEF JobRoots, PageRoots
  <2>2. Live(snap[i].key)
    BY <1>3, <2>1 DEF Live
  <2>3. Listed(i) \/ Rowless(snap, i)
    BY <1>3 DEF Listed, HasRow, Rowless
  <2> QED BY <2>2, <2>3
<1> HIDE DEF Live, Listed, Rowless
<1> QED BY <1>2, <1>3 DEF PageInv

\* The discovery that a commit writes at the end of its trace.
LEMMA CommitWrites == ASSUME JobInv, TraceInv, FinishCommit PROVE KeptInv'
<1>1. job.op = "commit" /\ queue = {}
  BY DEF FinishCommit
<1>2. /\ disc'.snap = snap /\ disc'.filter = job.filter /\ disc'.keys = man.keys
      /\ disc'.kept = Kept
  BY DEF FinishCommit
<1>3. ASSUME NEW i \in Kept
      PROVE  /\ snap[i].key \in man.keys
             /\ Filtered(job.filter) => Id(snap, i) \in Traced(snap, CommitRoots(snap, job.filter))
  BY <1>1, SeenIsTraced DEF Kept, JobRoots
<1> HIDE DEF Kept
<1> QED BY <1>2, <1>3 DEF KeptInv

\* A discovery from a shell has no selection.
LEMMA CollectedIsUnfiltered ==
    ASSUME NEW s \in Collected, NEW lost \in Outage, ShellDiscovers(s, lost)
    PROVE  KeptInv'
<1>1. /\ disc'.snap = s /\ disc'.kept = CollectedFrom(s, lost) /\ disc'.keys = Key
      /\ ~Filtered(disc'.filter)
  BY DEF ShellDiscovers, Filtered, Everything
<1>2. \A i \in CollectedFrom(s, lost) : s[i].key \in Key
  BY ExportsAreObjects, Objects DEF CollectedFrom, ListOf, Of, Object
<1> QED BY <1>1, <1>2 DEF KeptInv

\* Nothing else writes the discovery, and nothing but the page remembers a page.
LEMMA WhoShowsAndKeeps ==
    ASSUME [Next]_vars
    PROVE  /\ page' \in {page, None} \/ FinishPage
           /\ \/ disc' = disc \/ FinishCommit
              \/ \E s \in Collected, lost \in Outage : ShellDiscovers(s, lost)
<1> USE DEF noTrace, Edit
<1>1. CASE \E s \in Export : Stage(s)
  BY <1>1 DEF Stage
<1>2. CASE \E s \in Collected, lost \in Outage : ShellDiscovers(s, lost)
  BY <1>2 DEF ShellDiscovers
<1>3. CASE (\E f \in Filter : Preview(f)) \/ ShowPage \/ Commit
  BY <1>3 DEF Preview, ShowPage, Commit, Start
<1>4. CASE \E f \in Filter : Subtask(f) \/ \E k \in KeyChoice : SavePage(f, k)
  BY <1>4 DEF Subtask, SavePage
<1>5. CASE ShellIncludesGslb \/ \E m \in Mapping : MapTenant(m[1], m[2])
  BY <1>5 DEF ShellIncludesGslb, MapTenant
<1>6. ASSUME NEW item, TriagePage(item) \/ ShellDefers(item)
      PROVE  page' \in {page, None} /\ disc' = disc
  BY <1>6 DEF TriagePage, ShellDefers
<1>7. CASE Trace \/ Transform
  BY <1>7 DEF Trace, Transform
<1>8. CASE FinishPage
  BY <1>8 DEF FinishPage
<1>9. CASE FinishCommit
  BY <1>9 DEF FinishCommit
<1>10. CASE UNCHANGED vars
  BY <1>10 DEF vars
<1> QED BY <1>1, <1>2, <1>3, <1>4, <1>5, <1>6, <1>7, <1>8, <1>9, <1>10 DEF Next

\* KeptIsShown: what the commit keeps of a selection
\* (_build_candidate_discovery_from_raw_and_decisions) the page had shown for it
\* (get_import_scope_review), although each traces on its own from roots of its own.
THEOREM CommittedWasShown == Spec => []KeptIsShown
<1>1. Init => PageInv /\ KeptInv
  BY DEF Init, PageInv, KeptInv
<1>2. JobInv /\ TraceInv /\ PageInv /\ KeptInv /\ [Next]_vars => PageInv' /\ KeptInv'
  <2> SUFFICES ASSUME JobInv, TraceInv, PageInv, KeptInv, [Next]_vars PROVE PageInv' /\ KeptInv'
    OBVIOUS
  <2>1. PageInv'
    <3>1. CASE page' \in {page, None}
      BY <3>1 DEF PageInv
    <3> QED BY <3>1, PageShows, WhoShowsAndKeeps
  <2>2. KeptInv'
    <3>1. CASE disc' = disc
      BY <3>1 DEF KeptInv
    <3> QED BY <3>1, CommitWrites, CollectedIsUnfiltered, WhoShowsAndKeeps
  <2> QED BY <2>1, <2>2
<1>3. JobInv /\ PageInv /\ KeptInv => KeptIsShown
  <2> SUFFICES ASSUME JobInv, PageInv, KeptInv, disc # None, page # None,
                      disc.snap = page.snap, disc.filter = page.filter, disc.keys = page.keys,
                      Filtered(disc.filter) \/ ~disc.filter.enabled,
                      NEW i \in disc.kept, disc.snap[i].key \in Column
               PROVE  i \in page.shown \cup page.delegated \/ Rowless(page.snap, i)
    BY DEF KeptIsShown, Rowless
  <2>1. i \in DOMAIN page.snap /\ page.snap \in Export
    BY DEF JobInv, TypeOK
  <2>2. page.snap[i].key \in Column \cap page.keys
    BY DEF KeptInv
  <2>3. page.filter.enabled => Id(page.snap, i) \in Traced(page.snap, Roots(page.snap, page.filter))
    <3> SUFFICES ASSUME page.filter.enabled
                 PROVE  Id(page.snap, i) \in Traced(page.snap, Roots(page.snap, page.filter))
      OBVIOUS
    <3>1. Id(page.snap, i) \in Traced(page.snap, CommitRoots(page.snap, page.filter))
      BY DEF KeptInv
    <3>2. Id(page.snap, i)[1] # "Tenant"
      BY <2>2 DEF Id, Column
    <3> QED BY <2>1, <3>1, <3>2, CommitFindsNoMore
  <2> HIDE DEF Rowless
  <2> QED BY <2>1, <2>2, <2>3 DEF PageInv
<1>4. Spec => [](JobInv /\ TraceInv)
  BY JobInit, JobStep, TraceBegins, TraceStep, PTL DEF Spec
<1> QED BY <1>1, <1>2, <1>3, <1>4, PTL DEF Spec
=============================================================================
