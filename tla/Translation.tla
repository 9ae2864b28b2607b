----------------------------- MODULE Translation -----------------------------
(***************************************************************************)
(* What becomes of the objects of an export: the import-scope page shows   *)
(* what a selection takes in, the commit keeps it as the discovery, the    *)
(* auto-analysis lists what needs a person, the triage defers objects, and *)
(* transform builds the FortiADC configuration that the review page calls  *)
(* ready (services/pipeline_service.py, ui/routes.py, migrate.py).         *)
(*                                                                         *)
(* Requests follow each other here: who may make them, in which order, and *)
(* what two at a time do to a manifest is GateConsole.tla, and what a      *)
(* process that dies between two files leaves behind is ImportScope.tla.   *)
(***************************************************************************)
EXTENDS ScopeTrace, FiniteSets, Functions

CONSTANTS
    Export,         \* payloads that can be uploaded
    Collected,      \* those that the controller itself can give
    Outage,         \* sets of types that it may fail to list
    Filter,         \* selections an operator makes
    KeyChoice,      \* sets of pipeline types an operator includes
    Mapping,        \* <<tenant, VDOM>> pairs an operator enters
    Deferral,       \* <<word, name>> pairs typed into a shell
    Existing,       \* ids of objects the target may already have
    Root,           \* the root VDOM
    None,
    MaxEdits        \* bound on edits of the manifest and further payloads

Vdom == (Tenant \ {Admin}) \cup {Shared, Root}

ASSUME ExportsAreObjects ==
    Collected \subseteq Export /\ \A s \in Export : s \in Seq(Object) /\ Len(s) > 0
\* A controller has one object of a type and a name in a tenant.
ASSUME NamesAreTenants ==
    \A s \in Export : \A i, j \in DOMAIN s :
        Id(s, i) = Id(s, j) /\ s[i].tenant = s[j].tenant => i = j
\* get_dependencies has no case for a tenant's own object.
ASSUME TenantsReferToNothing ==
    \A s \in Export : \A i \in DOMAIN s : s[i].key = "Tenant" => s[i].refs = {}
ASSUME OutagesAreOfTypes == Outage \subseteq SUBSET Key
ASSUME ChoicesAreOfThePage == \A k \in KeyChoice : k \subseteq PipelineKey
ASSUME MappingsAreNamed == Mapping \subseteq Tenant \X Vdom
ASSUME ExistingAreIds == Existing \subseteq BuiltKey \X Name
ASSUME EditsAreBounded == MaxEdits \in Nat

VARIABLES
    snap,       \* state/<env>/raw-snapshot.json
    man,        \* the manifest: the parts that choose objects
    job,        \* the request whose trace runs, with the filter it uses
    page,       \* what the import-scope page showed last
    disc,       \* discovery/<env>.json
    listed,     \* the ledger's unsupported items, <<object_type, name>>
    conf,       \* fortiadc/<env>-config.json
    there,      \* fortiadc/<env>-existing.json
    edits

vars == <<snap, man, job, page, disc, listed, conf, there, edits, seen, queue>>

Selection == [enabled : BOOLEAN, tenants : SUBSET (Tenant \cup {Shared}),
              vses : SUBSET Name]
ASSUME FiltersSelect == Filter \subseteq Selection
Everything == [enabled |-> FALSE, tenants |-> {}, vses |-> {}]

Idle == [op |-> "none", filter |-> Everything, subs |-> {}]

\* The names one object type goes by: in the deferrals that transform looks
\* up, in what a transformer flags, in the compatibility results as the commit
\* lists them, as a family of the discovery, and in what a collector flags.
DeferWord == [VirtualService |-> "virtualservice", Pool |-> "pool",
              HealthMonitor |-> "healthmonitor", SSLKeyAndCertificate |-> "ssl_certificate",
              SSLProfile |-> "ssl_profile", ApplicationPersistenceProfile |-> "persistence"]
FlagWord  == [VirtualService |-> "virtualservice", HealthMonitor |-> "healthmonitor",
              SSLKeyAndCertificate |-> "sslkeyandcertificate",
              ApplicationPersistenceProfile |-> "applicationpersistenceprofile"]
CompatWord == [VirtualService |-> "VIRTUALSERVICE", HealthMonitor |-> "HEALTHMONITOR",
               SSLKeyAndCertificate |-> "SSLKEYANDCERTIFICATE",
               ApplicationPersistenceProfile |-> "APPLICATIONPERSISTENCEPROFILE"]
Family    == [VirtualService |-> "virtual_services", Pool |-> "pools",
              HealthMonitor |-> "health_monitors", SSLKeyAndCertificate |-> "ssl_certificates",
              SSLProfile |-> "ssl_profiles", GslbService |-> "gslb_services",
              ApplicationPersistenceProfile |-> "persistence_profiles"]

CollectWord == [VirtualService |-> "VirtualService", GslbService |-> "GslbService",
                SSLKeyAndCertificate |-> "sslkeyandcertificate",
                ApplicationPersistenceProfile |-> "ApplicationPersistenceProfile"]

Word == UNION {Range(w) : w \in {DeferWord, FlagWord, CompatWord, Family, CollectWord}}
ASSUME DeferralsAreTyped == Deferral \subseteq Word \X Name

Manifest  == [filter : Selection, avail : SUBSET (Tenant \ {Admin}), keys : SUBSET Key,
              subs : SUBSET Selection, vmap : [Tenant -> Vdom \cup {None}],
              defer : SUBSET (Word \X Name)]
Discovery == [snap : Export, filter : Selection, keys : SUBSET Key,
              kept : SUBSET Nat, live : BOOLEAN]

ASSUME NoneIsNothing == None \notin Export \cup Vdom /\ None \notin Discovery

TypeOK ==
    /\ snap \in Export \cup {None}
    /\ man \in Manifest
    /\ job \in [op : {"none", "page", "commit"}, filter : Selection, subs : SUBSET Selection]
    /\ page = None \/ (page.snap \in Export /\ page.shown \subseteq DOMAIN page.snap)
    /\ disc = None \/ (disc \in Discovery /\ disc.kept \subseteq DOMAIN disc.snap)
    /\ listed \subseteq Word \X Name
    /\ conf = None \/ (/\ conf.snap \in Export
                       /\ conf.built \subseteq conf.kept
                       /\ conf.kept \subseteq DOMAIN conf.snap)
    /\ there \subseteq BuiltKey \X Name
    /\ edits \in 0..MaxEdits
    /\ seen \subseteq Key \X Name
    /\ queue \subseteq Nat

Init ==
    /\ snap = None /\ disc = None /\ conf = None /\ page = None
    /\ man = [filter |-> Everything, avail |-> {}, keys |-> {}, subs |-> {},
              vmap |-> [t \in Tenant |-> None], defer |-> {}]
    /\ job = Idle /\ seen = {} /\ queue = {}
    /\ listed = {} /\ there \in {{}, Existing} /\ edits = 0

noTrace == UNCHANGED <<job, disc, conf, listed, there, seen, queue>>

------------------------------------------------------------------------------
(* The manifest. *)

\* import_avi_config: tenants of types that are not shared by nature; they are
\* pre-selected if nobody selected any.  A new payload resets the decisions.
Stage(s) ==
    LET found == {s[i].tenant : i \in {i \in DOMAIN s :
                      s[i].key \notin GlobalKey \ {"GslbService"}}} \ {Admin} IN
    /\ job = Idle
    /\ edits' = IF snap = None THEN edits ELSE edits + 1
    /\ edits' <= MaxEdits
    /\ snap' = s /\ page' = None
    /\ man' = [man EXCEPT
                 !.avail = found,
                 !.filter.tenants = IF @ = {} THEN found ELSE @,
                 !.keys = IF s = snap THEN @ ELSE PipelineKey]
    /\ noTrace

\* The page is remembered while it shows the selection that is in force.
Edit(m) ==
    /\ job = Idle /\ edits < MaxEdits
    /\ edits' = edits + 1
    /\ man' = m
    /\ page' = IF page # None /\ page.filter = m.filter /\ page.keys = m.keys
               THEN page ELSE None
    /\ noTrace /\ UNCHANGED snap

\* What the form's check boxes can say: only tenants the manifest lists.
Offered(f) == [f EXCEPT !.tenants = @ \cap man.avail]
Selects(f) == f.tenants # {} \/ f.vses # {}
\* A selection turns the switch on.
Switched(f) == [f EXCEPT !.enabled = IF Selects(f) THEN TRUE ELSE @]

\* The page saves the form; it can never include a type outside the pipeline.
SavePage(f, k) ==
    /\ snap # None
    /\ \E g \in SUBSET (man.keys \cap {"GslbService"}) :
          Edit([man EXCEPT
                  !.filter = Switched(Offered(f)),
                  !.keys = k \cup g])

\* create_subtask: the selection also becomes the parent's, with the switch as
\* the form had it; the parent's next commit does not look at sub_tasks.
Subtask(f) ==
    /\ snap # None /\ Selects(Offered(f))
    /\ Edit([man EXCEPT !.filter = Offered(f), !.subs = @ \cup {Offered(f)}])

\* migrate.py decisions raw-set on the group that GslbService is in.
ShellIncludesGslb ==
    /\ snap # None /\ Edit([man EXCEPT !.keys = @ \cup {"GslbService"}])

\* api_vdom_strategies: a target is always stored.
MapTenant(t, d) == Edit([man EXCEPT !.vmap[t] = d])

\* The triage page offers what the ledger lists.
TriagePage(item) ==
    /\ item \in listed
    /\ Edit([man EXCEPT !.defer = @ \cup {item}])

\* migrate.py decisions set: the key is free text.
ShellDefers(item) == Edit([man EXCEPT !.defer = @ \cup {item}])

------------------------------------------------------------------------------
(* The page and the commit trace a selection. *)

\* The page traces when the switch is on, the commit when there is something
\* to trace; each from its own roots.
PageRoots(f) == IF f.enabled THEN Roots(snap, f) ELSE {}
Filtered(f)  == (f.enabled /\ f.tenants # {}) \/ f.vses # {}
JobRoots(op, f) ==
    CASE op = "page"   -> PageRoots(f)
      [] op = "commit" -> IF Filtered(f) THEN CommitRoots(snap, f) ELSE {}

Start(op, f, subs) ==
    /\ job = Idle /\ snap # None
    /\ job' = [op |-> op, filter |-> f, subs |-> subs]
    /\ StartTrace(snap, JobRoots(op, f))
    /\ UNCHANGED <<snap, man, page, disc, listed, conf, there, edits>>

ShowPage   == Start("page", man.filter, man.subs)
\* decisions_scope_impact_api: the posted selection, and no sub-tasks.
Preview(f) == Start("page", Switched(f), {})
Commit     == Start("commit", man.filter, man.subs)

\* One order: the set that a trace ends with is the same for every order.
Trace ==
    /\ job # Idle
    /\ \E i \in queue : (\A j \in queue : i <= j) /\ Visit(snap, i)
    /\ UNCHANGED <<snap, man, job, page, disc, listed, conf, there, edits>>

\* The live decision on a type: with the switch on, types of the pipeline are
\* in if one of their objects was traced, whatever was decided about them.
Live(k) ==
    IF job.filter.enabled
    THEN /\ \E i \in DOMAIN snap : snap[i].key = k /\ Id(snap, i) \in seen
         /\ k \in PipelineKey \cup man.keys
    ELSE k \in man.keys

\* The table has a row for a tenant that owns something not shared by nature
\* or uses something that is, and a column for these types.
HasRow(t) ==
    \E i \in DOMAIN snap :
        \/ snap[i].tenant = t /\ (t = Admin \/ snap[i].key \notin GlobalKey)
        \/ /\ snap[i].tenant = Admin \/ snap[i].key \in GlobalKey
           /\ t \in Consumers(snap, i)
Column == Key \ {"SSLProfile", "HTTPPolicySet", "Tenant"}

\* Fault of Listed: nothing is listed under "Global / Shared".
ListedInOwnRow(i) == snap[i].tenant # Admin /\ HasRow(snap[i].tenant)

Listed(i) == HasRow(snap[i].tenant)

Delegated(i) ==
    \E f \in job.subs :
        \/ snap[i].key = "VirtualService" /\ snap[i].name \in f.vses
        \/ snap[i].tenant \in f.tenants /\ f.vses = {}

FinishPage ==
    /\ job.op = "page" /\ queue = {}
    /\ LET in == {i \in DOMAIN snap : /\ snap[i].key \in Column /\ Live(snap[i].key)
                                      /\ Listed(i)}
           delegated == {i \in in : Delegated(i)}
       IN  page' = [snap |-> snap, filter |-> job.filter, keys |-> man.keys,
                    shown |-> in \ delegated, delegated |-> delegated]
    /\ job' = Idle /\ seen' = {}
    /\ UNCHANGED <<snap, man, disc, listed, conf, there, edits, queue>>

\* _build_candidate_discovery_from_raw_and_decisions: by name, in any tenant.
Kept ==
    {i \in DOMAIN snap : /\ snap[i].key \in man.keys
                         /\ Filtered(job.filter) => Id(snap, i) \in seen}

Of(k, S, s) == {i \in S : s[i].key = k}

\* build_dependency_graph: one profile for a name, of the last service that has
\* it; a script or a certificate that cannot be exported blocks it.
Profiled(s, kept) ==
    LET vs == Of("VirtualService", kept, s)
    IN  {i \in vs : \A j \in vs : s[j].name = s[i].name => j <= i}
Blocked(s, kept) ==
    {i \in Profiled(s, kept) :
        ~s[i].ok \/ \E j \in Of("SSLKeyAndCertificate", kept, s) :
                        ~s[j].ok /\ Id(s, j) \in s[i].refs}

\* analyse_compatibility: what is MANUAL or BLOCKED.
Refused(s, kept) ==
    Blocked(s, kept)
    \cup {i \in kept : ~s[i].ok /\ s[i].key \in DOMAIN CompatWord \ {"VirtualService"}}

\* detect_patterns: scripts and certificates (P01, P02), pools without a
\* monitor (P03), GSLB (P07), monitors that are scripts (P10).
Patterns(s, kept) ==
    Of("GslbService", kept, s)
    \cup {i \in Profiled(s, kept) : ~s[i].ok}
    \cup {i \in kept : ~s[i].ok /\ s[i].key \in {"SSLKeyAndCertificate", "HealthMonitor"}}
    \cup {i \in Of("Pool", kept, s) : \A r \in s[i].refs : r[1] # "HealthMonitor"}

\* What the commit lists in the ledger, each under its own kind of word.
Analysis(s, kept) ==
    {<<CompatWord[s[i].key], s[i].name>> : i \in Refused(s, kept)}
    \cup {<<Family[s[i].key], s[i].name>> : i \in Patterns(s, kept)}

\* Fault of Replaced: the configuration stays.
ReplacedButConf == man' = [man EXCEPT !.defer = {}] /\ UNCHANGED conf

\* A commit over an earlier one resets the triage and removes the
\* configuration that was made from it.
Replaced == man' = [man EXCEPT !.defer = {}] /\ conf' = None

FinishCommit ==
    /\ job.op = "commit" /\ queue = {}
    /\ IF disc = None THEN UNCHANGED <<man, conf>> ELSE Replaced
    /\ disc' = [snap |-> snap, filter |-> job.filter, keys |-> man.keys, kept |-> Kept,
                live |-> FALSE]
    /\ listed' = Analysis(snap, Kept)
    /\ job' = Idle /\ seen' = {}
    /\ UNCHANGED <<snap, page, there, edits, queue>>

\* COLLECTORS: the class for health monitors is in none of its entries.
CollectedKey == Key \ {"HealthMonitor"}

\* BaseCollector.collect: a list that cannot be read is an empty one, for the
\* types that run_all_collectors marks as required as well.
ListOf(s, k, lost) == IF k \in lost THEN {} ELSE Of(k, DOMAIN s, s)

\* run_all_collectors
CollectedFrom(s, lost) == UNION {ListOf(s, k, lost) : k \in CollectedKey}

\* What the collectors report as MANUAL or CRITICAL: services with scripts,
\* keys in a hardware module, kinds of persistence, every GSLB service.
ServiceFlagged(o)     == o.key = "VirtualService" /\ ~o.ok
CertificateFlagged(o) == o.key = "SSLKeyAndCertificate" /\ ~o.ok
PersistenceFlagged(o) == o.key = "ApplicationPersistenceProfile" /\ ~o.ok
GslbFlagged(o)        == o.key = "GslbService"

Flagged(o) == \/ ServiceFlagged(o) \/ CertificateFlagged(o)
              \/ PersistenceFlagged(o) \/ GslbFlagged(o)

\* migrate.py discover: all that the controller lists, straight to the file; it
\* ends well whatever lists are missing.
ShellDiscovers(s, lost) ==
    LET got == CollectedFrom(s, lost) IN
    /\ job = Idle
    /\ disc' = [snap |-> s, filter |-> Everything, keys |-> Key, kept |-> got, live |-> TRUE]
    /\ listed' = listed \cup {<<CollectWord[s[i].key], s[i].name>> : i \in {i \in got : Flagged(s[i])}}
    /\ UNCHANGED <<snap, man, job, page, conf, there, edits, seen, queue>>

------------------------------------------------------------------------------
(* Transform and its review. *)

Deferred(o) == <<DeferWord[o.key], o.name>> \in man.defer

VdomOf(t) == IF man.vmap[t] # None THEN man.vmap[t] ELSE IF t = Admin THEN Root ELSE t

Sections(s, kept) == {i \in kept : s[i].key \in BuiltKey}

\* The transformers: what each of them returns a payload for.
PoolTranslates(o)       == o.key = "Pool"
MonitorTranslates(o)    == o.key = "HealthMonitor" /\ o.ok
CertTranslates(o)       == o.key = "SSLKeyAndCertificate" /\ o.ok
VsTranslates(o)         == o.key = "VirtualService" /\ o.ok
PersistTranslates(o)    == o.key = "ApplicationPersistenceProfile" /\ o.ok
SSLProfileTranslates(o) == o.key = "SSLProfile"

Translates(o) == \/ PoolTranslates(o) \/ MonitorTranslates(o) \/ CertTranslates(o)
                 \/ VsTranslates(o) \/ PersistTranslates(o) \/ SSLProfileTranslates(o)

\* The step that adapts names to those at the target fails when there is one.
Transform ==
    LET s     == disc.snap
        taken == {i \in Sections(s, disc.kept) : ~Deferred(s[i])}
        good  == {i \in taken : Translates(s[i])}
    IN
    /\ job = Idle /\ disc # None
    /\ \A i \in good : Id(s, i) \notin there
    /\ conf' = [snap |-> s, kept |-> disc.kept, vmap |-> man.vmap, defer |-> man.defer,
                built |-> good, vdom |-> [i \in good |-> VdomOf(s[i].tenant)]]
    /\ listed' = listed \cup {<<FlagWord[s[i].key], s[i].name>> : i \in taken \ good}
    /\ UNCHANGED <<snap, man, job, page, disc, there, edits, seen, queue>>

\* _build_transform_review: how many were generated, how many were expected;
\* of the virtual services only those that can be translated are expected.
Expected(k)  == {i \in Of(k, disc.kept, disc.snap) : k = "VirtualService" => disc.snap[i].ok}
Generated(k) == Of(k, conf.built, conf.snap)
Ready(k) ==
    /\ Generated(k) # {}
    /\ Cardinality(Generated(k)) >= Cardinality(Expected(k))

\* get_transform_mapping_review: the VDOM it expects a tenant in.
\* Fault of ReviewVdom: tenants that are not mapped are looked for in root.
ReviewVdomRoot(t) == IF man.vmap[t] # None THEN man.vmap[t] ELSE Root

ReviewVdom(t) ==
    IF man.vmap[t] # None THEN man.vmap[t] ELSE IF t = Admin THEN Shared ELSE t

\* Names that it reports for tenants that go to one VDOM.
Collisions ==
    LET vs == Of("VirtualService", disc.kept, disc.snap) IN
    {c \in vs \X vs :
        /\ disc.snap[c[1]].tenant # disc.snap[c[2]].tenant
        /\ disc.snap[c[1]].name = disc.snap[c[2]].name
        /\ ReviewVdom(disc.snap[c[1]].tenant) = ReviewVdom(disc.snap[c[2]].tenant)}

------------------------------------------------------------------------------
Next ==
    \/ \E s \in Export : Stage(s)
    \/ \E s \in Collected, lost \in Outage : ShellDiscovers(s, lost)
    \/ \E f \in Filter : Preview(f) \/ Subtask(f) \/ \E k \in KeyChoice : SavePage(f, k)
    \/ ShellIncludesGslb
    \/ \E m \in Mapping : MapTenant(m[1], m[2])
    \/ \E item \in listed : TriagePage(item)
    \/ \E item \in Deferral : ShellDefers(item)
    \/ ShowPage \/ Commit \/ Trace \/ FinishPage \/ FinishCommit
    \/ Transform

Spec == Init /\ [][Next]_vars

------------------------------------------------------------------------------
\* When a trace has run, what it found is the least set that has the selected
\* objects and everything they refer to, transitively: it neither stops
\* early nor lets in an object that nobody needs.
TraceIsClosure ==
    job # Idle /\ queue = {} => LeastClosed(snap, JobRoots(job.op, job.filter), seen)

\* A trace looks at a name once, however many objects refer to it: each turn
\* leaves fewer to take, and a trace begins with no more to take than the export
\* has names.  (get_dependencies has no circle of types; none would matter.)
TurnsLeft == Cardinality(queue) + Cardinality(Ids(snap) \ seen)

TraceGetsOn ==
    [][/\ Trace => TurnsLeft' < TurnsLeft
       /\ job = Idle /\ job' # Idle => TurnsLeft' <= Cardinality(Ids(snap))]_vars

\* The page and the commit do the trace in two pieces of code.  For one
\* selection, whatever the commit keeps of the types that have a column, the
\* page showed as included or as left to a sub-task (the commit keeps those
\* too), except objects of tenants that own nothing but certificates and the
\* like, which have no row.
KeptIsShown ==
    (/\ disc # None /\ page # None
     /\ disc.snap = page.snap /\ disc.filter = page.filter /\ disc.keys = page.keys
     /\ Filtered(disc.filter) \/ ~disc.filter.enabled)
    => \A i \in {i \in disc.kept : disc.snap[i].key \in Column} :
          \/ i \in page.shown \cup page.delegated
          \/ /\ disc.snap[i].key \in GlobalKey
             /\ \A j \in DOMAIN disc.snap :
                   disc.snap[j].tenant = disc.snap[i].tenant => disc.snap[j].key \in GlobalKey

\* A section that the review calls ready has every object of the committed
\* scope that can be translated: the review counts two files, and they are of
\* one scope unless the discovery was collected anew behind the pages' back.
ReadyMeansComplete ==
    conf # None /\ ~disc.live =>
        \A k \in BuiltKey : Ready(k) =>
            \A i \in Of(k, disc.kept, disc.snap) : Translates(disc.snap[i]) =>
                conf.snap = disc.snap /\ i \in conf.built

\* Two virtual servers that were built for one VDOM under one name were
\* reported as a collision before, except when what is shared stays in root
\* without a mapping and another tenant is mapped there: the review keeps it
\* under its own heading.
VsClashIsShown ==
    conf # None /\ conf.snap = disc.snap /\ conf.kept = disc.kept /\ conf.vmap = man.vmap =>
        \A i, j \in Of("VirtualService", conf.built, conf.snap) :
            (/\ i # j /\ conf.snap[i].name = conf.snap[j].name
             /\ conf.vdom[i] = conf.vdom[j])
            => \/ <<i, j>> \in Collisions
               \/ /\ conf.vdom[i] = Root
                  /\ \E t \in {conf.snap[i].tenant, conf.snap[j].tenant} :
                        t = Admin /\ man.vmap[t] = None

\* OPERATIONAL-GLOSSARY.md:13 says of an object that was deferred on the triage
\* page: "No FortiADC configuration is generated for this object".  (The words
\* under which the page lists objects are not those that transform looks up.)
DeferredIsLeftOut ==
    conf # None =>
        \A i \in conf.built : \A words \in {DeferWord, FlagWord, CompatWord, Family} :
            LET o == conf.snap[i] IN
            o.key \in DOMAIN words => <<words[o.key], o.name>> \notin conf.defer
==============================================================================
