------------------------------ MODULE AviGraph ------------------------------
(***************************************************************************)
(* An export of the Avi controller as core/resolver.py sees it, and the    *)
(* tables by which the tool sorts its objects.  An export is a sequence of *)
(* objects, in the order of the file.  Objects refer to each other by type *)
(* and name; the tenant that a reference also names is not looked at.      *)
(***************************************************************************)
EXTENDS Naturals, Sequences

CONSTANTS Name, Tenant,     \* a tenant's own object has the tenant's name
          Admin,            \* the tenant that owns what is shared
          Shared            \* "Global / Shared", the page's word for it

ASSUME TenantsAreNamed == Admin \in Tenant /\ Shared \notin Tenant

\* The types that matter here; RAW_TO_DISCOVERY_MAP has 27.
Key == {"VirtualService", "Pool", "HealthMonitor", "SSLKeyAndCertificate", "SSLProfile",
        "ApplicationPersistenceProfile", "GslbService", "HTTPPolicySet", "Tenant"}

\* A virtual service's policy set is looked up under a type of another spelling.
RefKey == (Key \ {"HTTPPolicySet", "Tenant"}) \cup {"HttpPolicySet"}

\* Types shared by their nature, GLOBAL_KEY_PREFIXES.
GlobalKey == {"SSLKeyAndCertificate", "SSLProfile", "ApplicationPersistenceProfile",
              "GslbService"}

\* classify_raw_keys: types of the group "pipeline", included by default.
PipelineKey == Key \ {"GslbService"}

\* What transform has a section for.
BuiltKey == Key \ {"GslbService", "HTTPPolicySet", "Tenant"}

\* ok: FortiADC has its like (no DataScript, a known type, an exportable key).
Object == [key : Key, name : Name, tenant : Tenant,
           refs : SUBSET (RefKey \X Name), ok : BOOLEAN]

Id(s, i)    == <<s[i].key, s[i].name>>
Ids(s)      == {Id(s, i) : i \in DOMAIN s}
Named(s, r) == {i \in DOMAIN s : Id(s, i) = r}

\* get_by_name without a tenant.
First(s, r) == CHOOSE i \in Named(s, r) : \A j \in Named(s, r) : i <= j

\* get_dependencies, of those that are in the export.
Needs(s, i) == s[i].refs \cap Ids(s)

\* get_shared_usage: other tenants with a virtual service that refers to an
\* object of the admin tenant, or that a GSLB service of it refers to.
Consumers(s, i) ==
    LET r == Id(s, i)
        users == {j \in DOMAIN s : s[j].key = "VirtualService" /\ r \in s[j].refs}
                 \cup {First(s, q) : q \in {q \in Needs(s, i) :
                            s[i].key = "GslbService" /\ q[1] = "VirtualService"}}
    IN  IF s[First(s, r)].tenant = Admin THEN {s[j].tenant : j \in users} \ {Admin} ELSE {}

\* Objects a selection of tenants and virtual services starts from.
\* f is a tenant_filter: [enabled, tenants, vses].
Roots(s, f) ==
    {i \in DOMAIN s :
        \/ s[i].tenant \in f.tenants
        \/ Shared \in f.tenants /\ (s[i].tenant = Admin \/ s[i].key \in GlobalKey)
        \/ s[i].key = "VirtualService" /\ s[i].name \in f.vses}

\* The commit also starts from the selected tenants' own objects.
CommitRoots(s, f) ==
    Roots(s, f) \cup {i \in DOMAIN s : s[i].key = "Tenant" /\ s[i].name \in f.tenants}
=============================================================================
