---------------------------- MODULE MCTranslation ----------------------------
(***************************************************************************)
(* Translation for TLC: two tenants and what they share.  In the first     *)
(* export two tenants own objects of the same names; in the second a       *)
(* tenant uses shared objects, and some objects cannot be translated.      *)
(***************************************************************************)
EXTENDS Translation

O(k, n, t, r, good) == [key |-> k, name |-> n, tenant |-> t, refs |-> r, ok |-> good]
F(e, t, v)          == [enabled |-> e, tenants |-> t, vses |-> v]
Vs == "VirtualService"
Hm == "HealthMonitor"
Cert == "SSLKeyAndCertificate"
Sticky == "ApplicationPersistenceProfile"

TwoOwners == <<O(Vs, "v", "A", {<<"Pool", "p">>}, TRUE),
               O(Vs, "v", "B", {<<"Pool", "p">>, <<Cert, "c">>}, TRUE),
               O("Pool", "p", "A", {<<Hm, "h">>}, TRUE),
               O("Pool", "p", "B", {}, TRUE),
               O(Hm, "h", "admin", {}, TRUE),
               O("GslbService", "g", "admin", {<<Vs, "v">>}, TRUE),
               O(Cert, "c", "C", {}, FALSE)>>
Sharing   == <<O(Vs, "v", "A", {<<"Pool", "p">>, <<"HttpPolicySet", "c">>}, TRUE),
               O(Vs, "v", "admin", {<<"Pool", "p">>}, FALSE),
               O("Pool", "p", "admin", {<<Hm, "h">>, <<Sticky, "c">>}, TRUE),
               O(Hm, "h", "B", {}, FALSE),
               O("HTTPPolicySet", "c", "A", {}, TRUE),
               O(Sticky, "c", "admin", {}, FALSE),
               O("Tenant", "A", "admin", {}, TRUE)>>

MCExport  == {TwoOwners, Sharing}
MCCollected == {Sharing}
MCOutage  == {{"Pool"}}
MCFilter  == {F(TRUE, {"A"}, {}), F(TRUE, {Shared}, {}),
              F(FALSE, {}, {"v"}), F(TRUE, {}, {})}
MCKeys    == {PipelineKey, PipelineKey \ {"Pool"}}
MCMapping == {<<"A", "B">>, <<"B", "root">>, <<"admin", "A">>}
MCDeferral == {<<"virtualservice", "v">>, <<"pool", "p">>}
MCExisting == {<<"HealthMonitor", "h">>}
=============================================================================
