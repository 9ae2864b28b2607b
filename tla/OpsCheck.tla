------------------------------ MODULE OpsCheck ------------------------------
(***************************************************************************)
(* migrate.py ops-check (core/ops_automation.py): a read-only check of a   *)
(* deployed environment that is run by hand or by cron and says whether    *)
(* somebody must act.  It keeps one file between checks,                   *)
(* state/health-history.json, the last share of healthy members of every   *)
(* virtual server by name, whatever environment the server is in.          *)
(*                                                                         *)
(* Shares are fractions up/total and are compared by cross-multiplication; *)
(* the fractions that matter, 1/4, 1/2 and 3/4, are exact in floating      *)
(* point, and rounding keeps the order of the others.                      *)
(***************************************************************************)
EXTENDS Integers

CONSTANTS
    Reading,        \* <<up, total>>: what a pool can answer
    Gone,           \* the pool cannot be read, or has no members
    Load,           \* peak use of the appliance, in per cent
    Member          \* addresses of members of a pool

ASSUME ReadingsAreShares ==
    /\ Gone \notin Reading
    /\ \A r \in Reading : r \in Nat \X (Nat \ {0}) /\ r[1] <= r[2]
ASSUME LoadsArePercentages == Load \subseteq Nat

VARIABLES
    health,         \* health-history.json for a virtual server of that name
    report          \* the last report: ops-check.json

opsVars == <<health, report>>

Risk == {"GREEN", "AMBER", "RED"}
\* With the members that the discovery named and the appliance was found to have.
NoReport == [checked |-> FALSE, signal |-> Gone, risk |-> "GREEN", capacity |-> "GREEN",
             named |-> {}, found |-> {}, differs |-> FALSE, action |-> FALSE]

OpsTypeOK ==
    /\ health \in Reading \cup {Gone}
    /\ report.signal \in Reading \cup {Gone}
    /\ report.risk \in Risk /\ report.capacity \in Risk
    /\ report.named \subseteq Member /\ report.found \subseteq Member
    /\ {report.checked, report.differs, report.action} \subseteq BOOLEAN

OpsInit == health = Gone /\ report = NoReport

------------------------------------------------------------------------------
\* r[1] / r[2] < n / 4
Below(r, n) == 4 * r[1] < n * r[2]

\* r[1] / r[2] - p[1] / p[2] < -1 / 4
Falls(r, p) == 4 * (r[1] * p[2] - p[1] * r[2]) < -(r[2] * p[2])

\* _check_vs: the verdict on a reading r after the reading p.  (No share is above
\* 1, so one of three quarters never falls by more than a quarter.)
HealthRisk(r, p) ==
    IF Below(r, 2) THEN "RED"
    ELSE IF Below(r, 3) \/ Falls(r, p) THEN "AMBER" ELSE "GREEN"

\* CapacityAdvisor.assess: the largest of the three uses, or that of the
\* virtual servers alone if the appliance does not say.
CapacityRisk(load) == IF load >= 85 THEN "RED" ELSE IF load >= 70 THEN "AMBER" ELSE "GREEN"

\* PoolSyncAdvisor.compare, one pool: the members that the discovery on file
\* names (none if there is no such file, or no such pool in it or in the
\* configuration) and those of the appliance (none if it cannot be read).
\* Fault of PoolDrifts: a pool that cannot be read is passed over.
SkipsTheUnread(named, found) == found # {} /\ named # found

PoolDrifts(named, found) == named # found

\* DriftGuard.run, run_config_diff: an object that cannot be read is missing.
ConfigDiffers(answer) == answer # "same"

\* run_ops_check.  Three advisors read the pool, each for itself, and each goes
\* on when it cannot.  A virtual server without a reading gives no signal: it is
\* in no alert, and its history stays.  Differences of the configuration do not
\* count for action_required.
OpsCheck(reading, load, named, found, answer) ==
    LET prev == IF health = Gone THEN reading ELSE health
        risk == IF reading = Gone THEN "GREEN" ELSE HealthRisk(reading, prev) IN
    /\ health' = IF reading = Gone THEN health ELSE reading
    /\ report' = [checked  |-> TRUE,
                  signal   |-> reading,
                  risk     |-> risk,
                  capacity |-> CapacityRisk(load),
                  named    |-> named,
                  found    |-> found,
                  differs  |-> ConfigDiffers(answer),
                  action   |-> \/ risk # "GREEN" \/ CapacityRisk(load) # "GREEN"
                               \/ PoolDrifts(named, found)]

------------------------------------------------------------------------------
\* "No action required" is not the answer of a check that saw nothing.  Each of
\* its readings of a pool may fail by itself, and none says so; but if three
\* quarters of the members were not seen up, then the members that the discovery
\* names were all seen in place, or it names none.
AllClearIsSeen ==
    report.checked /\ ~report.action =>
        IF report.signal # Gone THEN ~Below(report.signal, 3)
        ELSE report.found # {} \/ report.named = {}
=============================================================================
