----------------------------- MODULE StateLedger -----------------------------
(***************************************************************************)
(* core/state_ledger.py: the contents of one environment's ledger and what *)
(* each mutator does to the copy a StateLedger object holds in memory.     *)
(* Every mutator ends in _save(), which writes the whole copy to disk; the *)
(* saving is modelled by the modules that use these operators.             *)
(*                                                                         *)
(* The audit list is kept as the set of its entries, without times, since  *)
(* the properties ask only whether an entry is still there.                *)
(***************************************************************************)
CONSTANT Phase      \* the phases of the pipeline

Status == {"pending", "running", "done", "failed"}

\* _load() of a missing or unparsable file.
NewLedger == [
    status      |-> [ph \in Phase |-> "pending"],
    unsupported |-> {},
    audit       |-> {}
]

Audited(who, phase, action) == [by |-> who, phase |-> phase, action |-> action]

\* Set a phase's status and append the audit event for it.
Mark(l, who, phase, s, action) ==
    [status      |-> [l.status EXCEPT ![phase] = s],
     unsupported |-> l.unsupported,
     audit       |-> l.audit \cup {Audited(who, phase, action)}]

PhaseStart(l, who, phase)  == Mark(l, who, phase, "running", "phase_start")
PhaseDone(l, who, phase)   == Mark(l, who, phase, "done", "phase_done")
PhaseFailed(l, who, phase) == Mark(l, who, phase, "failed", "phase_failed")

\* Deduplicated by type and name; the event is filed under "transform"
\* whichever phase found the item.
AddUnsupported(l, who, item) ==
    IF item \in l.unsupported THEN l
    ELSE [status      |-> l.status,
          unsupported |-> l.unsupported \cup {item},
          audit       |-> l.audit \cup {Audited(who, "transform", "unsupported_item")}]
=============================================================================
