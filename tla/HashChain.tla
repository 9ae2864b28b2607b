------------------------------ MODULE HashChain ------------------------------
(***************************************************************************)
(* The tamper-evident log of core/audit_export.py.  A line of the log is   *)
(* an event, known by its body, with the fields chain_log_file gave it.    *)
(*                                                                         *)
(* SHA-256 is taken as injective, so a hash is what it was made from.      *)
(* chain_log_file leaves prev_hash out of what it hashes but not the       *)
(* entry_hash of an earlier chaining: a hash is the bodies the line had at *)
(* each chaining.  verify_chain leaves both fields out.                    *)
(***************************************************************************)
EXTENDS Naturals, Sequences

CONSTANT Body

Hash    == Seq(Body)
Genesis == << >>        \* "0" * 64, which no line hashes to

\* hash: entry_hash, or nothing for a line that was never chained.
Line == [body : Body, hash : Hash, prev : Hash]

Fresh(b)    == [body |-> b, hash |-> << >>, prev |-> Genesis]
Computed(l) == <<l.body>>                               \* by verify_chain
Rehashed(l) == [l EXCEPT !.hash = Append(l.hash, l.body)]

Chain(log) ==
    [i \in DOMAIN log |->
        [Rehashed(log[i]) EXCEPT !.prev = IF i = 1 THEN Genesis ELSE Rehashed(log[i - 1]).hash]]

\* A chain is looked for in the first line only.  A line without an entry_hash
\* stands for itself in the link of the next, and has no prev_hash to compare.
Link(l)   == IF l.hash = << >> THEN Computed(l) ELSE l.hash
Intact(l) == l.hash = Computed(l)

\* Fault of Verify: the links are not compared.
VerifyLines(log) == log = << >> \/ \A i \in DOMAIN log : Intact(log[i])

Verify(log) ==
    \/ log = << >>
    \/ /\ log[1].hash # << >>
       /\ \A i \in DOMAIN log :
             /\ Intact(log[i])
             /\ log[i].prev = IF i = 1 THEN Genesis ELSE Link(log[i - 1])

\* Somebody edits a line, or takes one out, and leaves the hashes as they are.
Edited(log, i, b) == [log EXCEPT ![i] = [@ EXCEPT !.body = b]]
Without(log, i)   == [j \in 1..(Len(log) - 1) |-> log[IF j < i THEN j ELSE j + 1]]
Tampered(log)     == {Without(log, i) : i \in DOMAIN log}
                     \cup {Edited(log, i, b) : i \in DOMAIN log, b \in Body}
=============================================================================
