----------------------------- MODULE ScopeTrace -----------------------------
(***************************************************************************)
(* The worklist that the import-scope page and the commit both run over an *)
(* export: from the selected objects along their references.  Objects are  *)
(* remembered by type and name; of several with one name a selected one is *)
(* followed if there is one, and else the first.                           *)
(***************************************************************************)
EXTENDS AviGraph

VARIABLES seen,     \* to_include, or seen: pairs of type and name
          queue     \* indices of objects to look at

\* Of objects with one name, the one that is looked at.
Stand(s, R, r) ==
    IF \E i \in R : Id(s, i) = r
    THEN CHOOSE i \in R : Id(s, i) = r /\ \A j \in R : Id(s, j) = r => i <= j
    ELSE First(s, r)

RootIds(s, R) == {Id(s, i) : i \in R}

StartTrace(s, R) ==
    /\ seen' = RootIds(s, R)
    /\ queue' = {Stand(s, R, r) : r \in RootIds(s, R)}

\* Fault of Visit: one level of references only.
VisitShallow(s, i) ==
    /\ i \in queue /\ queue' = queue \ {i}
    /\ seen' = seen \cup Needs(s, i)

\* Fault of Visit: what is referred to is looked at, seen or not.
VisitAgain(s, i) ==
    /\ i \in queue
    /\ seen' = seen \cup Needs(s, i)
    /\ queue' = (queue \ {i}) \cup {First(s, r) : r \in Needs(s, i)}

Visit(s, i) ==
    LET new == Needs(s, i) \ seen IN
    /\ i \in queue
    /\ seen' = seen \cup new
    /\ queue' = (queue \ {i}) \cup {First(s, r) : r \in new}

\* The reference: the least set that has the roots and, with an object, what
\* the object refers to.
Closed(s, R, C) ==
    /\ RootIds(s, R) \subseteq C
    /\ \A r \in C : Needs(s, Stand(s, R, r)) \subseteq C

LeastClosed(s, R, C) ==
    /\ Closed(s, R, C)
    /\ \A D \in SUBSET Ids(s) : Closed(s, R, D) => C \subseteq D
=============================================================================
