\* Three processes: a holder, a challenger and the bystander that a wrong
\* release would let in.
CONSTANTS
    Proc = {p1, p2, p3}
    NoProc = NoProc
SPECIFICATION FairSpec
INVARIANTS
    ExclusiveWhenQuiet
    PhaseIsCovered
PROPERTIES
    ImplementsMutex
    DeadOwnerGivesWay
