\* Two requests in progress at a time, three in all; one user may sign.
CONSTANTS
    Thread = {t1, t2}
    User = {operator, approver}
    Approver = {approver}
    NoUser = NoUser
    MaxRequests = 3
SPECIFICATION Spec
SYMMETRY AnyThread
INVARIANTS
    TypeOK
    FourEyes
    GatesWereOpened
    LoggedFirst
PROPERTY ImplementsBoard
CHECK_DEADLOCK FALSE
