SPECIFICATION Spec
CONSTANTS
    Env = {e1, e2}
    Operator = {o1, o2}
    NoEnv = NoEnv
    DaysNeeded = 1
    MaxSessions = 3
    MaxRuns = 6
    MaxDeletes = 1
    Reading <- MCReading
    Gone = Gone
    Load = {60, 85}
    Member = {"m"}
SYMMETRY Symmetry
INVARIANTS
    TypeOK
    WorkIsInOrder
    RecordIsEarned
    AllClearIsSeen
CHECK_DEADLOCK FALSE
