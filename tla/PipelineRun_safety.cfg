\* Two console requests (the second may repeat the first) and a shell command,
\* two launches: two runs overlapping at any point, or one after the other.
CONSTANTS
    Req = {r1, r2}
    Cli = {c1}
    NoProc = NoProc
    Dead = Dead
    Phase = {"analyse", "deploy"}
    MaxLaunches = 2
SPECIFICATION FairSpec
INVARIANTS
    TypeOK
    DoneIsEarned
    HolderIsDeploying
PROPERTIES
    ImplementsPhaseTable
    RequestsEnd
CHECK_DEADLOCK FALSE
