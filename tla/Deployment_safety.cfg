SPECIFICATION Spec
CONSTANTS
    Op = {o1, o2}
    Obj = {"pool", "member", "vs", "far"}
    Section <- MCSection
    Sections = 3
    Needs <- MCNeeds
    Home = {"pool", "member", "vs"}
    Version = {"v1", "v2"}
    Content <- MCContent
    None = None
    Torn = Torn
    MaxRuns = 2
    MaxMeddling = 1
    MaxChains = 1
SYMMETRY Symmetry
INVARIANTS
    NothingDangles
    CleanDoneIsDeployed
    TamperingShows
PROPERTIES
    OnlyExecuteWrites
    ExistingServersSurvive
CHECK_DEADLOCK FALSE
