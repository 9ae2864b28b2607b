SPECIFICATION Spec
CONSTANTS
    Op = {o1, o2}
    Obj = {"pool", "vs"}
    Section <- MCSection
    Sections = 2
    Needs <- MCNeeds
    Home = {"pool", "vs"}
    Version = {"v1", "v2"}
    Content <- MCContent
    None = None
    Torn = Torn
    MaxRuns = 2
    MaxMeddling = 0
    MaxChains = 0
SYMMETRY Symmetry
INVARIANTS
    TypeOK
    WritersAreOnRecord
PROPERTIES
    DeploysAsOne
CHECK_DEADLOCK FALSE
