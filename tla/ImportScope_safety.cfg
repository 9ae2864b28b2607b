CONSTANTS
    Env = {"dc-eu", "dc_eu", "dc-eu-sub"}
    Extends <- SubTask
    Gate = {"triage", "transform", "deploy"}
    Content = {c1, c2}
    InUse = {"dc-eu", "dc_eu"}
    Worked = {"dc-eu"}
    None = None
    Unseen = Unseen
    Canonical <- ReadNames
    Budget = 3
    MaxSaved = 1
SPECIFICATION Spec
INVARIANTS
    TypeOK
    SignaturesFollowDiscovery
    ShownIsCurrent
    TriageListIsCurrent
    KeysAreAboutTheSnapshot
PROPERTIES
    DeployedAsSigned
    DeletedIsGone
SYMMETRY AnyContent
CHECK_DEADLOCK FALSE
