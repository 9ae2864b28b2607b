SPECIFICATION Spec
CONSTANTS
    Name = {"v", "p", "h", "g", "c", "A"}
    Tenant = {"A", "B", "C", "admin"}
    Admin = "admin"
    Shared = "Global / Shared"
    Root = "root"
    None = None
    Export <- MCExport
    Collected <- MCCollected
    Outage <- MCOutage
    Filter <- MCFilter
    KeyChoice <- MCKeys
    Mapping <- MCMapping
    Deferral <- MCDeferral
    Existing <- MCExisting
    MaxEdits = 2
INVARIANTS
    TraceIsClosure
    KeptIsShown
    ReadyMeansComplete
    VsClashIsShown
PROPERTIES
    TraceGetsOn
CHECK_DEADLOCK FALSE
