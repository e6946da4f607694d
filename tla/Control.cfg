SPECIFICATION FairControl
CONSTANTS
    MaxTtl = 2
    MaxEarly = 1
    MaxGeneration = 2
    MaxTime = 6
    MaxQueue = 2
    MaxLaunches = 3
    MaxCrashes = 1
    MaxCloseFailures = 1
    i1 = i1
    t1 = t1
    Ids = {i1}
    Profiles = {p1}
    Tenants = {t1}
    None = None
    Requests <- MCPlain
    MaxSessions = 1
    MaxClosed = 2
    SessionTtl = 2
    WorkspaceTtl = 1
    HandoffTtl = 1
    MaxClock = 3
INVARIANTS
    LeaseCoherent
    AgentNeedsConsent
    SingleWriterUnlessCrash
    SessionSettled
PROPERTIES
    LeaseTimely
    HandoffEnds
    OwnershipSpec
    PauseNeedsHuman
    StopTerminates
    ResourcesReturned
CHECK_DEADLOCK FALSE
