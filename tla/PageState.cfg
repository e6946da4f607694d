SPECIFICATION FairPageSpec
CONSTANTS
    None = None
    MaxTabs = 3
    MaxRefs = 2
    MaxSnapshots = 2
    MaxBytes = 5
    MaxSnapshotBytes = 3
    MaxNodes = 3
    Ttl = 2
    Scenarios <- MCScenarios
INVARIANTS TabsManaged RefNamesSeenElement HistoryExact
PROPERTIES PopupSettles
CHECK_DEADLOCK FALSE
