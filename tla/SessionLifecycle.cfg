SPECIFICATION Spec
CONSTANTS
    i1 = i1  i2 = i2  p1 = p1  t1 = t1
    None = None
    Profiles = {p1}
    Tenants = {t1}
    MaxClosed = 2
    SessionTtl = 1
    WorkspaceTtl = 1
    HandoffTtl = 1
    Ids = {i1, i2}
    Requests <- MCRequests
    MaxSessions = 2
    MaxTime = 1
SYMMETRY Symmetry
INVARIANTS SlotsSound ExpiredFailsClosed WorkspaceGuarded
CHECK_DEADLOCK FALSE
