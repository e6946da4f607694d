SPECIFICATION Spec
CONSTANTS
    None = None
    c1 = c1
    c2 = c2
    user = user
    key1 = key1
    p1 = p1
    p2 = p2
    s1 = s1
    s2 = s2
    Clients = {c1, c2}
    Ids = {user, key1}
    Member = user
    Stores <- MCStores
    Profiles = {p1, p2}
    First = p1
    Begins <- MCBegins
    Sessions = {s1, s2}
    MaxCalls = 3
    MaxTroubles = 1
    Followers = {1, 2}
    MaxActions = 3
    MaxWindows = 14
    Screen = 130
    MaxRequests = 4
    Parts = {"stores", "desk", "synchronizer", "socket"}
INVARIANTS
    StoresKeepTheirWord
    ProfilesSound
    OrderKept
PROPERTIES
    RequestsAnswered
CHECK_DEADLOCK FALSE
