SPECIFICATION Spec
CONSTANTS
    Ids = {b1}
    Sockets = {s1, s2, s3}
    Callers = {c1, c2}
    Requests = {r1, r2}
    Hosts = {h1}
    Contexts = {x1}
    MaxFaults = 1
    MaxRestarts = 1
    None = None
SYMMETRY Symmetry
INVARIANTS
    PoolCoherent
    PendingHasSocket
PROPERTY
    NoSocketLost
