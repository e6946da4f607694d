SPECIFICATION FairSpec
CONSTANTS
    t1 = t1
    t2 = t2
    u1 = u1
    Tasks <- TwoTasks
    Workers = {w1, w2}
    NoWorker = NoWorker
    Urls = {u1}
    UrlOf <- SameUrl
    Score <- TaskOrder
    MaxRetries = 1
    MaxFaults = 1
    MaxCrashes = 1
    MaxStops = 0
    MaxRequests = 0
INVARIANT ClaimHasOwner
PROPERTY TaskResolves
CHECK_DEADLOCK FALSE
