SPECIFICATION Spec
CONSTANTS
    t1 = t1
    t2 = t2
    u1 = u1
    Tasks <- OneTask
    Workers = {w1, w2}
    NoWorker = NoWorker
    Urls = {u1}
    UrlOf <- SameUrl
    Score <- TaskOrder
    MaxRetries = 1
    MaxFaults = 2
    MaxCrashes = 1
    MaxStops = 1
    MaxRequests = 1
INVARIANTS QueueSound RetriesBounded
PROPERTY LeaseFences
CHECK_DEADLOCK FALSE
