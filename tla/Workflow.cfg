SPECIFICATION FairSpec
CONSTANTS
    None = None
    Callers = {1, 2}
    Batches <- MCBatches
    MaxSteps = 2
    MaxQueue = 2
    MaxActionCache = 1
    MaxNavigations = 1
    MaxInterrupts = 1
    MaxExpiries = 1
INVARIANTS WritesGuarded ResultTruthful Uninterrupted
PROPERTIES WorkflowReturns
CHECK_DEADLOCK FALSE
