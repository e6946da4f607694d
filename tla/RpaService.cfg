SPECIFICATION Spec
CONSTANTS
    Tasks = {t1, t2}
    Workflows = {w1}
    None = None
    MaxSteps = 1
    MaxRuns = 1
    MaxRestarts = 1
    MaxWriteErrors = 1
INVARIANTS AtMostOnce TasksAttended
CHECK_DEADLOCK FALSE
