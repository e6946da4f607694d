SPECIFICATION Spec
CONSTANTS
    Tasks = {t1}
    Workflows = {w1}
    None = None
    MaxSteps = 1
    MaxRuns = 1
    MaxRestarts = 1
    MaxWriteErrors = 0
PROPERTY WorkflowsPersist
CHECK_DEADLOCK FALSE
