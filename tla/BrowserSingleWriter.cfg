SPECIFICATION SessionSpec
CONSTANTS
    MaxQueue = 1
    MaxLaunches = 2
    MaxCrashes = 1
    MaxCloseFailures = 0
INVARIANT SingleWriter
CHECK_DEADLOCK FALSE
