CONSTANTS
    BodyChunks = 1
    LogLines = 1
    MaxFaults = 0
    MaxRestarts = 1
SPECIFICATION Spec
INVARIANT XkbReady
CHECK_DEADLOCK FALSE
