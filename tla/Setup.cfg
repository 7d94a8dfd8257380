CONSTANTS
    BodyChunks = 1
    LogLines = 1
    MaxFaults = 2
    MaxRestarts = 3
SPECIFICATION Spec
INVARIANTS
    TypeOK
    RootNeverPartial
    PredecessorsDone
    ProgressHonest
    NeverUnlockLive
    CleanRecovery
PROPERTIES
    InstallSpec
    SetupSettles
CHECK_DEADLOCK FALSE
