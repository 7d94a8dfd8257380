CONSTANTS
    BodyChunks = 0
    LogLines = 0
    MaxFaults = 1
    MaxRestarts = 0
    MaxPages = 2
SPECIFICATION InstallerSpec
INVARIANTS
    PageHonest
    OneReader
PROPERTIES
    PageInOrder
    MessagesDrain
    OutcomeShown
CHECK_DEADLOCK FALSE
