CONSTANTS
    Values <- MCValues
    UserFiles <- ShortFiles
    NoFile = NoFile
    MaxEdits = 1
    MaxKills = 2
    MaxFaults = 1
SPECIFICATION Spec
INVARIANTS
    AppliesText
    TrialOnce
    RootOnlyBySetup
PROPERTIES
    StartKeepsText
