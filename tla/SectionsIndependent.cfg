CONSTANTS
    Values <- MCValues
    UserFiles <- TriedName
    NoFile = NoFile
    MaxEdits = 1
    MaxKills = 0
    MaxFaults = 0
SPECIFICATION Spec
INVARIANTS
    SectionsIndependent
