SPECIFICATION FairSpec
CONSTANTS
    Device <- TwoDevices
    Member <- NoMember
    Caller <- CardAndRun
    Backup <- FullBackups
    Verdict <- NotYetTaken
    KEEP = 1
    MaxId = 3
    MaxCalls = 3
INVARIANTS
    TypeOK
    InSightOfAll
PROPERTIES
    UsesFirstKey
CHECK_DEADLOCK FALSE
