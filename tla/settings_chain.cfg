SPECIFICATION Spec
CONSTANTS
    Device <- OneDevice
    Member <- NoMember
    Caller <- CardAndRun
    Backup <- TwoChains
    Verdict <- AnyVerdict
    KEEP = 1
    MaxId = 2
    MaxCalls = 3
INVARIANTS
    ChainIsWhole
CHECK_DEADLOCK FALSE
