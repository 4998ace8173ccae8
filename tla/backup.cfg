SPECIFICATION FairSpec
CONSTANTS
    Device <- MCDevice
    Entry <- MCEntry
    File <- MCFile
    Automatic <- MCAuto
    LateRefusals = FALSE
    MaxByHand = 1
    MaxFailures = 1
    MaxTick = 1
INVARIANTS
    TypeOK
    ShippedIsKept
    NoHole
PROPERTIES
    AllIsSaved
CHECK_DEADLOCK FALSE
