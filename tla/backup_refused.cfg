SPECIFICATION Spec
CONSTANTS
    Device <- MCDevice
    Entry <- MCEntry
    File <- MCFile
    Automatic <- MCAuto
    LateRefusals = TRUE
    MaxByHand = 1
    MaxFailures = 1
    MaxTick = 1
INVARIANTS
    ShippedIsKept
CHECK_DEADLOCK FALSE
