SPECIFICATION Spec
CONSTANTS
    Device <- MCDevice
    Entry <- MCEntry
    File <- MCFile
    Automatic <- MCAuto
    LateRefusals = FALSE
    MaxByHand = 1
    MaxFailures = 1
    MaxTick = 1
INVARIANTS
    FilesAreInTheChain
CHECK_DEADLOCK FALSE
