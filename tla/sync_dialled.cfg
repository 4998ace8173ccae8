SPECIFICATION Spec
CONSTANTS
    Device <- MCDevice
    Person <- MCPerson
    Removable <- MCRemovable
    Restarting <- MCRestarting
    SlowDials <- SlowAll
    MaxRounds = 2
    MaxDecision = 2
    MaxOpen = 1
INVARIANTS
    BlockedIsHungUp
CHECK_DEADLOCK FALSE
