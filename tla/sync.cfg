SPECIFICATION FairSpec
CONSTANTS
    Device <- MCDevice
    Person <- MCPerson
    Removable <- MCRemovable
    Restarting <- MCRestarting
    SlowDials <- SlowIn
    MaxRounds = 2
    MaxDecision = 2
    MaxOpen = 1
INVARIANTS
    TypeOK
    BlockedIsHungUp
PROPERTIES
    FollowsItsList
CHECK_DEADLOCK FALSE
