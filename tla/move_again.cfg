SPECIFICATION Spec
CONSTANTS
    Books <- OnlyA
    Renewed <- OnlyA
    MovedIn <- OnlyA
    Size = 2
    StaysBehind <- Key2
    Later <- Nothing
    Meanwhile <- Nothing
    MaxPacks = 1
    MaxCuts = 1
INVARIANT
    MarkedWhileIncomplete
CHECK_DEADLOCK FALSE
