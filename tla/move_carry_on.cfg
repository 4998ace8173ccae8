SPECIFICATION Spec
CONSTANTS
    Books <- OnlyA
    Renewed <- OnlyA
    MovedIn <- Nothing
    Size = 2
    StaysBehind <- Key2
    Later <- Nothing
    Meanwhile <- Matches
    MaxPacks = 1
    MaxCuts = 1
INVARIANT
    CarriesOn
CHECK_DEADLOCK FALSE
