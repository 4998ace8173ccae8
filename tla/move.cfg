SPECIFICATION FairSpec
CONSTANTS
    Books <- MCBooks
    Renewed <- OnlyA
    MovedIn <- Nothing
    Size = 2
    StaysBehind <- Key2
    Later <- Matches
    Meanwhile <- MatchesAndSettings
    MaxPacks = 2
    MaxCuts = 2
INVARIANTS
    TypeOK
    MarkedWhileIncomplete
    MovedIsThere
    NothingDoubles
PROPERTIES
    PackOutlivesTakeOver
    TakesOverOnce
    PackComesIn
CHECK_DEADLOCK FALSE
