SPECIFICATION Spec
CONSTANTS
    Peer <- MCPeer
    Holder = 1
    Teller <- MCPeer
    Movable <- MCMovable
    Caller <- MCMovable
    IdleDays = 0
    MaxList = 3
    MaxDay = 2
    MaxCrash = 1
INVARIANTS
    TypeOK
    RemovalHolds
    SettledFiles
PROPERTIES
    OnlyRenewed
CHECK_DEADLOCK FALSE
