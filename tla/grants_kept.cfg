SPECIFICATION FairSpec
CONSTANTS
    Peer <- MCPeer
    Holder = 1
    Teller <- MCTeller
    Movable <- MCMovable
    Caller <- MCMovable
    IdleDays = 1
    MaxList = 3
    MaxDay = 1
    MaxCrash = 0
PROPERTIES
    KeptCurrent
CHECK_DEADLOCK FALSE
