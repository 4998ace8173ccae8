SPECIFICATION Spec
CONSTANTS
    Peer <- MCPeer
    Holder = 1
    Teller <- MCTeller
    Movable <- MCMovables
    Caller <- MCMovable
    IdleDays = 1
    MaxList = 4
    MaxDay = 4
    MaxCrash = 2
INVARIANTS
    RemovalHolds
CHECK_DEADLOCK FALSE
