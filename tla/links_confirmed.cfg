SPECIFICATION LinksSpec
CONSTANTS
    Device <- MCDevice
    Receipt <- MCReceipt
    Tx <- MCTx
    Late <- SecondLate
    Followed <- SecondLate
    Person <- MCDevice
    Score <- MCScore
    Sure = 5
    Lead = 2
    ConfirmsSure = TRUE
    MaxMatch = 3
    MaxDecision = 1
    MaxEarly = 1
INVARIANTS
    LastLinkStays
CHECK_DEADLOCK FALSE
