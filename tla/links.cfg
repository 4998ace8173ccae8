SPECIFICATION LinksFairSpec
CONSTANTS
    Device <- MCDevice
    Receipt <- MCReceipt
    Tx <- MCTx
    Late <- SecondLate
    Followed <- SecondLate
    Person <- FirstPerson
    Score <- MCScore
    Sure = 5
    Lead = 2
    ConfirmsSure = FALSE
    MaxMatch = 3
    MaxDecision = 1
    MaxEarly = 0
INVARIANTS
    LinksTypeOK
    LastLinkStays
PROPERTIES
    AgreeInTheEnd
CHECK_DEADLOCK FALSE
