SPECIFICATION Spec
CONSTANTS
    Device <- TwoDevices
    Member <- PhoneOfMember
    Caller <- BothCards
    Backup <- FullBackups
    Verdict <- NotYetTaken
    KEEP = 1
    MaxId = 3
    MaxCalls = 2
INVARIANTS
    MembersMakeNone
CHECK_DEADLOCK FALSE
