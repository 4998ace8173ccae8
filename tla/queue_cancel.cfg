SPECIFICATION Spec
CONSTANTS
    r1 = r1
    r2 = r2
    w1 = w1
    w2 = w2
    q1 = q1
    Id <- MCIds
    Worker <- MCWorkers
    OtherLists <- MCOthers
    MaxRetries = 1
    MaxPause = 1
    MaxRuns = 2
    MaxOthers = 0
    MaxReloads = 1
PROPERTIES StopsAfterTheIdInHand
CHECK_DEADLOCK FALSE
