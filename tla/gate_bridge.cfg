SPECIFICATION FairSpec
CONSTANTS
    a = a
    b = b
    Node = {a, b}
    Server = {b}
    Key <- MCKeys
    Keyings <- BridgeKeyings
    Dials <- DeviceDials
    LocalPaths = {}
    Restarts = {a}
    Removes = {a}
    Streams <- BothStreams
    MaxConns = 1
    MaxFaults = 3
INVARIANTS OnlyOwnDevices
PROPERTIES EventuallyMutual NoStreamWaitsForever
CHECK_DEADLOCK FALSE
