SPECIFICATION FairSpec
CONSTANTS
    a = a
    b = b
    Node = {a, b}
    Server = {b}
    Key <- MCKeys
    Keyings <- BridgeKeyings
    Dials <- DeviceDials
    LocalPaths = {}
    Restarts = {b}
    Removes = {a}
    Streams <- OneStream
    MaxConns = 1
    MaxFaults = 1
PROPERTIES EventuallyMutual
CHECK_DEADLOCK FALSE
