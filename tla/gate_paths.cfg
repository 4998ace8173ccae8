SPECIFICATION Spec
CONSTANTS
    a = a
    b = b
    Node = {a, b}
    Server = {}
    Key <- MCKeys
    Keyings <- BooksKeyings
    Dials <- BothDial
    LocalPaths <- OneLocalPath
    Restarts = {a, b}
    Removes = {a, b}
    Streams <- OneStream
    MaxConns = 2
    MaxFaults = 1
INVARIANTS TypeOK OnlyOwnDevices NoTellLost NoSleepingStream
CHECK_DEADLOCK FALSE
