SPECIFICATION FairSpec
CONSTANTS
    a = a
    b = b
    Node = {a, b}
    Server = {}
    Key <- MCKeys
    Keyings <- BooksKeyings
    Dials <- BothDial
    LocalPaths = {}
    Restarts = {a, b}
    Removes = {a}
    Streams <- OneStream
    MaxConns = 1
    MaxFaults = 2
INVARIANTS RemovedIsNotProved
PROPERTIES EventuallyMutual RemovedIsCutOff
CHECK_DEADLOCK FALSE
