SPECIFICATION Spec
CONSTANTS
    k1 = k1
    k2 = k2
    list = list
    get = get
    Key <- MCKey
    Reader <- MCReader
    MaxRank = 3
    MaxWriting = 2
SYMMETRY Alike
INVARIANTS
    TypeOK
    NothingStale
PROPERTIES
    ReadsOwnWrites
    ReadsGoForward
CHECK_DEADLOCK FALSE
