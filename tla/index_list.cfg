SPECIFICATION Spec
CONSTANTS
    k1 = k1
    k2 = k2
    list = list
    get = get
    Key <- MCKey
    Reader <- MCReader
    MaxRank = 2
    MaxWriting = 2
SYMMETRY Alike
INVARIANTS
    TakenOutIsGone
CHECK_DEADLOCK FALSE
