SPECIFICATION Spec
CONSTANTS
    Framings <- AllFramings
    Requests <- Good
    MaxBody = 2
    MaxExcess = 1
    MaxPieces = 2
    MaxLine = 2
    OddSizes = {}
    MAX_RESP = 3
    USIZE = 16
INVARIANT AttestedIsComplete
CHECK_DEADLOCK FALSE
