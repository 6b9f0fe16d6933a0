SPECIFICATION Spec
CONSTANTS
    Framings = {"chunked"}
    Requests <- Good
    MaxBody = 4
    MaxExcess = 1
    MaxPieces = 5
    MaxLine = 2
    OddSizes = {15}
    MAX_RESP = 2
    USIZE = 16
INVARIANT BodyWithinCap
CHECK_DEADLOCK FALSE
