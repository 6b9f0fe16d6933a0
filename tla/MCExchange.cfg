SPECIFICATION FairSpec
CONSTANTS
    Framings <- AllFramings
    Requests <- RequestKinds
    MaxBody = 4
    MaxExcess = 1
    MaxPieces = 5
    MaxLine = 2
    OddSizes = {14, 15}
    MAX_RESP = 3
    USIZE = 16
INVARIANT IInv
INVARIANT WellFramed
INVARIANT CompletedIffTrailer
INVARIANT SignedIsForwarded
INVARIANT ForwardedInOrder
INVARIANT DelimitedComplete
INVARIANT TrueSizesWithinCap
PROPERTY ImplementsObservation
PROPERTY Terminates
CHECK_DEADLOCK FALSE
