SPECIFICATION FairSpec
CONSTANTS
    MaxRequest = 3
    MaxBody = 4
    PIECE = 2
    FirstCredit = 1
    WINDOW = 2
    MAX_RESP = 3
INVARIANT IInv
INVARIANT Backpressure
INVARIANT OkIsWhole
INVARIANT FailsForCause
PROPERTY DriverShutsDown
PROPERTY RequestArrives
PROPERTY ExecuteReturns
CHECK_DEADLOCK FALSE
