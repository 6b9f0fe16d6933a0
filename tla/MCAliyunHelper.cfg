SPECIFICATION FairSpec
CONSTANTS
    Workers = 2
    MaxCalls = 3
INVARIANT IInv
INVARIANT ProofIsForCall
INVARIANT ErrorHasCause
PROPERTY EveryCallReturns
PROPERTY EveryGoroutineEnds
CHECK_DEADLOCK FALSE
