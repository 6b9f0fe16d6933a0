SPECIFICATION Spec
CONSTANTS
    Kinds <- AllKinds
    MaxKeep = 0
    MaxBody = 4
    MaxProof = 3
    MaxBad = 0
    HOLDBACK = 2
INVARIANT EveryResponseReported
CHECK_DEADLOCK FALSE
