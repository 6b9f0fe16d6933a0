SPECIFICATION Spec
CONSTANTS
    Kinds = {"sse"}
    MaxKeep = 2
    MaxBody = 4
    MaxProof = 3
    MaxBad = 0
    HOLDBACK = 3
INVARIANT VerdictIsAboutDelivered
CHECK_DEADLOCK FALSE
