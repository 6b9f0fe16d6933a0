SPECIFICATION Spec
CONSTANTS
    Kinds <- AllKinds
    MaxKeep = 1
    MaxBody = 3
    MaxProof = 3
    MaxBad = 3
    HOLDBACK = 2
INVARIANT EnforceReleasesVerified
INVARIANT ProofHeldBack
INVARIANT ByteExact
INVARIANT VerdictIsAboutDeliveredUnshifted
CHECK_DEADLOCK FALSE
