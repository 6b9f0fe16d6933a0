SPECIFICATION Spec
CONSTANTS
    Null = Null
    MaxEvents = 6
INVARIANT StreamKept
 
INVARIANT ErrorKept
INVARIANT VerifierAggregatesAlike
CHECK_DEADLOCK FALSE
