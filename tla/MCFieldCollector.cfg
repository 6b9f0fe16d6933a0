\* SNIFF + MaxPiece <= CAPTURE, as for pieces of at most 16 KiB.
CONSTANTS
    LOOKS_LIKE_SSE = 6
    MAX_STREAM_SNIFF_BYTES = 8
    MAX_FIELD_CLAIMS_CAPTURE = 12
    MAX_AWS_EVENTSTREAM_MESSAGE = 6
    MaxPiece = 4
    Inputs <- MCInputs
SPECIFICATION Spec
INVARIANTS TypeOK CutInvariant EventStreamExact 
CHECK_DEADLOCK FALSE
