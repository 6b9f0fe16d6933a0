\* One push may get more than the capture holds, as with a long HTTP/1.1 chunk.
CONSTANTS
    LOOKS_LIKE_SSE = 6
    MAX_STREAM_SNIFF_BYTES = 8
    MAX_FIELD_CLAIMS_CAPTURE = 12
    MAX_AWS_EVENTSTREAM_MESSAGE = 6
    MaxPiece = 18
    Inputs <- DisagreeingInputs
SPECIFICATION Spec
INVARIANT VerifierAgrees
CHECK_DEADLOCK FALSE
