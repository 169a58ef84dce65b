SPECIFICATION FrameSpec
CONSTANT
    RECV_BUFFER_LIMIT = 3
    Sizes <- SizesAroundLimit
INVARIANT
    KnownTypesRoundTrip
CHECK_DEADLOCK FALSE
