SPECIFICATION Spec
CONSTANTS
    NumChannels = 2
    IdCount = 65536
    MaxFrameSize = 10
    RequestLimit <- MCRequestLimit
    MaxRequestPayload <- MCMaxRequest
    MaxResponsePayload <- MCMaxResponse
    Offers <- MCOffers
    MaxFrames = 3
    Outstanding <- MCOutstanding
    VarintValues <- MCVarints
    MessageLens <- MCMessages
INVARIANTS
    TypeOK
    InStep
    PiecewiseIsWhole
    WaitsWithinFrame
    VarintRoundTrip
    HeaderRoundTrip
    MessageBytesAgree
CHECK_DEADLOCK FALSE
