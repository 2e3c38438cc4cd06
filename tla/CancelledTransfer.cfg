CONSTANTS
    NumChannels = 1
    IdCount = 4
    MaxFrameSize = 10
    RequestLimit <- MCTwoRequests
    MaxRequestPayload <- MCMaxPayload
    MaxResponsePayload <- MCMaxPayload
    BufferSize <- MCOneBuffered
    Requesters <- MCFirst
    MaxRequests = 1
    NetCapacity = 2
    RequestPayloads <- MCTwoFrames
    ResponsePayloads <- MCNoPayload
    ErrorPayloads <- MCNone
    ErrorIds <- MCZero
    MayTimeOut = TRUE
    MayDecline = FALSE
    MayDropHandles = FALSE
    StrayHeaders <- MCNone
    StrayPayloads <- MCNone
    ForeignKinds <- MCNone
    ForeignIds <- MCZero
SPECIFICATION Spec
INVARIANTS
    NoFault
CHECK_DEADLOCK FALSE
