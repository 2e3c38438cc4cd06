CONSTANTS
    NumChannels = 1
    IdCount = 4
    MaxFrameSize = 10
    RequestLimit <- MCTwoRequests
    MaxRequestPayload <- MCMaxPayload
    MaxResponsePayload <- MCMaxPayload
    BufferSize <- MCTwoBuffered
    Requesters <- MCFirst
    MaxRequests = 5
    NetCapacity = 2
    RequestPayloads <- MCNoPayload
    ResponsePayloads <- MCNoPayload
    ErrorPayloads <- MCNone
    ErrorIds <- MCZero
    MayTimeOut = FALSE
    MayDecline = FALSE
    MayDropHandles = FALSE
    StrayHeaders <- MCNone
    StrayPayloads <- MCNone
    ForeignKinds <- MCNone
    ForeignIds <- MCZero
SPECIFICATION Spec
INVARIANTS
    NoInternalError
CHECK_DEADLOCK FALSE
