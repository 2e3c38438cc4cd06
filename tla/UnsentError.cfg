CONSTANTS
    NumChannels = 1
    IdCount = 2
    MaxFrameSize = 10
    RequestLimit <- MCOneRequest
    MaxRequestPayload <- MCMaxPayload
    MaxResponsePayload <- MCMaxPayload
    BufferSize <- MCOneBuffered
    Requesters <- MCFirst
    MaxRequests = 1
    NetCapacity = 2
    RequestPayloads <- MCNoPayload
    ResponsePayloads <- MCNoPayload
    ErrorPayloads <- MCNone
    ErrorIds <- MCZero
    MayTimeOut = FALSE
    MayDecline = FALSE
    MayDropHandles = FALSE
    StrayHeaders <- MCNone
    StrayPayloads <- MCNone
    ForeignKinds <- MCForeign
    ForeignIds <- MCZero
SPECIFICATION Spec
INVARIANTS
    ErrorIsSent
CHECK_DEADLOCK FALSE
