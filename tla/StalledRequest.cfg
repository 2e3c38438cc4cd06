CONSTANTS
    NumChannels = 1
    IdCount = 3
    MaxFrameSize = 10
    RequestLimit <- MCOneRequest
    MaxRequestPayload <- MCMaxPayload
    MaxResponsePayload <- MCMaxPayload
    BufferSize <- MCOneBuffered
    Requesters <- MCFirst
    MaxRequests = 2
    NetCapacity = 2
    RequestPayloads <- MCNoPayload
    ResponsePayloads <- MCNoPayload
    ErrorPayloads <- MCNone
    ErrorIds <- MCZero
    MayTimeOut = FALSE
    MayDecline = TRUE
    MayDropHandles = FALSE
    StrayHeaders <- MCNone
    StrayPayloads <- MCNone
    ForeignKinds <- MCNone
    ForeignIds <- MCZero
SPECIFICATION FairSpec
PROPERTIES
    EveryRequestAnswered
CHECK_DEADLOCK FALSE
