CONSTANTS
    NumChannels = 1
    IdCount = 2
    MaxFrameSize = 10
    RequestLimit <- MCOneRequest
    MaxRequestPayload <- MCMaxPayload
    MaxResponsePayload <- MCMaxPayload
    BufferSize <- MCOneBuffered
    Requesters <- MCFirst
    MaxRequests = 2
    NetCapacity = 1
    RequestPayloads <- MCNoPayload
    ResponsePayloads <- MCTwoFrames
    ErrorPayloads <- MCErrors
    ErrorIds <- MCZero
    MayTimeOut = TRUE
    MayDecline = FALSE
    MayDropHandles = FALSE
    StrayHeaders <- MCStray
    StrayPayloads <- MCTwoFrames
    ForeignKinds <- MCForeign
    ForeignIds <- MCZero
SPECIFICATION FairSpec
INVARIANTS
    PermitsConserved
    ErrorIsLast
PROPERTIES
    EveryRequestAnswered
    ShutdownPropagates
CHECK_DEADLOCK FALSE
