CONSTANTS
    NumChannels = 1
    IdCount = 5
    MaxFrameSize = 10
    RequestLimit <- MCTwoRequests
    MaxRequestPayload <- MCMaxPayload
    MaxResponsePayload <- MCMaxPayload
    BufferSize <- MCTwoBuffered
    Requesters <- MCFirst
    MaxRequests = 4
    NetCapacity = 2
    RequestPayloads <- MCNoPayload
    ResponsePayloads <- MCNoPayload
    ErrorPayloads <- MCNone
    ErrorIds <- MCZero
    MayTimeOut = TRUE
    MayDecline = TRUE
    MayDropHandles = FALSE
    StrayHeaders <- MCNone
    StrayPayloads <- MCNone
    ForeignKinds <- MCNone
    ForeignIds <- MCZero
SPECIFICATION Spec
INVARIANTS
    NoFault
    SlotsAgree
CHECK_DEADLOCK FALSE
