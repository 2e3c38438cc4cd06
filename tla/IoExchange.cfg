CONSTANTS
    NumChannels = 1
    IdCount = 4
    MaxFrameSize = 10
    RequestLimit <- MCTwoRequests
    MaxRequestPayload <- MCMaxPayload
    MaxResponsePayload <- MCMaxPayload
    BufferSize <- MCOneBuffered
    Requesters <- MCBoth
    MaxRequests = 2
    NetCapacity = 2
    RequestPayloads <- MCMixed
    ResponsePayloads <- MCMixed
    ErrorPayloads <- MCNone
    ErrorIds <- MCZero
    MayTimeOut = FALSE
    MayDecline = FALSE
    MayDropHandles = TRUE
    StrayHeaders <- MCNone
    StrayPayloads <- MCNone
    ForeignKinds <- MCNone
    ForeignIds <- MCZero
SPECIFICATION Spec
INVARIANTS
    TypeOK
    NoFault
    SlotsAgree
    RequestsMapped
    OneMultiFrame
CHECK_DEADLOCK FALSE
