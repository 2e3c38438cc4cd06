CONSTANTS
    NumChannels = 1
    IdCount = 3
    MaxFrameSize = 10
    RequestLimit <- MCRequestLimit
    MaxRequestPayload <- MCMaxPayload
    MaxResponsePayload <- MCSingleFrame
    Payloads <- MCPayloads
    PeerLens <- MCPeerLens
    PeerOffs <- MCPeerOffs
SPECIFICATION Spec
INVARIANTS
    TypeOK
    ResourceBound
    NoLeakedSlot
    AnsweredOnce
    ReportedTracked
    TransferTracked
CHECK_DEADLOCK FALSE
