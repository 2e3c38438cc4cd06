CONSTANTS
    NumChannels = 1
    IdCount = 3
    MaxFrameSize = 10
    RequestLimit <- MCRequestLimit
    MaxRequestPayload <- MCMaxPayload
    MaxResponsePayload <- MCMaxPayload
    Payloads <- MCPayloads
    PeerLens <- MCPeerLens
    PeerOffs <- MCPeerOffs
SPECIFICATION Spec
INVARIANTS
    ReportedTracked
CHECK_DEADLOCK FALSE
