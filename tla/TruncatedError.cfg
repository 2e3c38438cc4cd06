SPECIFICATION Spec
CONSTANTS
    Requests = {r1}
    Incoming = {}
    BufferSize = 1
    Timeouts = {1}
    MaxInstant = 1
    IdleSleep = 2
    ErrorLen = 2
INVARIANT
    LocalErrorIsWhole
CHECK_DEADLOCK FALSE
