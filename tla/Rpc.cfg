SPECIFICATION FairSpec
CONSTANTS
    Requests = {r1, r2}
    Incoming = {i1}
    BufferSize = 1
    Timeouts = {1}
    MaxInstant = 1
    IdleSleep = 2
    ErrorLen = 2
INVARIANTS
    TypeOK
    WaitersTracked
    NoWaiterStranded
    DeadlineCovers
    PermitsConserved
PROPERTIES
    ImplementsLifecycle
    TimedRequestsResolve
    ShutdownReleasesCallers
CHECK_DEADLOCK FALSE
