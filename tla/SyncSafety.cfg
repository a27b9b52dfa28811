SPECIFICATION Spec
CONSTANTS
    p1 = p1
    p2 = p2
    NoPeer = NoPeer
    Peer = {p1, p2}
    MaxHeight = 3
    StartTip = 0
    ForkHeight = 0
    Has <- OneTall
    Claims <- OneGrew
    FreshFrom = 3
    HeadersPerMsg = 2
    ForkRecoveryGap = 1
    Margin = 0
    FarAhead = 1
    MaxStallsBeforeRotate = 2
    FastBatchSize = 2
    FastMaxInFlight = 2
    MaxInFlightPerPeer = 1
    MaxGlobalInFlight = 2
    MaxStagingSize = 2
    Late = {p1}
    MayLeave = {p1}
    Faulty = {p1}
    Lossy = {p1}
    MayBeLate = FALSE
    MaxFaults = 1
CHECK_DEADLOCK FALSE
INVARIANTS
    NoHoles
    OnePlace
    HonestPeersStay
PROPERTIES
    SyncedAtHeaders
