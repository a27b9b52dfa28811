SPECIFICATION Spec
CONSTANTS
    p1 = p1
    p2 = p2
    NoPeer = NoPeer
    Peer = {p1, p2}
    MaxHeight = 3
    StartTip = 0
    ForkHeight = 0
    Has <- OneShort
    Claims <- Exact
    FreshFrom = 0
    HeadersPerMsg = 2
    ForkRecoveryGap = 3
    Margin = 2
    FarAhead = 1
    MaxStallsBeforeRotate = 2
    FastBatchSize = 2
    FastMaxInFlight = 2
    MaxInFlightPerPeer = 2
    MaxGlobalInFlight = 3
    MaxStagingSize = 2
    Late = {p2}
    MayLeave = {}
    Faulty = {}
    Lossy = {p2}
    MayBeLate = TRUE
    MaxFaults = 1
CHECK_DEADLOCK FALSE
PROPERTIES
    
    BlockSyncEnds
