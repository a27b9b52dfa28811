SPECIFICATION Spec
CONSTANTS
    g = g
    a1 = a1
    a2 = a2
    a3 = a3
    a4 = a4
    b1 = b1
    b2 = b2
    b3 = b3
    w2 = w2
    x1 = x1
    NoBlock = NoBlock
    Block <- MCBlock
    Genesis = g
    Parent <- MCParent
    Height <- MCHeight
    ChainWork <- MCChainWork
    AncestorAt <- MCAncestorAt
    HeaderOf <- MCHeaderOf
    BadPow <- MCBadPow
    Base = 4
    HashDigits = 6
    MedianCount = 3
    Interval = 2
    Spacing = 4
    Drift = 2
    NoRetarget = FALSE
    InitialBits <- MCInitialBits
    MinBits <- MCMinBits
    Activation = 100
    Algo = "bitcoin"
    Rule = "median-11"
    MinDiff = FALSE
    Peer = {p1, p2}
    MinSamples = 2
    MaxSamples = 2
    MaxAllowedOffset = 1
    MaxRejected = 1
    MaxIndexSize = 6
    MaxForkDepth = 2
    PruneEvery = 2
    Dense = 1
    MaxHeadersPerMsg = 4
    MaxBatch = 2
    Offsets <- MCOffsets
    Bodies <- MCBodies
    StartTime = 20
    MaxNow = 21
SYMMETRY PeerSymmetry
INVARIANTS
    BestChainIndexed
    IndexedAreValid
    LocatorFindsFork
