SPECIFICATION Spec
CONSTANTS
    Block <- StarBlock
    Genesis = "g"
    NoBlock = "none"
    Parent <- StarParent
    Weight <- StarWeight
    Height <- MCHeight
    ChainWork <- MCChainWork
    AncestorAt <- MCAncestorAt
    Coin <- StarCoin
    Spends <- StarSpends
    Creates <- StarCreates
    UtxoAt <- MCUtxoAt
    Malformed = {}
    BadTx = {"v2"}
    MaxReorgDepth = 1
    MaxOrphans = 1
    PruneDepth = 1
    CrashAt <- AllSteps
    FaultAt <- AllSteps
    MaxFailures = 1
CHECK_DEADLOCK FALSE
INVARIANTS
    CumulativeDepthBounded
PROPERTIES
    BuriedBlocksStay
