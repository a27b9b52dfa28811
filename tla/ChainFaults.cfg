SPECIFICATION Spec
CONSTANTS
    Block <- ForkBlock
    Genesis = "g"
    NoBlock = "none"
    Parent <- ForkParent
    Weight <- ForkWeight
    Height <- MCHeight
    ChainWork <- MCChainWork
    AncestorAt <- MCAncestorAt
    Coin <- ForkCoin
    Spends <- ForkSpends
    Creates <- ForkCreates
    UtxoAt <- MCUtxoAt
    Malformed = {"m2"}
    BadTx = {}
    MaxReorgDepth = 0
    MaxOrphans = 1
    PruneDepth = 1
    CrashAt <- AllSteps
    FaultAt <- AllSteps
    MaxFailures = 3
CHECK_DEADLOCK FALSE
INVARIANTS
    RestartSucceeds
    RecoveryReplays
    IndexHasNoHoles
