SPECIFICATION Spec
CONSTANTS
    Block <- DuelBlock
    Genesis = "g"
    NoBlock = "none"
    Parent <- DuelParent
    Weight <- DuelWeight
    Height <- MCHeight
    ChainWork <- MCChainWork
    AncestorAt <- MCAncestorAt
    Coin <- DuelCoin
    Spends <- DuelSpends
    Creates <- DuelCreates
    UtxoAt <- MCUtxoAt
    Malformed = {}
    BadTx = {}
    MaxReorgDepth = 0
    MaxOrphans = 2
    PruneDepth = 1
    CrashAt <- CommitSteps
    FaultAt <- NoSteps
    MaxFailures = 1
INVARIANTS
    ChainstateIsReplay
