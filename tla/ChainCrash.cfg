SPECIFICATION FairSpec
CONSTANTS
    Block <- ForkBlock
    Genesis = "g"
    NoBlock = "none"
    Parent <- ForkParent
    Weight <- ForkWeight
    Height <- MCHeight
    ChainWork <- MCChainWork
    AncestorAt <- MCAncestorAt
    Coin <- ForkCoin
    Spends <- ForkSpends
    Creates <- ForkCreates
    UtxoAt <- MCUtxoAt
    Malformed = {"m2"}
    BadTx = {}
    MaxReorgDepth = 0
    MaxOrphans = 2
    PruneDepth = 1
    CrashAt <- NotCommitting
    FaultAt <- RolledBack
    MaxFailures = 2
INVARIANTS
    TypeOK
    SafeInv
    UtxoMatchesTip
    ChainstateIsReplay
    CanDisconnect
    ActiveChainValid
    MostWork
PROPERTIES
    TipWorkGrows
    ImplementsLedger
    CallsReturn
