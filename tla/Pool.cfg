SPECIFICATION Spec
CONSTANTS
    p = p
    d = d
    q = q
    k = k
    x = x
    y = y
    px = px
    dx = dx
    qx = qx
    kx = kx
    Tx <- MCTx
    Coin <- MCCoin
    Ins <- MCIns
    Outs <- MCOuts
    Value <- MCValue
    Size <- MCSize
    Hash <- MCHash
    Malformed = {}
    LockHeight <- MCLockHeight
    LockTime <- MCLockTime
    Relative <- MCRelative
    NoLock = NoLock
    IsCoinbase = {y}
    CoinbaseMaturity = 2
    Absent = Absent
    NoTx = NoTx
    MinRelayTxFee = 1
    MinRelayTxFeeRate = 1
    MaxMempoolSize = 2
    MaxMempoolBytes = 6
    BaseHeight = 1
    BaseView <- MCBaseView
    BaseTime = 0
    PeerBodies <- MCPeerBodies
    MaxBlocks = 2
    MaxClock = 2
    MaxBlockTxCount = 3
    MaxBlockSize = 5
INVARIANTS
    SpentIndexExact
    PoolWithinLimits
    TemplateIsBody
    MinedOnOneTip
