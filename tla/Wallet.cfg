SPECIFICATION Spec
CONSTANTS
    Width = 64
    InputSize = 2
    OutputSize = 1
    Overhead = 1
    DustThreshold = 2
    CoinbaseMaturity = 3
    MaxMoney = 40
    Seed = {s1, s2}
    Foreign = {k}
    Purse <- MCPurse
    Payment <- MCPayment
    Rate = {0, 2}
    TipHeight = 4
    MaxIndex = 2
    MaxFaults = 1
    MaxRestarts = 2
    None = none
    Zeroed = zeroed
CHECK_DEADLOCK FALSE
INVARIANTS
    KeysComplete
    AddressesAreFresh
    SealedStaysSealed
    
