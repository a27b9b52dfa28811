SPECIFICATION Spec
CONSTANTS
    Base = 4
    HashDigits = 6
    MedianCount = 3
    Interval = 2
    Spacing = 4
    Drift = 6
    NoRetarget = FALSE
    InitialBits <- MCInitialBits
    MinBits <- MCMinBits
    Activation = 2
    Algos = {"bitcoin", "dgw", "digishield", "lwma"}
    Rules = {"prev+1", "median-11"}
    MinDiffs = {TRUE, FALSE}
    Waits = {0, 4, 36}
    MaxHeight = 4
CHECK_DEADLOCK FALSE
INVARIANTS
    MinedHeaderValid
    
