SPECIFICATION Spec
CONSTANTS
    Block <- MCBlock
    Size <- MCSize
    MaxBlockFileSize = 3
    MaxFile = 2
    FlushInterval = 2
    MaxLosses = 2
    MaxErrors = 1
CHECK_DEADLOCK FALSE
INVARIANTS
    AcceptedIsDurable
    
    StoredIsReadable
