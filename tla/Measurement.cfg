CONSTANTS
    MaxFrames = 2
    MaxFollows = 1
    MaxRetries = 2
    MaxAsks = 2
    MaxBlocks = 2
    MaxTx = 4
SPECIFICATION Spec
INVARIANTS TypeOK LadderIsOwn CombinedIsData AckedIsReceived
CHECK_DEADLOCK FALSE
