CONSTANTS
    Programs <- AbortBrPrograms
    MaxBlockSteps = 9
    MaxRetries = 1
SPECIFICATION Spec
INVARIANT
    TxClosedOnReturn
