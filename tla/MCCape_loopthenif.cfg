CONSTANTS
    Programs <- LoopThenIfPrograms
    MaxBlockSteps = 9
    MaxRetries = 1
SPECIFICATION Spec
INVARIANT
    SensitiveAccessInTx
