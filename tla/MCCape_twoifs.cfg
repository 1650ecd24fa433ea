CONSTANTS
    Programs <- TwoIfsPrograms
    MaxBlockSteps = 9
    MaxRetries = 1
SPECIFICATION Spec
INVARIANT
    SensitiveAccessInTx
