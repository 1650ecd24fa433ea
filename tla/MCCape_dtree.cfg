CONSTANTS
    Programs <- DtreePrograms
    MaxBlockSteps = 9
    MaxRetries = 1
SPECIFICATION Spec
INVARIANT
    SensitiveAccessPreloaded
