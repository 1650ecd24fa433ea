CONSTANTS
    Programs <- SamplePrograms
    MaxBlockSteps = 9
    MaxRetries = 1
SPECIFICATION Spec
INVARIANTS
    ExecTypeOK
    SensitiveAccessInTx
    SensitiveAccessPreloaded
    TxClosedOnReturn
    EngineNeverCrashes
PROPERTY
    TxContract
