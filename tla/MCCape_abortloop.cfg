CONSTANTS
    Programs <- AbortLoopPrograms
    MaxBlockSteps = 9
    MaxRetries = 1
SPECIFICATION Spec
INVARIANT
    EngineNeverCrashes
