CONSTANTS
    Programs <- TwoBufsPrograms
    MaxBlockSteps = 9
    MaxRetries = 1
SPECIFICATION Spec
INVARIANT
    BufferIdsNeverReused
