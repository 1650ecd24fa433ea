CONSTANTS
    Programs <- HeapPrograms
    MaxBlockSteps = 9
    MaxRetries = 1
SPECIFICATION Spec
INVARIANT
    HeapAccessPreloaded
