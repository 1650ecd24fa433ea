CONSTANTS
    Callers <- SampleCallers
    MaxDepth = 5
SPECIFICATION Spec
INVARIANT
    RegistryHoldsLiveBases
