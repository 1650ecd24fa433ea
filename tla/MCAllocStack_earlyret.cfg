CONSTANTS
    Callers <- EarlyRetCallers
    MaxDepth = 3
SPECIFICATION Spec
INVARIANT
    RegistryHoldsLiveBases
