CONSTANTS
    Programs <- MarkedPrograms
    SlId = 1
SPECIFICATION Spec
INVARIANTS
    SliceSound
