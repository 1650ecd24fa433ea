CONSTANTS
    Programs <- SlicerPrograms
    SlId = 1
SPECIFICATION Spec
INVARIANTS
    SliceSound
