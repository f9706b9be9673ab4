SPECIFICATION Spec
CONSTANTS
    Platforms <- MCPointers64
    MaxElements <- MCMaxElements
INVARIANTS
    FlatResultsArrive
CHECK_DEADLOCK FALSE
