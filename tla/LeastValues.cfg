CONSTANTS
    TypeSizes <- MCTypeSizes
    Half <- MCHalf
SPECIFICATION Spec
INVARIANTS
    AcceptsWholeType
CHECK_DEADLOCK FALSE
