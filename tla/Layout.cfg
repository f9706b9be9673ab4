SPECIFICATION Spec
CONSTANTS
    Platforms <- MCPlatforms
    MaxElements <- MCMaxElements
INVARIANTS
    SizesAgree
    FieldsInPlace
    WholeAccepted
    ValuesFound
CHECK_DEADLOCK FALSE
