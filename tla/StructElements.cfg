SPECIFICATION Spec
CONSTANTS
    shorts = shorts
    pointers = pointers
    structures = structures
    Array = {shorts, pointers, structures}
    Base <- MCBase
    Length <- MCLength
    ElementType <- MCElementType
    TypeSizes <- TypeSizes64
    StructSize = 6
    Half = 16
    Byte = {0, 1, 2}
    Words <- MCWords
    Fresh <- MCFresh
    Nothing = Nothing
INVARIANTS
    TypesAccepted
