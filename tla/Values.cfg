SPECIFICATION ValuesSpec
CONSTANTS
    TypeSizes <- MCTypeSizes
    Half <- MCHalf
    Types <- MCTypes
    Structs <- MCStructs
    Size <- MCSize
    Lengths <- MCLengths
    Base = 4
    SizeofSizet = 2
    Bytes <- MCBytes
    ArgumentLists <- MCArgumentLists
INVARIANTS
    PassedExactly
    ReturnedExactly
    EchoIsIdentity
    WholeArrives
    WrongLengthSeen
CHECK_DEADLOCK FALSE
