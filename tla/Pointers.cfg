CONSTANTS
    Object = {cna1, cna2}
    Addr = {a1, a2}
    NULL = NULL
    Junk = Junk
    Characters = {0, 1}
    MaxText = 2
    MaxArrays = 2
    MaxDepth = 2
SPECIFICATION Spec
INVARIANTS
    OneOwner
    OnlyExceptionsLeak
    TextArrives
    Terminated
PROPERTIES
    ClientsArraysStay
    ImplementsArena
    ConversionEnds
CHECK_DEADLOCK FALSE
