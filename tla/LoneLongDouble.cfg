SPECIFICATION Spec
CONSTANTS
    Types <- MCTypes
    Void = "Void"
    Structs <- MCStructs
    Size <- MCSize
    Alignment <- MCAlignment
    Classes <- MCClasses
    ArgumentLists <- MCArgumentLists
    MAX_GPR_REGS = 2
    MAX_SSE_REGS = 2
    Stack = 32
INVARIANTS
    EveryResultFound
CHECK_DEADLOCK FALSE
