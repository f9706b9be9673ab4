SPECIFICATION LibffiSpec
CONSTANTS
    FfiTypes <- MCFfiTypes
    Types <- MCTypes
    Void = "Void"
    Structs <- MCStructs
    Size <- MCSize
    Alignment <- MCAlignment
    Classes <- MCClasses
    ArgumentLists <- MCArgumentLists
    MAX_GPR_REGS = 2
    MAX_SSE_REGS = 2
    Stack = 32
INVARIANTS
    WithinArray
    ClassesAreAbis
    CopiedWhole
    NoOverrun
    ArgumentsArrive
    ResultFound
CHECK_DEADLOCK FALSE
