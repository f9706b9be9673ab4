CONSTANTS
    SizeOf <- MCSizeOf
    SizeofSizet = 2
    SizeTValues = 8
    TypeStrings <- MCTypeStrings
    ArgsLengths = {0, 1, 3, 4}
    HeaderSizes = {0, 1, 7}
    MaxLength = 6
    Block = {1, 2, 3, 4}
    MaxCalls = 2
SPECIFICATION Spec
INVARIANTS
    ParserInBounds
    TypesTile
    ArgsTile
    RetvalSized
    OnlyFailuresLeak
PROPERTIES
    AcceptsExactlyWellFormed
    CallReturns
CHECK_DEADLOCK FALSE
