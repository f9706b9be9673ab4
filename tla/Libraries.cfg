SPECIFICATION Spec
SYMMETRY Symmetry
CONSTANTS
    Object = {o1, o2}
    Library = {libc, gd, gvc}
    Resident = {libc}
    Handle = {h1, h2, h3}
    NoHandle = NoHandle
    OneAtATime = TRUE
    MaxLoads = 4
    Array = {a1, a2}
    MaxLost = 1
INVARIANTS
    LibcnaServes
    OnlyErrorsKeepLibcna
    HandleIsOwn
    ReferencesMatch
PROPERTIES
    ImplementsLease
