------------------------------- MODULE Vectors -------------------------------
(***************************************************************************)
(* What PointerSetAt and PointerGetAt promise: each C array is a vector,   *)
(* whose elements are written and read one at a time, and nothing else     *)
(* changes them.  Module ElementAccess is shown to implement this module.  *)
(***************************************************************************)
EXTENDS Integers

CONSTANTS
    Array,          \* the arrays of the process
    Length,         \* of each array: how many elements it has
    Value(_),       \* of each array: the values of an element
    Nothing         \* nothing has been read from an array yet

VARIABLES
    vector,         \* of each array: its elements
    got             \* of each array: the value read from it last

vectorVars == <<vector, got>>

Element(a) == 0 .. Length[a] - 1

Init ==
    /\ DOMAIN vector = Array
    /\ \A a \in Array : vector[a] \in [Element(a) -> Value(a)]
    /\ got = [a \in Array |-> Nothing]

SetAt(a, n, v) ==
    /\ vector' = [vector EXCEPT ![a][n] = v]
    /\ UNCHANGED got

GetAt(a, n) ==
    /\ got' = [got EXCEPT ![a] = vector[a][n]]
    /\ UNCHANGED vector

Next ==
    \E a \in Array : \E n \in Element(a) :
        GetAt(a, n) \/ \E v \in Value(a) : SetAt(a, n, v)

Spec == Init /\ [][Next]_vectorVars
=============================================================================
