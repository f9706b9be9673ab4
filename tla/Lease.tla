-------------------------------- MODULE Lease --------------------------------
(***************************************************************************)
(* What LoadLibrary, FreeLibrary and CallFunction promise to the clients   *)
(* of several CNA objects: each object has its own library, or none, as if *)
(* it were alone in the process, and a function is found in that library,  *)
(* whatever other objects load, free or leave behind.  Module Libraries is *)
(* shown to implement this module.                                         *)
(***************************************************************************)
CONSTANTS
    Object,         \* the CNA objects of a process
    Library,        \* the native libraries, by path
    NoLibrary       \* an object has loaded none

VARIABLES
    library,        \* the library each object has loaded
    found           \* where the last CallFunction found its function

leaseVars == <<library, found>>

Init ==
    /\ library = [o \in Object |-> NoLibrary]
    /\ found = NoLibrary

Load(o, l) ==
    /\ library[o] = NoLibrary
    /\ library' = [library EXCEPT ![o] = l]
    /\ UNCHANGED found

\* FreeLibrary, or the end of the object.
Free(o) ==
    /\ library[o] # NoLibrary
    /\ library' = [library EXCEPT ![o] = NoLibrary]
    /\ UNCHANGED found

Call(o) ==
    /\ library[o] # NoLibrary
    /\ found' = library[o]
    /\ UNCHANGED library

Next == \E o \in Object : Free(o) \/ Call(o) \/ \E l \in Library : Load(o, l)

Spec == Init /\ [][Next]_leaseVars
=============================================================================
