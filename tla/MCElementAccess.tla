--------------------------- MODULE MCElementAccess ---------------------------
(***************************************************************************)
(* ElementAccess in an address space of 32 bytes: three shorts at an odd   *)
(* address, two pointers at its end, and a structure.                      *)
(***************************************************************************)
EXTENDS ElementAccess

CONSTANTS shorts, pointers, structures

MCBase == [a \in Array |->
    CASE a = shorts -> 1 [] a = pointers -> 16 [] a = structures -> 8]

MCLength == [a \in Array |-> CASE a = shorts -> 3 [] a = structures -> 1 [] OTHER -> 2]

MCElementType == [a \in Array |->
    CASE a = shorts -> 5 [] a = pointers -> 14 [] a = structures -> List]

TypeSizes64 == [t \in 0 .. 16 |->
    CASE t \in {0, 16}        -> 0
      [] t \in {1, 2}         -> 1
      [] t \in {5, 6}         -> 2
      [] t \in {3, 4, 11}     -> 4
      [] t \in {9, 10, 12}    -> 8
      [] t = 13               -> 16
      [] t \in {7, 8, 14, 15} -> 8]

\* Two byte strings of each size, no two of which have a byte in common.
Word(s, c) == [i \in 0 .. s - 1 |-> (i + c) % 3]
MCWords == [s \in {Size(ElementType[a]) : a \in Array} |-> {Word(s, 0), Word(s, 1)}]

\* All elements are Word(s, 0); other bytes are 2.
MCFresh == [x \in Address |->
    IF \E a \in Array : \E n \in Elements(a) : x \in ElementBytes(a, n)
    THEN LET a == CHOOSE a \in Array : \E n \in Elements(a) : x \in ElementBytes(a, n)
         IN  ((x - Base[a]) % Size(ElementType[a])) % 3
    ELSE 2]
=============================================================================
