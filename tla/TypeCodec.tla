----------------------------- MODULE TypeCodec -----------------------------
(***************************************************************************)
(* Well-formed lists of types, as strings of codes, the way class CNA.CNA  *)
(* writes them (ConvertTypeFromCacheToCNA, CreateStructType in cna.xml): a *)
(* scalar is its code; a structure is the code STRUCT, the number of its   *)
(* elements and their strings.  They are enumerated by length, up to       *)
(* MaxLength.                                                              *)
(*                                                                         *)
(* The class tests a type when it converts a value of it, not when it      *)
(* writes its codes.  Where it has converted none, as for the type of the  *)
(* result, it also writes what is not well-formed, a code that is none or  *)
(* VOID inside a structure, and it is the library that refuses it.         *)
(***************************************************************************)
EXTENDS Integers, Sequences

CONSTANTS
    Scalar,         \* the codes of the types that are not structures
    MaxLength       \* bound on the length of a string

VOID == 0
STRUCT == 16

(* TypeLists[l][n]: the strings of length l that list n types. *)
TypeLists[l \in 0 .. MaxLength] ==
    LET Structs(k) == UNION {{<<STRUCT, n>> \o s : s \in TypeLists[k - 2][n]} : n \in 0 .. k - 2}
        Types(k) == IF k = 1 THEN {<<c>> : c \in Scalar} ELSE Structs(k)
        Starting(k, n) == {t \o s : t \in Types(k), s \in TypeLists[l - k][n - 1]}
    IN  [n \in 0 .. MaxLength |->
            IF n = 0 THEN {s \in {<<>>} : l = 0}
                     ELSE UNION {Starting(k, n) : k \in 1 .. l}]

\* The types of the arguments, then the type of the result, which alone may be VOID.
WellFormed ==
    LET Arguments == UNION {TypeLists[l][n] : l \in 0 .. MaxLength - 1, n \in 0 .. MaxLength}
        Result == {<<VOID>>} \cup UNION {TypeLists[l][1] : l \in 1 .. MaxLength}
    IN  {a \o r : a \in Arguments, r \in Result}
=============================================================================
