---------------------------- MODULE ElementAccess ----------------------------
(***************************************************************************)
(* PointerSetAt and PointerGetAt of the class (cna.xml:573-607), with      *)
(* pointer_set_at and pointer_get_at of the library (cna.c:403-461): one   *)
(* element of a C array in the client's hands is written or read.  The     *)
(* class converts index and value, and sends the type as one byte; the     *)
(* library takes the size from its own table and computes the address with *)
(* the arithmetic of size_t.  The client's pointer may be to any element   *)
(* of the array, the index counts from there, and the element is one that  *)
(* the array has: neither class nor library could tell.                    *)
(***************************************************************************)
EXTENDS Integers

CONSTANTS
    Array,          \* the C arrays the client has pointers to
    Base,           \* of each array: its address
    Length,         \* of each array: how many elements it has
    ElementType,    \* of each array: the type its client passes
    TypeSizes,      \* the size of each type, from get_sizes
    StructSize,     \* the size of the structures, if the type is a list of types
    Half,           \* half the number of values of a size_t (2^63)
    Byte,           \* the values of a byte
    Words,          \* of each size of elements: the byte strings of that size in use
    Fresh,          \* the memory when the client has its arrays
    Nothing         \* nothing has been read yet

VOID == 0
SIZET == 15
STRUCT == 16
NTYPES == 17
List == 100         \* any list of types

Scalar == 1 .. 15
Wrap == 2 * Half
Address == 0 .. Wrap - 1

\* The sizes the class reckons with.
Size(t) == IF t = List THEN StructSize ELSE TypeSizes[t]

ElementBytes(a, n) ==
    Base[a] + n * Size(ElementType[a]) .. Base[a] + (n + 1) * Size(ElementType[a]) - 1
Elements(a) == 0 .. Length[a] - 1

\* Element n of a in the memory m.
Bytes(m, a, n) ==
    [i \in 0 .. Size(ElementType[a]) - 1 |-> m[Base[a] + n * Size(ElementType[a]) + i]]

ASSUME ArraysAssumption ==
    /\ Half \in Nat \ {0}
    /\ TypeSizes \in [0 .. NTYPES - 1 -> Nat]
    /\ \A t \in Scalar : TypeSizes[t] > 0
    /\ TypeSizes[VOID] = 0 /\ TypeSizes[STRUCT] = 0
    /\ TypeSizes[SIZET] \in {4, 8}
    /\ StructSize \in Nat \ {0}
    /\ ElementType \in [Array -> Scalar \cup {List}]
    /\ Base \in [Array -> Address]
    /\ Length \in [Array -> Nat]
    /\ \A a \in Array : Base[a] + Length[a] * Size(ElementType[a]) <= Wrap
    /\ \A a, b \in Array : a # b => \A n \in Elements(a), m \in Elements(b) :
            ElementBytes(a, n) \cap ElementBytes(b, m) = {}
    /\ DOMAIN Words = {Size(ElementType[a]) : a \in Array}
    /\ \A s \in DOMAIN Words : /\ Words[s] \subseteq [0 .. s - 1 -> Byte]
                               /\ Nothing \notin Words[s]
    /\ Fresh \in [Address -> Byte]
    /\ \A a \in Array : \A n \in Elements(a) :
            Bytes(Fresh, a, n) \in Words[Size(ElementType[a])]

VARIABLES
    memory,         \* the bytes of the process
    got,            \* of each array: what was read from it last (history)
    refusedBy       \* of each array: who refused the last call (history)

vars == <<memory, got, refusedBy>>

\* Element n of a.
At(a, n) == Bytes(memory, a, n)

Init ==
    /\ memory = Fresh
    /\ got = [a \in Array |-> Nothing]
    /\ refusedBy = [a \in Array |-> "nobody"]

-----------------------------------------------------------------------------
\* ConvertFromCacheToCNA(SIZET, index): $ZQCHAR takes signed values, $ZLCHAR unsigned
\* ones, and what they do not take is refused.
Convertible(index) ==
    index \in IF TypeSizes[SIZET] = 8 THEN -Half .. Half - 1 ELSE 0 .. Wrap - 1
Index(index) == index % Wrap

\* $CHAR(type): a list of types is not a number but 0.
TypeByte(t) == IF t = List THEN VOID ELSE t

\* get_size.
get_size(t) == IF t \in Scalar THEN TypeSizes[t] ELSE 0

\* array + index * size, as C computes it.
ElementAddress_OfByte(p, index, size) == (p + Index(index)) % Wrap
ElementAddress(p, index, size) == (p + Index(index) * size) % Wrap

\* memcpy of size bytes from and to an address.
Read(address, size) == [i \in 0 .. size - 1 |-> memory[address + i]]
Written_OneMore(address, size, value) ==
    [x \in Address |-> IF x \in address .. address + size
                       THEN value[(x - address) % size] ELSE memory[x]]
Written(address, size, value) ==
    [x \in Address |-> IF x \in address .. address + size - 1
                       THEN value[x - address] ELSE memory[x]]

Outcome(a, who) == refusedBy' = [refusedBy EXCEPT ![a] = who]

\* ConvertFromCacheToCNA takes scalars and lists, ConvertFromCNAToCache VOID as well.
Valued == Scalar \cup {List}

-----------------------------------------------------------------------------
PointerSetAt_refused(a, t, index) ==
    /\ t \notin Valued \/ ~Convertible(index)
    /\ Outcome(a, "class")
    /\ UNCHANGED <<memory, got>>

\* value->len is not get_size(type).  (Pointer and index have the right lengths: they
\* come from the class.)
pointer_set_at_failure(a, t, index) ==
    /\ t \in Valued /\ Convertible(index)
    /\ Size(t) # get_size(TypeByte(t))
    /\ Outcome(a, "library")
    /\ UNCHANGED <<memory, got>>

PointerSetAt(a, t, p, index, value) ==
    LET size == get_size(TypeByte(t))
    IN  /\ t \in Valued /\ Convertible(index)
        /\ Size(t) = size
        /\ memory' = Written(ElementAddress(p, index, size), size, value)
        /\ Outcome(a, "nobody")
        /\ UNCHANGED got

PointerGetAt_refused(a, index) ==
    /\ ~Convertible(index)
    /\ Outcome(a, "class")
    /\ UNCHANGED <<memory, got>>

\* The library copies nothing: the class makes no value of it, or throws.
PointerGetAt_nothing(a, t, index) ==
    /\ Convertible(index)
    /\ get_size(TypeByte(t)) = 0
    /\ Outcome(a, IF t \in Valued \cup {VOID} THEN "nobody" ELSE "class")
    /\ UNCHANGED <<memory, got>>

PointerGetAt(a, t, p, index) ==
    LET size == get_size(TypeByte(t))
    IN  /\ Convertible(index)
        /\ size > 0
        /\ got' = [got EXCEPT ![a] = Read(ElementAddress(p, index, size), size)]
        /\ Outcome(a, "nobody")
        /\ UNCHANGED memory

\* The client has a pointer to element k and uses element n, with the type of the
\* array or with one that no element has, or an index that is no number of type size_t.
Access(a, k, n) ==
    LET p == Base[a] + k * Size(ElementType[a])
    IN  \E t \in {ElementType[a], VOID, STRUCT, NTYPES} :
            \/ \E index \in {n - k, Wrap} :
                    PointerSetAt_refused(a, t, index) \/ PointerGetAt_refused(a, index)
            \/ pointer_set_at_failure(a, t, n - k)
            \/ \E v \in Words[Size(ElementType[a])] : PointerSetAt(a, t, p, n - k, v)
            \/ PointerGetAt_nothing(a, t, n - k)
            \/ PointerGetAt(a, t, p, n - k)

Next == \E a \in Array : \E k, n \in Elements(a) : Access(a, k, n)

Spec == Init /\ [][Next]_vars

-----------------------------------------------------------------------------
(* Type invariant. *)
TypeOK ==
    /\ memory \in [Address -> Byte]
    /\ \A a \in Array : \A n \in Elements(a) : At(a, n) \in Words[Size(ElementType[a])]
    /\ \A a \in Array : got[a] \in Words[Size(ElementType[a])] \cup {Nothing}
    /\ refusedBy \in [Array -> {"nobody", "class", "library"}]

(* The arrays whose elements are no structures.                                  *)
Scalars == {a \in Array : ElementType[a] \in Scalar}

(* A write changes bytes of one element only, and never a byte outside of the    *)
(* arrays, whichever element the client's pointer is to and however index and    *)
(* size are multiplied (cna.c:418-431).                                          *)
WithinElement ==
    [][memory' # memory =>
        \E a \in Array : \E n \in Elements(a) :
            \A x \in Address : memory'[x] # memory[x] => x \in ElementBytes(a, n)]_vars

(* Class and library agree on how long a value is: the tests of pointer_set_at   *)
(* refuse no scalar that the class has converted (cna.c:413-427).                *)
ScalarsAccepted ==
    \A a \in Array : ElementType[a] \in Scalar => refusedBy[a] # "library"

(* So it would be for every type, "passed with the same rules as in              *)
(* CallFunction" (cna.xml:597), lists for structures among them: but of a list   *)
(* the library is told VOID (cna.xml:605), and refuses the value.                *)
TypesAccepted == \A a \in Array : refusedBy[a] # "library"

(* To the client each array of scalars is a vector (module Vectors): what is     *)
(* read is what was written there last.                                          *)
Value(a) == Words[Size(ElementType[a])]
Promise == INSTANCE Vectors WITH
    Array <- Scalars,
    Length <- [a \in Scalars |-> Length[a]],
    vector <- [a \in Scalars |-> [n \in Elements(a) |-> At(a, n)]],
    got <- [a \in Scalars |-> got[a]]
ImplementsVectors == Promise!Spec
=============================================================================
