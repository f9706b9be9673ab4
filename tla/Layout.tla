------------------------------- MODULE Layout -------------------------------
(***************************************************************************)
(* Structures (cna.xml:189-311).  Where the fields of a structure lie is   *)
(* computed four times, by code that shares nothing: GetSizeAndAlignment   *)
(* for the size header in front of the value,                              *)
(* ConvertStructFromCacheToCNA for its bytes, initialize_aggregate of      *)
(* libffi for the native function, and ConvertStructFromCNAToCache for a   *)
(* structure that is returned.                                             *)
(*                                                                         *)
(* The first three run over the same list of element types, none of them   *)
(* reading what another one computes, so they are modelled in lockstep,    *)
(* one element at a time; stack is the recursion into nested structures.   *)
(* The function then returns a structure of the same type, and the fourth  *)
(* runs over it.                                                           *)
(***************************************************************************)
EXTENDS Integers, Sequences

CONSTANTS
    Platforms,      \* what the program may run on (see PlatformsAssumption)
    MaxElements     \* bound on the elements of a structure, for each depth of nesting

VOID == 0
FLOAT == 11
LONGDOUBLE == 13
POINTER == 14
STRUCT == 16

\* The alignments of C's types; ALIGN is right for these only.
Power == {1, 2, 4, 8, 16}

\* os is what GetOS answers, cpu the names that are found in what GetPlatform answers,
\* sizes what get_sizes answers, and alignments are those of the C compiler, which
\* libffi takes with offsetof.
ASSUME PlatformsAssumption ==
    \A p \in Platforms :
        /\ DOMAIN p.sizes \subseteq 1 .. 15
        /\ p.sizes \in [DOMAIN p.sizes -> 1 .. 255]
        /\ p.alignments \in [DOMAIN p.sizes -> Power]

VARIABLES
    platform,
    pc,         \* "begin", "type", "argument", "return", "client", or where it ends:
                \* "refused" (the argument), "failed" (the result)
    stack,      \* the structures being laid out, innermost last
    i, offset,  \* ConvertStructFromCNAToCache: elements converted, and its offset
    values      \* ConvertStructFromCNAToCache: where each value was extracted from

result == <<i, offset, values>>
vars == <<platform, pc, stack, result>>

Scalar == DOMAIN platform.sizes
Larger(a, b) == IF a > b THEN a ELSE b

\* The entry for type t in the string get_sizes answers.
get_sizes(p, t) == IF t = VOID THEN 0 ELSE p.sizes[t]

GetAlignments_Natural(p, t) == get_sizes(p, t)
GetAlignments(p, t) ==
    IF get_sizes(p, t) > 4 /\ p.os = "UNIX" /\ "x86-32" \in p.cpu
    THEN 4
    ELSE get_sizes(p, t)

\* The properties of the object.
TypeSizes(t) == get_sizes(platform, t)
Alignments(t) == GetAlignments(platform, t)

\* ApplyAlignment: what it adds to the offset, and to the memory if there is one.
Padding(o, alignment) == (alignment - (o % alignment)) % alignment

\* The macro ALIGN of libffi: ((v - 1) | (a - 1)) + 1, for a power of two.
ALIGN(v, a) == ((v - 1) \div a + 1) * a

-----------------------------------------------------------------------------
\* A structure before its first element; given: there is a list of values for it.  declared is GetSizeAndAlignment's, converted
\* ConvertStructFromCacheToCNA's (memory is the length of the string struct), ffi is
\* libffi's.  giving: the list of values has not ended; whole: no value is missing so
\* far; elements: types and libffi's places; fields: libffi's and the class's
\* places of the scalars for which a value was given, in nested structures too.
Empty(given) ==
    [declared |-> [size |-> 0, alignment |-> 0],
     converted |-> [offset |-> 0, maxAlign |-> 0, memory |-> 0],
     ffi |-> [size |-> 0, alignment |-> 0],
     given |-> given, giving |-> given, whole |-> TRUE,
     elements |-> <<>>, fields |-> {}]

\* One iteration of GetSizeAndAlignment.
GetSizeAndAlignment(s, e) ==
    [size |-> s.size + Padding(s.size, e.alignment) + e.size,
     alignment |-> Larger(s.alignment, e.alignment)]

\* One iteration of ConvertStructFromCacheToCNA, for an element declared e that is
\* converted to a string of length memory.
ConvertStructFromCacheToCNA_ByLength(s, e, memory) ==
    [offset |-> s.offset + Padding(s.offset, e.alignment) + e.size,
     maxAlign |-> Larger(s.maxAlign, e.alignment),
     memory |-> s.memory + Padding(s.memory, e.alignment) + memory]
ConvertStructFromCacheToCNA(s, e, memory) ==
    [offset |-> s.offset + Padding(s.offset, e.alignment) + e.size,
     maxAlign |-> Larger(s.maxAlign, e.alignment),
     memory |-> s.memory + Padding(s.offset, e.alignment) + memory]

\* One iteration of initialize_aggregate.
initialize_aggregate(s, e) ==
    [size |-> ALIGN(s.size, e.alignment) + e.size,
     alignment |-> Larger(s.alignment, e.alignment)]

\* What follows each of the three loops: the padding at the end.
DeclaredEnd(s) == [s EXCEPT !.size = @ + Padding(@, s.alignment)]
ConvertedEnd_Unpadded(s) == s
ConvertedEnd(s) ==
    [s EXCEPT !.memory = @ + Padding(s.offset, s.maxAlign),
              !.offset = @ + Padding(@, s.maxAlign)]
AggregateEnd(s) == [s EXCEPT !.size = ALIGN(@, s.alignment)]

\* The structure s with one more element, which is itself laid out like a structure;
\* given: the list of values has a value for it.
With(s, type, e, given) ==
    LET at == ALIGN(s.ffi.size, e.ffi.alignment)
        from == s.converted.memory + Padding(s.converted.offset, e.declared.alignment)
    IN  [declared |-> GetSizeAndAlignment(s.declared, e.declared),
         converted |-> IF given
                       THEN ConvertStructFromCacheToCNA(s.converted, e.declared, e.converted.memory)
                       ELSE s.converted,
         ffi |-> initialize_aggregate(s.ffi, e.ffi),
         given |-> s.given, giving |-> given,
         whole |-> s.whole /\ given /\ e.whole,
         elements |-> Append(s.elements, [type |-> type, at |-> at]),
         fields |-> IF given
                    THEN s.fields \cup {[at |-> at + f.at, from |-> from + f.from] : f \in e.fields}
                    ELSE s.fields]

\* A scalar, as an element.
ScalarElement(t) ==
    [declared |-> [size |-> TypeSizes(t), alignment |-> Alignments(t)],
     converted |-> [offset |-> 0, maxAlign |-> 0, memory |-> TypeSizes(t)],
     ffi |-> [size |-> platform.sizes[t], alignment |-> platform.alignments[t]],
     whole |-> TRUE,
     fields |-> {[at |-> 0, from |-> 0]}]

-----------------------------------------------------------------------------
Init ==
    /\ platform \in Platforms
    /\ pc = "begin"
    /\ stack = <<>>
    /\ i = 0 /\ offset = 0 /\ values = <<>>

\* An exception (a division by zero, a value too many, an error that is thrown), or
\* ZF_FAILURE: the call does not take place.
Refuse ==
    /\ pc' = "refused"
    /\ UNCHANGED <<platform, stack, result>>

\* The comparisons '= 0 are true of a name that is found.
Unsupported ==
    \/ platform.os \notin {"UNIX", "Windows"}
    \/ {"x86-32", "x86-64"} \subseteq platform.cpu

\* A client passes a list of types, and a list of values, as an argument.
CheckStructSupport ==
    /\ pc = "begin"
    /\ IF Unsupported
       THEN Refuse
       ELSE /\ pc' = "type"
            /\ stack' = <<Empty(TRUE)>>
            /\ UNCHANGED <<platform, result>>

top == stack[Len(stack)]

HasMore ==
    /\ pc = "type"
    /\ Len(top.elements) < MaxElements[Len(stack)]

\* An element of the innermost structure is a scalar.  #VOID has no alignment to
\* divide by.
scalar_element ==
    /\ HasMore
    /\ \E t \in Scalar \cup {VOID} :
        IF Alignments(t) = 0
        THEN Refuse
        ELSE \E given \in BOOLEAN :
                /\ given => top.giving
                /\ stack' = [stack EXCEPT ![Len(stack)] = With(top, t, ScalarElement(t), given)]
                /\ UNCHANGED <<platform, pc, result>>

\* An element of the innermost structure is a structure.
begin_struct ==
    /\ HasMore
    /\ Len(stack) < Len(MaxElements)
    /\ \E given \in BOOLEAN :
        /\ given => top.giving
        /\ stack' = Append(stack, Empty(given))
    /\ UNCHANGED <<platform, pc, result>>

\* The structure s, all its elements read.
Finish(s) ==
    [s EXCEPT !.declared = DeclaredEnd(@),
              !.converted = IF s.given THEN ConvertedEnd(@) ELSE @,
              !.ffi = AggregateEnd(@)]

\* The list of types ends.  A structure without elements, or without values, has no
\* alignment to divide by; a value too many has no type.
end_struct ==
    /\ pc = "type"
    /\ IF top.declared.alignment = 0 \/ (top.given /\ top.converted.maxAlign = 0)
       THEN Refuse
       ELSE \/ top.giving /\ Refuse
            \/ /\ Len(stack) = 1
               /\ stack' = <<Finish(top)>>
               /\ pc' = "argument"
               /\ UNCHANGED <<platform, result>>
            \/ /\ Len(stack) > 1
               /\ stack' = [SubSeq(stack, 1, Len(stack) - 1) EXCEPT ![Len(stack) - 1] =
                              With(@, STRUCT, Finish(top), top.given)]
               /\ UNCHANGED <<platform, pc, result>>

\* call_function compares the length of the arguments with the declared size.  The
\* function returns a structure of the same type, which has libffi's size.
call_function ==
    /\ pc = "argument"
    /\ IF top.declared.size # top.converted.memory
       THEN Refuse
       ELSE /\ pc' = "return"
            /\ UNCHANGED <<platform, stack, result>>

Element == top.elements[i + 1].type

\* $EXTRACT(struct, offset - elemSize + 1, offset + 1): the offset of its first
\* character and its length, which the end of the structure may cut.
Extract(end, elemSize) ==
    LET at == end - elemSize
        length == IF end < top.ffi.size THEN elemSize + 1 ELSE top.ffi.size - at
    IN  [at |-> at, length |-> length]

\* Where ConvertStructFromCNAToCache takes an element to end.
ElementEnd_Packed(elemSize, elemAlign) == offset + elemSize
ElementEnd(elemSize, elemAlign) == offset + Padding(offset, elemAlign) + elemSize

\* One iteration of ConvertStructFromCNAToCache.  A nested structure, taken for a
\* number, is 0 and has no alignment to divide by; float_to_double and
\* long_double_to_double insist on the length.
ConvertStructFromCNAToCache ==
    /\ pc = "return"
    /\ i < Len(top.elements)
    /\ LET end == ElementEnd(TypeSizes(Element), Alignments(Element))
            value == Extract(end, TypeSizes(Element))
       IN  IF \/ Element = STRUCT
              \/ Element \in {FLOAT, LONGDOUBLE} /\ value.length # TypeSizes(Element)
           THEN pc' = "failed" /\ UNCHANGED result
           ELSE /\ i' = i + 1
                /\ offset' = end
                /\ values' = Append(values, value)
                /\ UNCHANGED pc
    /\ UNCHANGED <<platform, stack>>

CallFunction_return ==
    /\ pc = "return"
    /\ i = Len(top.elements)
    /\ pc' = "client"
    /\ UNCHANGED <<platform, stack, result>>

Next ==
    \/ CheckStructSupport
    \/ scalar_element
    \/ begin_struct
    \/ end_struct
    \/ call_function
    \/ ConvertStructFromCNAToCache
    \/ CallFunction_return

Spec == Init /\ [][Next]_vars

-----------------------------------------------------------------------------
Struct ==
    [declared : [size : Nat, alignment : Nat],
     converted : [offset : Nat, maxAlign : Nat, memory : Nat],
     ffi : [size : Nat, alignment : {0} \cup Power],
     given : BOOLEAN, giving : BOOLEAN, whole : BOOLEAN,
     elements : Seq([type : 1 .. 16, at : Nat]),
     fields : SUBSET [at : Nat, from : Nat]]

(* Type invariant: one structure at least is being laid out, and a list of    *)
(* values ends before or with its structure.                                  *)
TypeOK ==
    /\ platform \in Platforms
    /\ pc \in {"begin", "type", "argument", "return", "client", "refused", "failed"}
    /\ stack \in Seq(Struct)
    /\ pc \notin {"begin", "refused"} => stack # <<>>
    /\ \A k \in 1 .. Len(stack) : stack[k].giving => stack[k].given
    /\ i \in Nat /\ offset \in Nat
    /\ values \in Seq([at : Nat, length : Nat])
    /\ Len(values) = i

(* The class and libffi give every structure, nested or not, finished or not, *)
(* the same size and the same alignment (cna.xml:222-246; prep_cif.c:37-75):  *)
(* the size header is the size libffi copies.                                 *)
SizesAgree ==
    \A k \in 1 .. Len(stack) :
        /\ stack[k].declared.size = stack[k].ffi.size
        /\ stack[k].declared.alignment = stack[k].ffi.alignment

(* The bytes of a structure are never more than its header announces, however *)
(* many values are missing at any depth (cna.xml:271-287): so no structure    *)
(* makes up for another one that is too short (cna.c:335; see Arguments).     *)
NeverLonger ==
    \A k \in 1 .. Len(stack) : stack[k].converted.memory <= stack[k].declared.size

(* What call_function accepts has each of its values, however deep, where the *)
(* native function looks for it.  A value too few at some depth shortens what *)
(* follows it; if that shifts a field, the structure is refused (cna.xml:     *)
(* 260-288; cna.c:335).                                                       *)
FieldsInPlace ==
    pc \in {"return", "client", "failed"} => \A f \in top.fields : f.from = f.at

(* No structure that has all its values is refused by call_function.          *)
WholeAccepted ==
    pc = "argument" /\ top.whole => top.declared.size = top.converted.memory

(* Every value of a structure that is returned is extracted from where libffi *)
(* put its field (cna.xml:299-306).                                           *)
ValuesFound ==
    \A k \in 1 .. Len(values) : values[k].at = top.elements[k].at

(* A structure of plain C datatypes can be the result of a call (cna.xml:     *)
(* 468-469), and each of its fields an argument of another one.               *)
FlatResultsArrive ==
    /\ pc \in {"return", "client", "failed"}
    /\ \A k \in 1 .. Len(top.elements) : top.elements[k].type # STRUCT
    =>  /\ pc # "failed"
        /\ \A k \in 1 .. Len(values) :
            top.elements[k].type = POINTER => values[k].length = TypeSizes(POINTER)
=============================================================================
