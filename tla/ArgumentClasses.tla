-------------------------- MODULE ArgumentClasses --------------------------
(***************************************************************************)
(* How libffi decides where a value of a type is passed on x86-64: the     *)
(* layout of structures (prep_cif.c:37-90) and what classify_argument is   *)
(* made of (x86/ffi64.c:107-305).                                          *)
(***************************************************************************)
EXTENDS Integers, Sequences

Larger(a, b) == IF a > b THEN a ELSE b
Smaller(a, b) == IF a < b THEN a ELSE b

\* The macro ALIGN: ((v - 1) | (a - 1)) + 1, for a power of two.
ALIGN(v, a) == ((v - 1) \div a + 1) * a

MAX_CLASSES == 4

\* ffi_type.  kind is the branch of classify_argument a type takes; all integers and
\* pointers take one.  offsets is what arg->size has been before each element was added.
Scalar(kind, size) ==
    [kind |-> kind, size |-> size, alignment |-> size, elements |-> <<>>, offsets |-> <<>>]
Scalars == {Scalar("integer", n) : n \in {1, 2, 4, 8}}
                \cup {Scalar("float", 4), Scalar("double", 8), Scalar("longdouble", 16)}

\* Where the first k elements of structure t end.
FieldEnd(t, k) == IF k = 0 THEN 0 ELSE t.offsets[k] + t.elements[k].size

\* What initialize_aggregate makes of a structure.
Initialized(t) ==
    LET fields == DOMAIN t.elements IN
    /\ DOMAIN t.offsets = fields
    /\ \A k \in fields : t.offsets[k] = ALIGN(FieldEnd(t, k - 1), t.elements[k].alignment)
    /\ \A k \in fields : t.elements[k].alignment <= t.alignment
    /\ \E k \in fields : t.elements[k].alignment = t.alignment
    /\ t.size = ALIGN(FieldEnd(t, Len(t.elements)), t.alignment)

\* The structure of these elements.
Struct(elements) ==
    LET offset[k \in DOMAIN elements] ==
            ALIGN(IF k = 1 THEN 0 ELSE offset[k - 1] + elements[k - 1].size, elements[k].alignment)
        alignment == CHOOSE a \in {elements[k].alignment : k \in DOMAIN elements} :
                        \A k \in DOMAIN elements : elements[k].alignment <= a
        last == Len(elements)
    IN  [kind |-> "struct", size |-> ALIGN(offset[last] + elements[last].size, alignment),
         alignment |-> alignment, elements |-> elements, offsets |-> offset]

-----------------------------------------------------------------------------
Integer == {"INTEGER", "INTEGERSI"}
SSE == {"SSE", "SSESF", "SSEDF"}
X87 == {"X87", "X87UP"}
Class == {"NO"} \cup Integer \cup SSE \cup X87

\* A mutant of merge_classes: without the rule for INTEGER.
merge_classes_NoInteger(c, d) ==
    CASE c = d \/ d = "NO" -> c
      [] c # d /\ c = "NO" -> d
      [] OTHER -> IF {c, d} \cap ({"MEMORY"} \cup X87) # {} THEN "MEMORY" ELSE "SSE"

\* COMPLEX_X87 and SSEUP, which are no class of a type of this library, are left out.
merge_classes(c, d) ==
    CASE c = d -> c
      [] c # d /\ c = "NO" -> d
      [] c # d /\ d = "NO" -> c
      [] OTHER ->
            IF "MEMORY" \in {c, d} THEN "MEMORY"
            ELSE IF {c, d} = {"INTEGERSI", "SSESF"} THEN "INTEGERSI"
            ELSE IF {c, d} \cap Integer # {} THEN "INTEGER"
            ELSE IF {c, d} \cap X87 # {} THEN "MEMORY"
            ELSE "SSE"

Words(t) == (t.size + 7) \div 8

classify_integer(end) ==
    CASE end <= 4 -> <<"INTEGERSI">>
      [] end \in 5 .. 8 -> <<"INTEGER">>
      [] end \in 9 .. 12 -> <<"INTEGER", "INTEGERSI">>
      [] end \in 13 .. 16 -> <<"INTEGERSI", "INTEGERSI">>

\* Two floats in a word need a copy of 8 bytes, which SSESF is not.
classify_float_Always(byte_offset) == <<"SSESF">>
classify_float(byte_offset) == <<IF byte_offset % 8 = 0 THEN "SSESF" ELSE "SSE">>

\* The classes of a value that is no structure.
classify_scalar(t, byte_offset) ==
    CASE t.kind = "integer" -> classify_integer(byte_offset + t.size)
      [] t.kind = "float" -> classify_float(byte_offset)
      [] t.kind = "double" -> <<"SSEDF">>
      [] t.kind = "longdouble" -> <<"X87", "X87UP">>

\* If the structure is larger than 32 bytes, it is not looked into.
TooLarge_Never(t) == FALSE
TooLarge(t) == t.size > 32

\* The classes of a field are merged into those of the structure.  Classes past the structure's
\* words are written but never read.
MergeField(classes, offset, subclasses) ==
    LET pos == offset \div 8
    IN  [w \in DOMAIN classes |-> IF w - pos \in DOMAIN subclasses
                                  THEN merge_classes(subclasses[w - pos], classes[w])
                                  ELSE classes[w]]

\* The test for more than two words, and the final cleanup.
MustBeMemory(classes) ==
    \/ Len(classes) > 2     \* none is SSE followed by SSEUP
    \/ \E w \in DOMAIN classes :
            \/ classes[w] = "MEMORY"
            \/ classes[w] = "X87UP" /\ (w = 1 \/ classes[w - 1] # "X87")

\* What ffi_call copies of word w, of a value that is passed in registers (ffi64.c:487-520):
\* bytes of the word, from its first.
Copied(t, class, w) ==
    CASE class \in Integer -> Smaller(t.size - 8 * (w - 1), 8)
      [] class \in {"SSE", "SSEDF"} -> 8
      [] class = "SSESF" -> 4
      [] OTHER -> 0
=============================================================================
