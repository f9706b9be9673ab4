------------------------------ MODULE Classify ------------------------------
(***************************************************************************)
(* classify_argument: the classes libffi finds for the words of a value,   *)
(* compared with what the ABI of the processor says of the fields that lie *)
(* in the word.  The function calls itself for each field of a structure,  *)
(* with where the field begins in a word, and merges the classes it        *)
(* answers into its caller's array.                                        *)
(*                                                                         *)
(* The reference for the ABI (System V, 3.2.3) is made of the scalars at   *)
(* their absolute places: a value of more than 16 bytes is in memory, a    *)
(* word is in an integer register if an integer lies in it, else in an SSE *)
(* register.                                                               *)
(***************************************************************************)
EXTENDS ArgumentClasses

CONSTANT FfiTypes       \* the types to be classified, and all their elements

Elements(t) == {t.elements[k] : k \in DOMAIN t.elements}

ASSUME FfiTypesAssumption ==
    /\ UNION {Elements(t) : t \in FfiTypes} \subseteq FfiTypes
    /\ \A t \in FfiTypes :
        \/ t \in Scalars
        \/ /\ t.kind = "struct"
           /\ t.size \in Nat \ {0} /\ t.alignment \in {1, 2, 4, 8, 16}
           /\ t.elements \in Seq(Elements(t)) /\ t.offsets \in Seq(Nat)
           /\ Initialized(t)

VARIABLES
    stage,      \* "called", "fields" or "answered"
    root,       \* the type examine_argument asks for
    frames,     \* the calls that are running: type and byte_offset, the number of the
                \* field that is next, classes[]; and a history: where the value
                \* begins, and the scalars that have been met in it
    answer,     \* the classes of the root, none for memory; and the scalars in it
    reach,      \* a history: the highest index that was written in any array
    straddled   \* a history: has a structure begun in a word and gone on in one word more than
                \* its size has?

classifyVars == <<stage, root, frames, answer, reach, straddled>>

Memory == [classes |-> <<>>, leaves |-> {}]
Leaf(t, place) == [kind |-> t.kind, first |-> place, last |-> place + t.size - 1]

ClassifyInit ==
    /\ stage = "called"
    /\ root \in FfiTypes
    /\ frames = <<>>
    /\ answer = Memory
    /\ reach = -1
    /\ straddled = FALSE

\* A call for structure t, at this place of the value, which writes NO_CLASS for its words.
Called(t, place, byte_offset) ==
    [type |-> t, byte_offset |-> byte_offset, field |-> 1,
     classes |-> [w \in 1 .. Words(t) |-> "NO"], place |-> place, leaves |-> {}]

Answered(classes, leaves) ==
    /\ stage' = "answered"
    /\ frames' = <<>>
    /\ answer' = [classes |-> classes, leaves |-> leaves]

Written(index) == reach' = Larger(reach, index)

classify_root_scalar ==
    /\ stage = "called" /\ root.kind # "struct"
    /\ Answered(classify_scalar(root, 0), {Leaf(root, 0)})
    /\ Written(Len(classify_scalar(root, 0)) - 1)
    /\ UNCHANGED <<root, straddled>>

classify_root_struct ==
    /\ stage = "called" /\ root.kind = "struct"
    /\ IF TooLarge(root)
       THEN Answered(<<>>, {}) /\ UNCHANGED reach
       ELSE /\ stage' = "fields"
            /\ frames' = <<Called(root, 0, 0)>>
            /\ Written(Words(root) - 1)
            /\ UNCHANGED answer
    /\ UNCHANGED <<root, straddled>>

Depth == Len(frames)
Top == frames[Depth]
Field == Top.type.elements[Top.field]
HasField == stage = "fields" /\ Top.field <= Len(Top.type.elements)

\* byte_offset at the next field, and the absolute place of the field.
FieldOffset == ALIGN(Top.byte_offset, Field.alignment)
FieldPlace == Top.place + Top.type.offsets[Top.field]

\* The loop behind a call for a field at byte_offset, which has answered these classes.
Merged(frame, byte_offset, classes, leaves) ==
    [frame EXCEPT !.byte_offset = byte_offset + frame.type.elements[frame.field].size,
                  !.field = @ + 1,
                  !.classes = MergeField(@, byte_offset, classes),
                  !.leaves = @ \cup leaves]
Highest(byte_offset, classes) == byte_offset \div 8 + Len(classes) - 1

scalar_field ==
    /\ HasField /\ Field.kind # "struct"
    /\ LET classes == classify_scalar(Field, FieldOffset % 8)
       IN  /\ frames' = [frames EXCEPT ![Depth] =
                            Merged(@, FieldOffset, classes, {Leaf(Field, FieldPlace)})]
           /\ Written(Highest(FieldOffset, classes))
    /\ UNCHANGED <<stage, root, answer, straddled>>

\* A structure in a structure.  When a call answers that the value must be in memory, so do all
\* that are waiting for it, and nothing happens in between.
struct_field ==
    /\ HasField /\ Field.kind = "struct"
    /\ IF TooLarge(Field)
       THEN Answered(<<>>, {}) /\ UNCHANGED reach
       ELSE /\ frames' = Append([frames EXCEPT ![Depth].byte_offset = FieldOffset],
                                Called(Field, FieldPlace, FieldOffset % 8))
            /\ Written(Words(Field) - 1)
            /\ UNCHANGED <<stage, answer>>
    /\ straddled' = (straddled \/ ((FieldOffset % 8) + Field.size + 7) \div 8 > Words(Field))
    /\ UNCHANGED root

\* All fields are merged.
end_fields ==
    /\ stage = "fields" /\ ~HasField
    /\ IF MustBeMemory(Top.classes)
       THEN Answered(<<>>, {}) /\ UNCHANGED reach
       ELSE IF Depth = 1
       THEN Answered(Top.classes, Top.leaves) /\ UNCHANGED reach
       ELSE LET caller == frames[Depth - 1]
            IN  /\ frames' = Append(SubSeq(frames, 1, Depth - 2),
                                    Merged(caller, caller.byte_offset, Top.classes, Top.leaves))
                /\ Written(Highest(caller.byte_offset, Top.classes))
                /\ UNCHANGED <<stage, answer>>
    /\ UNCHANGED <<root, straddled>>

ClassifyNext ==
    \/ classify_root_scalar \/ classify_root_struct
    \/ scalar_field \/ struct_field \/ end_fields

ClassifySpec == ClassifyInit /\ [][ClassifyNext]_classifyVars

-----------------------------------------------------------------------------
\* Whatever the nesting, no call writes past the array of MAX_CLASSES entries its caller has
\* on the stack (ffi64.c:316, 361): the test for 32 bytes is made before anything is written
\* there, and a nested structure writes to the array from the word it begins in.
WithinArray == reach < MAX_CLASSES

\* Those that lie in word w.
In(leaves, w) == {l \in leaves : l.first \div 8 + 1 = w}

Agree(class, leaves) ==
    class \in IF \E l \in leaves : l.kind = "longdouble" THEN X87
              ELSE IF \E l \in leaves : l.kind = "integer" THEN Integer
              ELSE SSE

\* The classes are the ABI's, however many calls for nested structures they are put together
\* from: exactly the values of more than 16 bytes are left to memory, and every word gets the
\* class of register a compiler would look for it in, unless a nested structure straddles
\* words (ffi64.c:99-101).
ClassesAreAbis ==
    stage = "answered" =>
        /\ answer.classes = <<>> <=> root.size > 16
        /\ ~straddled =>
            \A w \in DOMAIN answer.classes :
                In(answer.leaves, w) # {} => Agree(answer.classes[w], In(answer.leaves, w))

\* What is copied into a register covers every field of the word, and no byte past the
\* value is read for it: the shorter copies of SSESF are made only where they are enough.
CopiedWhole ==
    stage = "answered" /\ ~straddled
            /\ "X87" \notin {answer.classes[w] : w \in DOMAIN answer.classes} =>
        \A w \in DOMAIN answer.classes :
            LET end == 8 * (w - 1) + Copied(root, answer.classes[w], w)
            IN  end <= root.size /\ \A l \in In(answer.leaves, w) : l.last < end

=============================================================================
