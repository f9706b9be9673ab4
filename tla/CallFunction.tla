---------------------------- MODULE CallFunction ----------------------------
(***************************************************************************)
(* call_function (cna.c): one native call.  It reads a string of type      *)
(* codes with the recursive descent of get_ffi_type and create_ffi_struct, *)
(* lays the argument bytes out under the types it finds, has libffi check  *)
(* the result, calls the function, and releases what it built.             *)
(*                                                                         *)
(* The cursor i is shared by the loop of call_function and by every level  *)
(* of the recursion; frames is the stack of active create_ffi_struct.  An  *)
(* ffi_type is represented by its code and by the bytes it was built from, *)
(* first..last (0-based, as in the source), which determine it.            *)
(* Storage is used through what it promises, module Arena.                 *)
(***************************************************************************)
EXTENDS Integers, Sequences

CONSTANTS
    SizeOf,         \* size of each scalar type on the platform (get_sizes)
    SizeofSizet,    \* sizeof(size_t), the length of a structure's size header
    SizeTValues,    \* how many values size_t has: fullsize is reduced modulo this
    TypeStrings,    \* the strings of type codes a client may pass
    ArgsLengths,    \* the lengths of the argument buffers a client may pass
    HeaderSizes,    \* the sizes of structures: what a client may write in a header,
                    \* and what libffi may compute
    MaxLength,      \* bound on the length of a string of type codes
    Block,          \* blocks the arena can hand out
    MaxCalls        \* bound on the number of calls

CNA_VOID == 0
CNA_STRUCT == 16

\* Every code of enum TYPE but CNA_VOID and CNA_STRUCT has an ffi_type of its own.
Scalar == DOMAIN SizeOf

ASSUME SizesAssumption ==
    /\ Scalar \subseteq 1 .. 15
    /\ SizeOf \in [Scalar -> Nat \ {0}]
    /\ SizeofSizet \in Nat \ {0}

ASSUME InputsAssumption ==
    /\ TypeStrings \subseteq Seq(0 .. 255) \ {<<>>}
    /\ ArgsLengths \subseteq Nat
    /\ HeaderSizes \subseteq Nat
    /\ MaxCalls \in Nat

\* A buffer, even with a result behind it, is within size_t: Cache's strings are shorter than
\* 4 million bytes.  A header is any value of size_t.
ASSUME SizeTAssumption ==
    /\ SizeTValues \in Nat \ {0}
    /\ HeaderSizes \subseteq 0 .. SizeTValues - 1
    /\ \A length \in ArgsLengths :
        /\ length < SizeTValues
        /\ \A type \in Scalar : length + SizeOf[type] < SizeTValues

ASSUME LengthsAssumption ==
    /\ MaxLength \in Nat
    /\ \A s \in TypeStrings : Len(s) <= MaxLength

VARIABLES
    pc,         \* where call_function is; "idle" between calls, "dead" for ever
    argtypes,   \* the string of type codes; the last type is the return type
    argsLen,    \* args->len
    i,          \* cursor in argtypes
    frames,     \* active create_ffi_struct: first byte, n, j, all elements sized
    ffi_types,  \* the local array, filled up to j
    ffi_values, \* the local array: offset in args->data and length of each value
    fullsize,   \* bytes of args consumed so far, plus the return size at the end, as size_t
    size,       \* size of the type being read
    retlen,     \* retval->len
    phase,      \* state of the local storage mem, as an arena
    live,       \* blocks of mem
    result,     \* how the last call returned, "none" before it does
    calls,      \* calls made
    failures,   \* calls that returned ZF_FAILURE
    abandoned   \* storages whose call has returned and that were never freed

input == <<argtypes, argsLen>>
parser == <<i, frames>>
arrays == <<ffi_types, ffi_values, fullsize, size>>
arena == <<phase, live>>
history == <<result, calls, failures, abandoned>>
vars == <<pc, input, parser, arrays, retlen, arena, history>>

Mem == INSTANCE Arena

FfiType == [code : 0 .. 255, first : Nat, last : Nat, sized : BOOLEAN]
Frame == [first : Nat, n : 0 .. 255, j : Nat, sized : BOOLEAN]
Value == [at : Nat, size : Nat]

Init ==
    /\ pc = "idle"
    /\ argtypes = <<>> /\ argsLen = 0
    /\ i = 0 /\ frames = <<>>
    /\ ffi_types = <<>> /\ ffi_values = <<>> /\ fullsize = 0 /\ size = 0
    /\ retlen = 0
    /\ Mem!Init
    /\ result = "none" /\ calls = 0 /\ failures = 0 /\ abandoned = 0

-----------------------------------------------------------------------------
get_size(type) == IF type \in Scalar THEN SizeOf[type] ELSE 0

\* argtypes->data[k]
Code(k) == argtypes[k + 1]

maxargs == Len(argtypes) - 1

\* The function returns, its parameters and locals go.  Its storage is a local
\* variable too: unless it has been closed, nobody can free it any more.
Return(r) ==
    /\ pc' = "idle"
    /\ argtypes' = <<>> /\ argsLen' = 0
    /\ i' = 0 /\ frames' = <<>>
    /\ ffi_types' = <<>> /\ ffi_values' = <<>> /\ fullsize' = 0 /\ size' = 0
    /\ retlen' = 0
    /\ result' = r
    /\ failures' = IF r = "success" THEN failures ELSE failures + 1
    /\ UNCHANGED <<calls, abandoned>>

\* return ZF_FAILURE, with the storage as it is.
Fail(r) ==
    /\ Return(r)
    /\ UNCHANGED arena

\* alloc, when memory lasts: one more block of the storage.
Alloc == \E b \in Block : Mem!HandOut(b)

\* The client's call, up to init_storage.
call_function ==
    /\ pc = "idle"
    /\ calls < MaxCalls
    /\ pc' = "loop"
    /\ argtypes' \in TypeStrings
    /\ argsLen' \in ArgsLengths
    /\ phase' = "open" /\ live' = {}
    /\ result' = "none"
    /\ calls' = calls + 1
    /\ abandoned' = IF phase = "closed" THEN abandoned ELSE abandoned + 1
    /\ UNCHANGED <<parser, arrays, retlen, failures>>

\* The head of the loop over the types.
next_type ==
    /\ pc = "loop"
    /\ i < maxargs + 1
    /\ size' = get_size(Code(i))
    /\ pc' = "type"
    /\ UNCHANGED <<input, parser, ffi_types, ffi_values, fullsize, retlen, arena, history>>

\* i != maxargs, once the type t has been read.
isReturn(t) == t.last = maxargs

\* The arguments whose size is read from the buffer, in front of the value.
hasHeader(t) == size = 0 /\ t.code # CNA_VOID /\ ~isReturn(t)

\* What is left of a sum in a size_t.
Wrap(n) == n % SizeTValues

\* Where the value of an argument of type t starts in args->data.
Start_AtHeader(t) == fullsize
Start(t) == IF hasHeader(t) THEN Wrap(fullsize + SizeofSizet) ELSE fullsize

\* The cursor, once a loop has incremented it: get_ffi_type left it on the last byte
\* of t.
After_ByValue(t) == t.first + 1
After(t) == t.last + 1

\* The rest of the loop body, once the type t has been read.
Argument(t) ==
    IF t.code = CNA_VOID /\ ~isReturn(t)
    THEN Fail("bad_type")
    ELSE /\ size' \in IF hasHeader(t) THEN HeaderSizes ELSE {size}
         /\ ffi_types' = Append(ffi_types, t)
         /\ ffi_values' = IF isReturn(t) THEN ffi_values
                          ELSE Append(ffi_values, [at |-> Start(t), size |-> size'])
         /\ fullsize' = Wrap(Start(t) + size')
         /\ i' = After(t)
         /\ frames' = <<>>
         /\ pc' = "loop"
         /\ UNCHANGED <<input, retlen, arena, history>>

\* create_ffi_struct refuses this type of element.
NothingBad(t) == FALSE
BadElement(t) == t.code = CNA_VOID

\* The rest of the loop body of create_ffi_struct, its ++j, ++*i lost.
Element_NotAdvanced(t, stack) ==
    /\ frames' = stack
    /\ i' = t.last
    /\ pc' = "elements"
    /\ UNCHANGED <<input, arrays, retlen, arena, history>>

\* The rest of the loop body of create_ffi_struct, the type t of an element of the
\* topmost structure of stack having been read.
Element(t, stack) ==
    LET top == stack[Len(stack)]
    IN  IF BadElement(t)
        THEN Fail("bad_type")
        ELSE /\ frames' = [stack EXCEPT ![Len(stack)] =
                            [first |-> top.first, n |-> top.n, j |-> top.j + 1,
                             sized |-> top.sized /\ t.sized]]
             /\ i' = After(t)
             /\ pc' = "elements"
             /\ UNCHANGED <<input, arrays, retlen, arena, history>>

\* get_ffi_type returns t to its caller.
Deliver(t, stack) == IF stack = <<>> THEN Argument(t) ELSE Element(t, stack)

get_ffi_type ==
    /\ pc = "type"
    /\ IF i >= Len(argtypes)
       THEN Fail("bad_type")
       ELSE \/ /\ Code(i) \in Scalar \cup {CNA_VOID}
               /\ Deliver([code |-> Code(i), first |-> i, last |-> i, sized |-> TRUE], frames)
            \/ /\ Code(i) = CNA_STRUCT
               /\ Alloc
               /\ pc' = "struct"
               /\ UNCHANGED <<input, parser, arrays, retlen, history>>
            \/ /\ Code(i) \notin Scalar \cup {CNA_VOID, CNA_STRUCT}
               /\ Fail("bad_type")

\* create_ffi_struct, after the allocation of the ffi_type: the number of elements.
create_ffi_struct ==
    /\ pc = "struct"
    /\ IF i >= Len(argtypes) - 1
       THEN Fail("bad_type")
       ELSE /\ frames' = Append(frames, [first |-> i, n |-> Code(i + 1), j |-> 0, sized |-> TRUE])
            /\ i' = i + 2
            /\ Alloc
            /\ pc' = "elements"
            /\ UNCHANGED <<input, arrays, retlen, history>>

\* alloc, when memory does not last: neither alloc nor create_ffi_struct tests a
\* pointer before writing through it.
out_of_memory ==
    /\ \/ pc = "type" /\ i < Len(argtypes) /\ Code(i) = CNA_STRUCT
       \/ pc = "struct" /\ i < Len(argtypes) - 1
    /\ Mem!Die
    /\ pc' = "dead"
    /\ UNCHANGED <<input, parser, arrays, retlen, history>>

\* create_ffi_struct, the head of its loop.
HasMore(f) == f.j < f.n

next_element ==
    /\ pc = "elements"
    /\ HasMore(frames[Len(frames)])
    /\ pc' = "type"
    /\ UNCHANGED <<input, parser, arrays, retlen, arena, history>>

\* The last byte of a structure all of whose elements have been read: the loop has
\* moved the cursor past it, and --*i moves it back.
PastTheEnd == i
LastByte == i - 1

\* create_ffi_struct returns.  libffi gives a structure a size only if it has
\* elements, and each of them a size (initialize_aggregate).
end_struct ==
    LET top == frames[Len(frames)]
    IN  /\ pc = "elements"
        /\ ~HasMore(top)
        /\ Deliver([code |-> CNA_STRUCT, first |-> top.first, last |-> LastByte,
                    sized |-> top.sized /\ top.n > 0],
                   SubSeq(frames, 1, Len(frames) - 1))

\* All types have been read: the sizes must add up, and libID must be a pointer.
check_sizes ==
    /\ pc = "loop"
    /\ i >= maxargs + 1
    /\ IF fullsize # argsLen + size
       THEN Fail("bad_size")
       ELSE \/ Fail("bad_libid")
            \/ /\ retlen' = size
               /\ pc' = "prep"
               /\ UNCHANGED <<input, parser, arrays, arena, history>>

ReturnType == ffi_types[Len(ffi_types)]

\* The size of the return type is not known yet.
ZeroSize == retlen = 0
SizeUnknown == retlen = 0 /\ ReturnType.code # CNA_VOID

\* ffi_prep_cif refuses a type without a size; otherwise it gives the size of a
\* structure that is returned.  FIND_ENTRY may find nothing.
prepare_call ==
    /\ pc = "prep"
    /\ IF \E k \in 1 .. Len(ffi_types) : ~ffi_types[k].sized
       THEN Fail("bad_cif")
       ELSE \/ Fail("no_entry")
            \/ /\ retlen' \in IF SizeUnknown THEN HeaderSizes \ {0} ELSE {retlen}
               /\ pc' = "invoke"
               /\ UNCHANGED <<input, parser, arrays, arena, history>>

\* ffi_call, then free_storage in the steps of the arena.
ffi_call_NotFreed ==
    /\ pc = "invoke"
    /\ Fail("success")
ffi_call ==
    /\ pc = "invoke"
    /\ Mem!Drain
    /\ pc' = "release"
    /\ UNCHANGED <<input, parser, arrays, retlen, history>>

free_storage ==
    /\ pc = "release"
    /\ \/ /\ \E b \in Block : Mem!Release(b)
          /\ UNCHANGED <<pc, input, parser, arrays, retlen, history>>
       \/ /\ Mem!Close
          /\ Return("success")

Step ==
    \/ next_type
    \/ get_ffi_type
    \/ create_ffi_struct
    \/ out_of_memory
    \/ next_element
    \/ end_struct
    \/ check_sizes
    \/ prepare_call
    \/ ffi_call
    \/ free_storage

Next == call_function \/ Step

\* The calling thread runs on, and the native function returns.
Spec == Init /\ [][Next]_vars /\ WF_vars(Step)

-----------------------------------------------------------------------------
(* Type invariant.  No structure is given more elements than it declares. *)
TypeOK ==
    /\ pc \in {"idle", "loop", "type", "struct", "elements", "prep", "invoke",
               "release", "dead"}
    /\ argtypes \in Seq(0 .. 255)
    /\ pc = "idle" \/ argtypes # <<>>
    /\ argsLen \in Nat
    /\ i \in Nat
    /\ frames \in Seq(Frame)
    /\ \A k \in 1 .. Len(frames) : frames[k].j <= frames[k].n
    /\ ffi_types \in Seq(FfiType)
    /\ ffi_values \in Seq(Value)
    /\ fullsize \in Nat /\ size \in Nat /\ retlen \in Nat
    /\ phase \in {"closed", "open", "draining", "lost"}
    /\ live \subseteq Block
    /\ calls \in Nat /\ failures \in Nat /\ abandoned \in Nat

(* Whatever the type string is, the cursor that all levels of the recursion   *)
(* share stays in it (one past its end at most), and the two local arrays,    *)
(* which hold a type per byte and a value per byte but the last, are never    *)
(* overrun (cna.c:301-304, 312-330).                                          *)
ParserInBounds ==
    /\ i <= Len(argtypes)
    /\ Len(ffi_types) <= Len(argtypes)
    /\ Len(ffi_values) < Len(argtypes) \/ ffi_values = <<>>

(* The types the loop has read tile the string: each starts where the one     *)
(* before it ended, wherever the structures among them, whose length is only  *)
(* known once they are read, end (cna.c:312, 236-243).                        *)
TypesTile ==
    pc # "dead" =>
        /\ \A k \in 1 .. Len(ffi_types) :
            ffi_types[k].first = IF k = 1 THEN 0 ELSE ffi_types[k - 1].last + 1
        /\ pc = "loop" =>
            i = IF ffi_types = <<>> THEN 0 ELSE ReturnType.last + 1

\* The bytes of the size header of argument k, where its value ends, and whether size_t can
\* hold that.
Header(k) == IF ffi_types[k].code = CNA_STRUCT THEN SizeofSizet ELSE 0
End(k) == IF k = 0 THEN 0 ELSE ffi_values[k].at + ffi_values[k].size
Countable(k) == End(k - 1) + Header(k) + ffi_values[k].size < SizeTValues

(* When libffi is given the arguments, there is one value per type but the    *)
(* return type, each behind the one before and its own header, a scalar with  *)
(* the size of its type, and the last ends where the buffer does, all this as *)
(* size_t counts.  So the one test of the total, made after all the pointers  *)
(* were formed, is enough to have values and headers tile the buffer exactly  *)
(* and no value outside of it, if no sum wrapped; one that does, because a    *)
(* header behind a value of wrong length is made of any bytes, can pass the   *)
(* test with values out of the buffer (cna.c:307, 322-338).                   *)
ArgsTile ==
    pc \in {"prep", "invoke"} =>
        /\ Len(ffi_types) = Len(ffi_values) + 1
        /\ \A k \in 1 .. Len(ffi_values) :
            /\ ffi_values[k].at = Wrap(Wrap(End(k - 1)) + Header(k))
            /\ ffi_types[k].code # CNA_VOID
            /\ ffi_types[k].code # CNA_STRUCT =>
                ffi_values[k].size = SizeOf[ffi_types[k].code]
        /\ Wrap(End(Len(ffi_values))) = argsLen
        /\ (\A k \in 1 .. Len(ffi_values) : Countable(k)) =>
            /\ \A k \in 1 .. Len(ffi_values) :
                /\ ffi_values[k].at = End(k - 1) + Header(k)
                /\ End(k) <= argsLen
            /\ End(Len(ffi_values)) = argsLen

(* The function is called with room for its result: the size of a scalar, of  *)
(* a structure as libffi computed it, and nothing for void (cna.c:332,        *)
(* 350-352).                                                                  *)
RetvalSized ==
    pc = "invoke" =>
        LET code == ReturnType.code
        IN  IF code = CNA_STRUCT THEN retlen > 0 ELSE retlen = get_size(code)

(* A call that succeeds gives all its memory back, and every call that fails, *)
(* at whichever of its six tests, loses the storage it opened (cna.c:316-365).*)
OnlyFailuresLeak ==
    pc # "dead" =>
        failures = abandoned + (IF pc = "idle" /\ phase # "closed" THEN 1 ELSE 0)

\* The well-formed lists of types.
Codec == INSTANCE TypeCodec
WellFormed == Codec!WellFormed

(* A call fails because of its types exactly when the string is not that of a *)
(* well-formed list of types: the recursive descent reads back every such     *)
(* list and nothing else.  The class can write more: it gives the type of the *)
(* result, and of the elements of a structure in it, without a look at the    *)
(* code (cna.c:170-247, 312-322 against cna.xml:165-184, 503).                *)
AcceptsExactlyWellFormed ==
    [][pc # "idle" /\ pc' = "idle" =>
        (result' = "bad_type" <=> argtypes \notin WellFormed)]_vars

(* A call returns, whatever the type string and the sizes are, unless memory  *)
(* runs out (cna.c:312, 236).                                                 *)
CallReturns == pc # "idle" ~> pc \in {"idle", "dead"}
=============================================================================
