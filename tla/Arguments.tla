----------------------------- MODULE Arguments -----------------------------
(***************************************************************************)
(* The arguments of a call, from CallFunction of the class, which joins    *)
(* the strings of bytes its conversions give (cna.xml:488-502), to the     *)
(* loop of call_function, which takes the buffer apart again               *)
(* (cna.c:312-338).  Only a structure says how long it is, in a header     *)
(* before its bytes; its bytes are fewer if values are missing, and the    *)
(* bytes of a pointer are whatever string the client gives.  Headers are   *)
(* read before the length of the buffer is tested, once.                   *)
(*                                                                         *)
(* The type of the result adds the same number to both sides of the test   *)
(* and is left out.                                                        *)
(***************************************************************************)
EXTENDS Integers, Sequences

CONSTANTS
    Types,          \* types of arguments
    Structs,        \* those of Types that are structures
    Size,           \* of each type, which class and libffi agree about (see Layout)
    Lengths,        \* the lengths a value of the type may have as a string
    Base,           \* values of a byte
    SizeofSizet,    \* sizeof(size_t)
    Bytes,          \* bytes clients give
    ArgumentLists   \* lists of types of arguments

\* The sums of the first elements of a sequence of numbers, however many.
Sums(numbers) ==
    LET sum[k \in 0 .. Len(numbers)] == IF k = 0 THEN 0 ELSE sum[k - 1] + numbers[k]
    IN  sum

\* What the bytes of a number of type size_t count, from the lowest; the last: the number of
\* these numbers.
Weight ==
    LET weight[k \in 0 .. SizeofSizet] == IF k = 0 THEN 1 ELSE Base * weight[k - 1]
    IN  weight
Wrap(n) == n % Weight[SizeofSizet]

\* The k-th byte, from the lowest, of a number of type size_t.
Digit(n, k) == (n \div Weight[k]) % Base
Number(bytes) == Sums([k \in DOMAIN bytes |-> bytes[k] * Weight[k - 1]])[Len(bytes)]

\* The header of a structure, as ConvertIntegerFromCacheToCNA writes it; other values have
\* none.
Header_NoPadding(t) == IF t \in Structs THEN <<Digit(Size[t], 0)>> ELSE <<>>
Header(t) == IF t \in Structs THEN [k \in 1 .. SizeofSizet |-> Digit(Size[t], k - 1)] ELSE <<>>

\* Where the values of a list of types end in the buffer, if they have their types' sizes.
Ends(list) == Sums([k \in DOMAIN list |-> Len(Header(list[k])) + Size[list[k]]])

\* size_t can count the bytes of any call: a type has at most 16 bytes for each of its codes, and
\* the codes of a call are a Cache string, of less than 4 million.  The string of a structure is
\* at most as long as its size (NeverLonger of Layout); an empty string is refused (cna.xml:428).
ASSUME ArgumentsAssumption ==
    /\ Structs \subseteq Types
    /\ SizeofSizet \in Nat \ {0} /\ Base \in Nat \ {0, 1}
    /\ Bytes \subseteq 0 .. Base - 1
    /\ Size \in [Types -> Nat \ {0}]
    /\ Lengths \in [Types -> SUBSET (Nat \ {0})]
    /\ \A t \in Structs : \A n \in Lengths[t] : n <= Size[t]
    /\ ArgumentLists \subseteq Seq(Types)
    /\ \A list \in ArgumentLists : Ends(list)[Len(list)] < Weight[SizeofSizet]

VARIABLES
    stage,      \* "class", "library", or how it ends: "called", "refused", "dead"
    types,
    args,       \* cnaArgs, the buffer
    places,     \* a history: where the class has put each value in it, and its length
    fullsize,
    ffi_values, \* offsets in args->data
    reads       \* a history: the offsets headers were read at

argumentsVars == <<stage, types, args, places, fullsize, ffi_values, reads>>

ArgumentsInit ==
    /\ stage = "class"
    /\ types \in ArgumentLists
    /\ args = <<>> /\ places = <<>>
    /\ fullsize = 0 /\ ffi_values = <<>> /\ reads = <<>>

\* One iteration of the loop of CallFunction.
CallFunction ==
    /\ stage = "class"
    /\ Len(places) < Len(types)
    /\ LET t == types[Len(places) + 1] IN
        \E n \in Lengths[t] : \E value \in [1 .. n -> Bytes] :
            /\ args' = args \o Header(t) \o value
            /\ places' = Append(places, [at |-> Len(args \o Header(t)), length |-> n])
    /\ UNCHANGED <<stage, types, fullsize, ffi_values, reads>>

\* $ZF(-5, ...) of the whole buffer.
call ==
    /\ stage = "class"
    /\ Len(places) = Len(types)
    /\ stage' = "library"
    /\ UNCHANGED <<types, args, places, fullsize, ffi_values, reads>>

\* What *(args->data + k) may give: behind the buffer, and before it, anything.
At(k) == IF k < Len(args) THEN {args[k + 1]} ELSE 0 .. Base - 1
Beyond(at) == at + SizeofSizet > Len(args)

\* Where the loop takes the value to be: behind a header.
ValueAt(t) == IF t \in Structs THEN Wrap(fullsize + SizeofSizet) ELSE fullsize

\* One iteration of the loop of call_function, for an argument.
next_argument ==
    /\ stage = "library"
    /\ Len(ffi_values) < Len(types)
    /\ LET t == types[Len(ffi_values) + 1] IN
        /\ ffi_values' = Append(ffi_values, ValueAt(t))
        /\ IF t \in Structs
           THEN /\ reads' = Append(reads, fullsize)
                /\ \E bytes \in [1 .. SizeofSizet -> 0 .. Base - 1] :
                    /\ \A k \in DOMAIN bytes : bytes[k] \in At(Wrap(fullsize + k - 1))
                    /\ fullsize' = Wrap(fullsize + SizeofSizet + Number(bytes))
           ELSE /\ fullsize' = Wrap(fullsize + Size[t])
                /\ UNCHANGED reads
    /\ UNCHANGED <<stage, types, args, places>>

\* A header that is read behind the buffer may be in no page of the process.
segfault ==
    /\ stage = "library"
    /\ Len(ffi_values) < Len(types)
    /\ types[Len(ffi_values) + 1] \in Structs
    /\ Beyond(fullsize)
    /\ stage' = "dead"
    /\ reads' = Append(reads, fullsize)
    /\ UNCHANGED <<types, args, places, fullsize, ffi_values>>

\* The test of the length.
Fits_AtLeast == fullsize >= Len(args)
Fits == fullsize = Len(args)

check_length ==
    /\ stage = "library"
    /\ Len(ffi_values) = Len(types)
    /\ stage' = IF Fits THEN "called" ELSE "refused"
    /\ UNCHANGED <<types, args, places, fullsize, ffi_values, reads>>

ArgumentsNext == CallFunction \/ call \/ next_argument \/ segfault \/ check_length

ArgumentsSpec == ArgumentsInit /\ [][ArgumentsNext]_argumentsVars

-----------------------------------------------------------------------------
\* The variables keep their types: whatever headers are read, no offset is beyond size_t.
ArgumentsTypeOK ==
    /\ stage \in {"class", "library", "called", "refused", "dead"}
    /\ types \in ArgumentLists
    /\ args \in Seq(0 .. Base - 1)
    /\ places \in Seq([at : Nat, length : Nat])
    /\ fullsize \in 0 .. Weight[SizeofSizet] - 1
    /\ ffi_values \in Seq(Nat) /\ reads \in Seq(Nat)

\* The first n values have the length of their type.
Whole(n) == \A k \in 1 .. n : places[k].length = Size[types[k]]

\* Up to the first value that has not its type's length, call_function finds each value where
\* the class has put it, and reads each header in the buffer: a length read without a test
\* (cna.c:323) does no harm as long as no value is missing.
WholeArrives ==
    /\ \A k \in DOMAIN ffi_values : Whole(k - 1) => ffi_values[k] = places[k].at
    /\ Whole(Len(places)) => /\ stage \notin {"refused", "dead"}
                             /\ \A k \in DOMAIN reads : ~Beyond(reads[k])

\* The arguments in which something is missing, or too much.
Wrong == {k \in DOMAIN places : places[k].length # Size[types[k]]}

\* A call with values of a wrong length is refused, unless a header was read from another place
\* than its own, or one value is too long and another too short: values that are too short never
\* make up for each other (cna.xml:271-287; cna.c:323, 335).  The first can happen, since the bytes
\* at the place may be the upper half of a header and zeros of a value; the second takes a value
\* that is longer than its type, which a structure never is.
WrongLengthSeen ==
    stage = "called" =>
        \A k \in Wrong :
            \/ \E s \in DOMAIN types : types[s] \in Structs /\ ffi_values[s] # places[s].at
            \/ \E j \in Wrong : (places[j].length > Size[types[j]]) # (places[k].length > Size[types[k]])
=============================================================================
