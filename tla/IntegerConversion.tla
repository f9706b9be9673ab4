------------------------- MODULE IntegerConversion --------------------------
(***************************************************************************)
(* How an integer goes from Cache into a native function and back          *)
(* (ConvertIntegerFromCacheToCNA, ConvertIntegerFromCNAToCache and the     *)
(* two helpers that move between signed and unsigned, in cna.xml).         *)
(*                                                                         *)
(* The client passes a value as an argument of some integer type; the      *)
(* native function sees a word of that type's size and returns a word of   *)
(* the same type; the client gets a value, and may pass it on.             *)
(***************************************************************************)
EXTENDS Integers

CONSTANTS
    TypeSizes,  \* the size of each integer type, from get_sizes
    Half        \* Half[s]: half the number of values of a word of s bytes (2^(8s-1))

UCHAR == 1
UINT == 3
USHORT == 5
ULONG == 7
UINT64 == 9
SIZET == 15

Type == DOMAIN TypeSizes

\* The types that are signed in C: signed char, int, short, long, int64_t.
Signed == {2, 4, 6, 8, 10}

ASSUME WordsAssumption ==
    /\ Type = 1 .. 10 \cup {15}
    /\ TypeSizes \in [Type -> {1, 2, 4, 8}]
    /\ Half \in [{1, 2, 4, 8} -> Nat \ {0}]

VARIABLES
    pc,     \* "client", "native", "return", or where it ends: "refused", "garbled"
    type,   \* the type of the argument and of the result
    value,  \* the Cache integer passed as argument
    word,   \* the bits the native function was given, then those it returned
    echo,   \* the native function returned its argument
    result  \* the Cache integer the client got

vars == <<pc, type, value, word, echo, result>>

size == TypeSizes[type]
Words(s) == 2 * Half[s]
max(s) == Half[s] - 1
minusOne(s) == Words(s) - 1

\* The list of types both conversions treat as unsigned.
isUnsigned_NoSizet(t) == t \in {UCHAR, UINT, USHORT, ULONG, UINT64}
isUnsigned(t) == t \in {UCHAR, UINT, USHORT, ULONG, SIZET, UINT64}

\* The sizes for which signed values are converted to unsigned ones by hand.
ByHand(t) == ~isUnsigned(t) /\ TypeSizes[t] \in {1, 2, 4}

-----------------------------------------------------------------------------
\* SignedToUnsigned: its test, and its value.
Illegal_NoUpperBound(v, s) == v <= -max(s)
Illegal(v, s) == v > max(s) \/ v <= -max(s)
SignedToUnsigned_MinusOne(v, s) == IF v < 0 THEN minusOne(s) + v ELSE v
SignedToUnsigned(v, s) == IF v < 0 THEN minusOne(s) + v + 1 ELSE v

\* UnsignedToSigned: its test, and its value.
IllegalWord(w, s) == w < 0 \/ w > minusOne(s)
UnsignedToSigned(w, s) == IF w > max(s) THEN w - minusOne(s) - 1 ELSE w

\* $CHAR, $ZWCHAR and $ZLCHAR take unsigned values and $ZQCHAR signed ones; the
\* empty string they return for any other value is refused by the caller.
Packable(v, s) == IF s = 8 THEN v \in -Half[s] .. Half[s] - 1 ELSE v \in 0 .. Words(s) - 1
Packed(v, s) == IF s = 8 /\ v < 0 THEN v + Words(s) ELSE v

\* $ASCII, $ZWASCII and $ZLASCII return unsigned values, $ZQASCII a signed one.
Unpacked(w, s) == IF s = 8 /\ w >= Half[s] THEN w - Words(s) ELSE w

\* The value of a word for C, whose integers are in two's complement.
CValue(w, t) == IF t \in Signed /\ w >= Half[TypeSizes[t]] THEN w - Words(TypeSizes[t]) ELSE w

-----------------------------------------------------------------------------
Init ==
    /\ pc = "client"
    /\ type \in Type
    /\ value = 0 /\ word = 0 /\ echo = FALSE /\ result = 0

\* The client passes a number of its own, a little out of range or not, or the last
\* result again.
ConvertIntegerFromCacheToCNA ==
    /\ pc = "client"
    /\ value' \in -Words(size) .. Words(size)
    /\ IF ByHand(type) /\ Illegal(value', size)
       THEN pc' = "refused" /\ UNCHANGED word
       ELSE LET v == IF ByHand(type) THEN SignedToUnsigned(value', size) ELSE value'
            IN  IF Packable(v, size)
                THEN pc' = "native" /\ word' = Packed(v, size)
                ELSE pc' = "refused" /\ UNCHANGED word
    /\ UNCHANGED <<type, echo, result>>

\* The native function reads its argument and returns it, or any other word.
native_function ==
    /\ pc = "native"
    /\ pc' = "return"
    /\ \/ echo' = TRUE /\ UNCHANGED <<word, value>>
       \/ echo' = FALSE /\ word' \in 0 .. Words(size) - 1 /\ value' = 0
    /\ UNCHANGED <<type, result>>

ConvertIntegerFromCNAToCache ==
    /\ pc = "return"
    /\ LET v == Unpacked(word, size)
       IN  IF ByHand(type) /\ IllegalWord(v, size)
           THEN pc' = "garbled" /\ UNCHANGED result
           ELSE /\ pc' = "client"
                /\ result' = IF ByHand(type) THEN UnsignedToSigned(v, size) ELSE v
    /\ UNCHANGED <<type, value, word, echo>>

Next ==
    \/ ConvertIntegerFromCacheToCNA
    \/ native_function
    \/ ConvertIntegerFromCNAToCache

Spec == Init /\ [][Next]_vars

-----------------------------------------------------------------------------
(* Type invariant. *)
TypeOK ==
    /\ pc \in {"client", "native", "return", "refused", "garbled"}
    /\ type \in Type
    /\ value \in -Words(size) .. Words(size)
    /\ word \in 0 .. Words(size) - 1
    /\ echo \in BOOLEAN
    /\ result \in -Words(size) .. Words(size)

\* Cache has no integers beyond the signed words of eight bytes: UINT64 is documented
\* not to work there (cna.xml:92-94), and SIZET is alike where it has eight bytes.
BeyondCache == type \notin Signed /\ size = 8 /\ word >= Half[8]

(* What is not refused arrives: the native function sees the very number the  *)
(* client passed, whatever the type, its sign and its size (cna.xml:313-330,  *)
(* 351-373).                                                                  *)
PassedExactly == pc = "native" => CValue(word, type) = value \/ BeyondCache

(* The client gets the very number the native function returned               *)
(* (cna.xml:332-349, 375-399).                                                *)
ReturnedExactly == pc = "client" => result = CValue(word, type) \/ BeyondCache

(* The two conversions are inverse: a function that returns its argument is   *)
(* the identity on the values the class accepts, beyond Cache's range too, as *)
(* the tests of _uchar ... _sint64 expect (tests/tests.xml:153-194).          *)
EchoIsIdentity == pc = "client" /\ echo => result = value

(* No word a native function can return makes the conversion back fail: the   *)
(* test of UnsignedToSigned never fires (cna.xml:341).                        *)
NeverGarbled == pc # "garbled"

(* Every number a signed type has in C can be passed: what the class calls a  *)
(* "Signed char." (cna.xml:47) is C's, from its least value to its largest.   *)
AcceptsWholeType ==
    pc = "refused" /\ type \in Signed => value \notin -Half[size] .. Half[size] - 1
=============================================================================
