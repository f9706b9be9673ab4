------------------------------ MODULE MCFfi64 ------------------------------
(***************************************************************************)
(* Ffi64 with the classes classify_argument gives, and with two registers  *)
(* of each kind, so that all are soon taken.                               *)
(***************************************************************************)
EXTENDS Ffi64

\* OneInteger, OneDouble: structures of one word.  Integers, Doubles, IntegerDouble,
\* DoubleInteger: structures in registers of one kind, and of both, in either order.
\* OneLongDouble: passed in memory, returned in a register of its own.  Five: in memory, not a
\* multiple of 8 bytes.  Straddler: refused by ffi_call, since the nested structure goes on in
\* the second word.
MCSize ==
    [Int32 |-> 4, Double |-> 8, LongDouble |-> 16, OneInteger |-> 4, OneDouble |-> 8,
     Integers |-> 16, Doubles |-> 16, IntegerDouble |-> 16, DoubleInteger |-> 16,
     OneLongDouble |-> 16, Five |-> 20, Straddler |-> 12]

MCTypes == DOMAIN MCSize
MCStructs == Types \ {"Int32", "Double", "LongDouble"}

MCAlignment ==
    [t \in Types |-> CASE t \in {"Int32", "OneInteger", "Five", "Straddler"} -> 4
                       [] t \in {"LongDouble", "OneLongDouble"} -> 16
                       [] OTHER -> 8]

MCClasses ==
    [Int32 |-> <<"INTEGERSI">>, Double |-> <<"SSEDF">>, LongDouble |-> <<"X87", "X87UP">>,
     OneInteger |-> <<"INTEGERSI">>, OneDouble |-> <<"SSEDF">>, OneLongDouble |-> <<"X87", "X87UP">>,
     Integers |-> <<"INTEGER", "INTEGER">>, Doubles |-> <<"SSEDF", "SSEDF">>,
     IntegerDouble |-> <<"INTEGERSI", "SSEDF">>, DoubleInteger |-> <<"SSEDF", "INTEGERSI">>,
     Five |-> <<>>, Straddler |-> <<"INTEGER", "NO">>]

\* Structures of one scalar are passed as the scalar is, and differ as results only.
Passed == MCTypes \ {"OneInteger", "OneDouble", "OneLongDouble"}
MCArgumentLists == UNION {[1 .. n -> Passed] : n \in 0 .. 3}

-----------------------------------------------------------------------------
Char == Scalar("integer", 1)
Int32 == Scalar("integer", 4)
Int64 == Scalar("integer", 8)
Double == Scalar("double", 8)
LongDouble == Scalar("longdouble", 16)

FfiType ==
    [Int32 |-> Int32, Double |-> Double, LongDouble |-> LongDouble,
     OneInteger |-> Struct(<<Int32>>), OneDouble |-> Struct(<<Double>>),
     OneLongDouble |-> Struct(<<LongDouble>>),
     Integers |-> Struct(<<Int64, Int64>>), Doubles |-> Struct(<<Double, Double>>),
     IntegerDouble |-> Struct(<<Int32, Double>>), DoubleInteger |-> Struct(<<Double, Char>>),
     Five |-> Struct(<<Int32, Int32, Int32, Int32, Int32>>),
     Straddler |-> Struct(<<Int32, Struct(<<Int32, Int32>>)>>)]

Structures == {t \in {FfiType[name] : name \in DOMAIN FfiType} : t.kind = "struct"}
Known ==
    {FfiType[name] : name \in DOMAIN FfiType}
        \cup UNION {{t.elements[k] : k \in DOMAIN t.elements} : t \in Structures}

\* classify_argument, as Classify has it in steps.
classify_argument[t \in Known, byte_offset \in 0 .. 7] ==
    IF t.kind # "struct" THEN classify_scalar(t, byte_offset)
    ELSE LET all[k \in 0 .. Len(t.elements)] ==
                 IF k = 0 THEN [w \in 1 .. Words(t) |-> "NO"]
                 ELSE LET offset == byte_offset + t.offsets[k]
                      IN  MergeField(all[k - 1], offset, classify_argument[t.elements[k], offset % 8])
             classes == all[Len(t.elements)]
         IN  IF TooLarge(t) \/ MustBeMemory(classes) THEN <<>> ELSE classes

\* The tables are what initialize_aggregate and classify_argument compute; a word without a
\* class is refused, whatever the class of the other.
ASSUME TablesAreComputed ==
    /\ \A t \in MCTypes : MCSize[t] = FfiType[t].size /\ MCAlignment[t] = FfiType[t].alignment
    /\ \A t \in MCTypes \ {"Straddler"} : MCClasses[t] = classify_argument[FfiType[t], 0]
    /\ MCClasses["Straddler"][2] = classify_argument[FfiType["Straddler"], 0][2]
=============================================================================
