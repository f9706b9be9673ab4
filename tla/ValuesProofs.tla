---------------------------- MODULE ValuesProofs ----------------------------
(***************************************************************************)
(* Theorems about the values of a call: that each integer is converted     *)
(* without loss, whatever size its type has and however many values a word *)
(* of that size, and that the buffer of all arguments is taken apart where *)
(* it was put together, whatever the types and the width of the headers.   *)
(***************************************************************************)
EXTENDS IntegerConversion, Arguments, FiniteSetTheorems, WellFoundedInduction, SequenceTheorems, TLAPS

-----------------------------------------------------------------------------
(* One integer. *)

(* The argument and the word are the same number, or, for unsigned types of   *)
(* eight bytes, congruent.                                                    *)
Corresponds == value = IF BeyondCache THEN word - Words(8) ELSE CValue(word, type)

(* The inductive invariant. *)
IInv ==
    /\ TypeOK
    /\ NeverGarbled
    /\ pc = "native" \/ (pc = "return" /\ echo) => Corresponds
    /\ ReturnedExactly
    /\ EchoIsIdentity

USE WordsAssumption

(* A type's size is one of four, and its words have an even number of values. *)
LEMMA Sizes ==
    ASSUME type \in Type
    PROVE  /\ size \in {1, 2, 4, 8}
           /\ Half[size] \in Nat \ {0}
           /\ Words(size) = 2 * Half[size]
           /\ max(size) = Half[size] - 1
           /\ minusOne(size) = 2 * Half[size] - 1
           /\ ~isUnsigned(type) <=> type \in Signed
BY DEF size, Words, max, minusOne, isUnsigned, Signed, UCHAR, UINT, USHORT, ULONG, SIZET, UINT64

LEMMA InitIInv == Init => IInv
<1>1. SUFFICES ASSUME Init PROVE IInv
  OBVIOUS
<1>2. type \in Type
  BY <1>1 DEF Init
<1>3. TypeOK
  <2>1. 2 * Half[size] \in Nat \ {0}
    BY <1>2, Sizes
  <2>2. 0 \in -Words(size) .. Words(size) /\ 0 \in 0 .. Words(size) - 1
    BY <1>2, <2>1, Sizes
  <2>3. QED
    BY <1>1, <1>2, <2>2 DEF Init, TypeOK
<1>4. CValue(0, type) = 0
  BY <1>2, Sizes DEF CValue, size
<1>5. QED
  BY <1>1, <1>3, <1>4
  DEF Init, IInv, NeverGarbled, ReturnedExactly, EchoIsIdentity

LEMMA NextIInv == IInv /\ [Next]_vars => IInv'
<1>. SUFFICES ASSUME IInv, [Next]_vars PROVE IInv'
  OBVIOUS
<1>. DEFINE h == Half[size]
<1>1. /\ type \in Type
      /\ value \in -(2 * h) .. 2 * h /\ result \in -(2 * h) .. 2 * h
      /\ word \in 0 .. 2 * h - 1 /\ echo \in BOOLEAN
      /\ h \in Nat \ {0} /\ h = Half[TypeSizes[type]]
      /\ size \in {1, 2, 4, 8} /\ size = TypeSizes[type]
      /\ Words(size) = 2 * h /\ max(size) = h - 1 /\ minusOne(size) = 2 * h - 1
      /\ ~isUnsigned(type) <=> type \in Signed
  BY Sizes DEF IInv, TypeOK, size
<1>2. CASE ConvertIntegerFromCacheToCNA
  <2>. DEFINE v == IF ByHand(type) THEN SignedToUnsigned(value', size) ELSE value'
  <2>1. /\ pc = "client" /\ value' \in -(2 * h) .. 2 * h
        /\ UNCHANGED <<type, echo, result>> /\ size' = size
        /\ \/ pc' = "refused" /\ word' = word
           \/ /\ ~(ByHand(type) /\ Illegal(value', size))
              /\ Packable(v, size) /\ pc' = "native" /\ word' = Packed(v, size)
    BY <1>1, <1>2 DEF ConvertIntegerFromCacheToCNA, size
  <2>2. CASE pc' = "refused" /\ word' = word
    BY <1>1, <2>1, <2>2 DEF IInv, TypeOK, NeverGarbled, ReturnedExactly, EchoIsIdentity, Words
  <2>3. CASE /\ ~(ByHand(type) /\ Illegal(value', size))
             /\ Packable(v, size) /\ pc' = "native" /\ word' = Packed(v, size)
    <3>1. CASE ByHand(type)
      <4>1. /\ size # 8 /\ type \in Signed
            /\ value' > -(h - 1) /\ value' <= h - 1
        BY <1>1, <2>1, <2>3, <3>1 DEF ByHand, Illegal
      <4>2. v = IF value' < 0 THEN 2 * h + value' ELSE value'
        BY <1>1, <2>1, <3>1 DEF SignedToUnsigned
      <4>3. word' = v
        BY <2>3, <4>1 DEF Packed
      <4>. HIDE DEF v, h
      <4>4. word' \in 0 .. 2 * h - 1 /\ value' = IF word' >= h THEN word' - 2 * h ELSE word'
        BY <1>1, <2>1, <4>1, <4>2, <4>3
      <4>5. ~BeyondCache' /\ CValue(word, type)' = value'
        BY <1>1, <2>1, <4>1, <4>4 DEF BeyondCache, CValue, Words, h
      <4>6. QED
        BY <1>1, <2>1, <2>3, <4>4, <4>5
        DEF IInv, TypeOK, NeverGarbled, Corresponds, ReturnedExactly, EchoIsIdentity, Words, h
    <3>2. CASE ~ByHand(type) /\ size # 8
      <4>1. type \notin Signed /\ word' = value' /\ word' \in 0 .. 2 * h - 1
        BY <1>1, <2>1, <2>3, <3>2 DEF ByHand, Packable, Packed
      <4>2. ~BeyondCache' /\ CValue(word, type)' = value'
        BY <1>1, <2>1, <3>2, <4>1, SMTT(60) DEF BeyondCache, CValue
      <4>3. QED
        BY <1>1, <2>1, <2>3, <4>1, <4>2
        DEF IInv, TypeOK, NeverGarbled, Corresponds, ReturnedExactly, EchoIsIdentity, Words
    <3>3. CASE ~ByHand(type) /\ size = 8
      <4>1. /\ value' \in -h .. h - 1
            /\ word' = IF value' < 0 THEN value' + 2 * h ELSE value'
        BY <1>1, <2>1, <2>3, <3>3 DEF Packable, Packed
      <4>. HIDE DEF h
      <4>2. /\ word' \in 0 .. 2 * h - 1
            /\ value' = IF word' >= h THEN word' - 2 * h ELSE word'
        BY <1>1, <4>1
      <4>3. Corresponds'
        BY <1>1, <2>1, <3>3, <4>2 DEF Corresponds, BeyondCache, CValue, Words, h
      <4>4. QED
        BY <1>1, <2>1, <2>3, <4>2, <4>3
        DEF IInv, TypeOK, NeverGarbled, ReturnedExactly, EchoIsIdentity, Words, h
    <3>4. QED
      BY <3>1, <3>2, <3>3
  <2>4. QED
    BY <2>1, <2>2, <2>3
<1>3. CASE native_function
  <2>1. /\ pc = "native" /\ pc' = "return" /\ UNCHANGED <<type, result>> /\ size' = size
        /\ \/ echo' = TRUE /\ UNCHANGED <<word, value>>
           \/ echo' = FALSE /\ word' \in 0 .. 2 * h - 1 /\ value' = 0
    BY <1>1, <1>3 DEF native_function, size
  <2>2. TypeOK'
    <3>1. Words(size)' = 2 * h
      BY <1>1, <2>1 DEF Words
    <3>. HIDE DEF h
    <3>2. 0 \in -(2 * h) .. 2 * h
      BY <1>1
    <3>3. value' \in -(2 * h) .. 2 * h /\ result' \in -(2 * h) .. 2 * h
      BY <1>1, <2>1, <3>2
    <3>4. word' \in 0 .. 2 * h - 1
      BY <1>1, <2>1
    <3>5. echo' \in BOOLEAN
      BY <2>1
    <3>6. QED
      BY <1>1, <2>1, <3>1, <3>3, <3>4, <3>5 DEF TypeOK
  <2>3. echo' => Corresponds'
    BY <2>1 DEF IInv, Corresponds, BeyondCache, CValue, Words
  <2>4. QED
    BY <2>1, <2>2, <2>3 DEF IInv, NeverGarbled, ReturnedExactly, EchoIsIdentity
<1>4. CASE ConvertIntegerFromCNAToCache
  <2>. DEFINE v == Unpacked(word, size)
  <2>1. /\ pc = "return" /\ UNCHANGED <<type, value, word, echo>> /\ size' = size
        /\ \/ ByHand(type) /\ IllegalWord(v, size)
           \/ /\ ~(ByHand(type) /\ IllegalWord(v, size))
              /\ pc' = "client"
              /\ result' = IF ByHand(type) THEN UnsignedToSigned(v, size) ELSE v
    BY <1>1, <1>4 DEF ConvertIntegerFromCNAToCache, size
  <2>2. ~(ByHand(type) /\ IllegalWord(v, size))
    BY <1>1 DEF ByHand, IllegalWord, Unpacked
  <2>3. result' = IF BeyondCache THEN word - Words(8) ELSE CValue(word, type)
    <3>1. CASE ByHand(type)
      <4>1. size # 8 /\ type \in Signed /\ v = word
        BY <1>1, <3>1 DEF ByHand, Unpacked
      <4>2. QED
        BY <1>1, <2>1, <2>2, <3>1, <4>1 DEF UnsignedToSigned, BeyondCache, CValue
    <3>2. CASE ~ByHand(type) /\ size # 8
      <4>1. type \notin Signed /\ v = word
        BY <1>1, <3>2 DEF ByHand, Unpacked
      <4>2. QED
        BY <1>1, <2>1, <2>2, <3>2, <4>1 DEF BeyondCache, CValue
    <3>3. CASE ~ByHand(type) /\ size = 8
      BY <1>1, <2>1, <2>2, <3>3 DEF BeyondCache, CValue, Unpacked
    <3>4. QED
      BY <3>1, <3>2, <3>3
  <2>4. result' \in -(2 * h) .. 2 * h
    <3>1. result' = word \/ result' = word - 2 * h
      BY <1>1, <2>3 DEF BeyondCache, CValue
    <3>. HIDE DEF h
    <3>2. QED
      BY <1>1, <3>1
  <2>5. pc' = "client"
    BY <2>1, <2>2
  <2>6. BeyondCache' = BeyondCache /\ CValue(word, type)' = CValue(word, type)
    BY <2>1 DEF BeyondCache, CValue, Words
  <2>7. echo => result' = value
    BY <2>1, <2>3 DEF IInv, Corresponds
  <2>8. QED
    BY <1>1, <2>1, <2>3, <2>4, <2>5, <2>6, <2>7
    DEF IInv, TypeOK, NeverGarbled, ReturnedExactly, EchoIsIdentity, Words
<1>5. CASE UNCHANGED vars
  BY <1>5 DEF vars, IInv, TypeOK, NeverGarbled, Corresponds, ReturnedExactly, EchoIsIdentity,
              BeyondCache, CValue, Words, size
<1>6. QED
  BY <1>2, <1>3, <1>4, <1>5 DEF Next

LEMMA Invariance == Spec => []IInv
BY InitIInv, NextIInv, PTL DEF Spec

(* The variables keep their types, whatever is converted. *)
THEOREM TypeCorrect == Spec => []TypeOK
BY Invariance, PTL DEF IInv

(* A number that is not refused reaches the native function unchanged, on     *)
(* every platform (cna.xml:351-373).                                          *)
THEOREM ArgumentsExact == Spec => []PassedExactly
<1>1. IInv => PassedExactly
  BY DEF IInv, PassedExactly, Corresponds
<1>2. QED
  BY <1>1, Invariance, PTL

(* The client gets the number the native function returned, on every platform *)
(* (cna.xml:375-399).                                                         *)
THEOREM ResultsExact == Spec => []ReturnedExactly
BY Invariance, PTL DEF IInv

(* Passing a number through a function that returns its argument is the       *)
(* identity, on every platform.                                               *)
THEOREM RoundTrip == Spec => []EchoIsIdentity
BY Invariance, PTL DEF IInv

(* The test of UnsignedToSigned never fires (cna.xml:341). *)
THEOREM NoResultRefused == Spec => []NeverGarbled
BY Invariance, PTL DEF IInv

HIDE WordsAssumption

-----------------------------------------------------------------------------
(* All arguments.  Numbers and their headers first: the sums and weights they are defined by are
   recursive functions, which exist, since a number is reached from 0 in steps of one.            *)


LEMMA LeastNatural ==
    ASSUME NEW S \in SUBSET Nat, S # {}
    PROVE  \E m \in S : \A k \in S : m <= k
<1>. DEFINE R == StrictSubsetOrdering(Nat)
            T == {0 .. k : k \in S}
<1>1. IsWellFoundedOn(R, FiniteSubsetsOf(Nat))
  BY FS_StrictSubsetOrderingWellFounded
<1>2. T \subseteq FiniteSubsetsOf(Nat) /\ T # {}
  <2>1. ASSUME NEW k \in S
        PROVE  0 .. k \in FiniteSubsetsOf(Nat)
    <3>1. k \in Int /\ 0 .. k \in SUBSET Nat
      OBVIOUS
    <3>2. IsFiniteSet(0 .. k)
      BY <3>1, FS_Interval
    <3>3. QED
      BY <3>1, <3>2 DEF FiniteSubsetsOf
  <2>2. QED
    BY <2>1
<1>. HIDE DEF R, T
<1>3. PICK x \in T : \A y \in T : ~ (<<y, x>> \in R)
  BY <1>1, <1>2, WFMin
<1>4. PICK m \in S : x = 0 .. m
  BY DEF T
<1>5. ASSUME NEW k \in S, k < m
      PROVE  FALSE
  <2>1. 0 .. k \in T /\ 0 .. k \subseteq x /\ 0 .. k # x
    BY <1>4, <1>5 DEF T
  <2>2. <<0 .. k, x>> \in R
    BY <1>2, <1>4, <2>1 DEF R, StrictSubsetOrdering
  <2>3. QED
    BY <1>3, <2>1, <2>2
<1>6. QED
  BY <1>5

LEMMA Induction ==
    ASSUME NEW S \in SUBSET Nat, 0 \in S, \A n \in S : n + 1 \in S
    PROVE  S = Nat
<1>1. SUFFICES ASSUME Nat \ S # {} PROVE FALSE
  OBVIOUS
<1>2. PICK m \in Nat \ S : \A k \in Nat \ S : m <= k
  BY <1>1, LeastNatural
<1>3. m # 0 /\ m - 1 \in Nat /\ m - 1 \in S
  BY <1>2
<1>4. m - 1 + 1 \in S
  BY <1>3
<1> QED
  BY <1>2, <1>4

LEMMA Recursion ==
    ASSUME NEW n \in Nat, NEW z \in Nat, NEW g \in [(1 .. n) \X Nat -> Nat]
    PROVE  \E f \in [0 .. n -> Nat] :
                f[0] = z /\ \A k \in 1 .. n : f[k] = g[<<k, f[k - 1]>>]
<1>. DEFINE Is(f, m) == f[0] = z /\ \A k \in 1 .. m : f[k] = g[<<k, f[k - 1]>>]
            S == {m \in Nat : m <= n => \E f \in [0 .. m -> Nat] : Is(f, m)}
<1>1. 0 \in S
  <2>1. [k \in 0 .. 0 |-> z] \in [0 .. 0 -> Nat] /\ Is([k \in 0 .. 0 |-> z], 0)
    OBVIOUS
  <2> QED
    BY <2>1
<1>2. ASSUME NEW m \in S PROVE m + 1 \in S
  <2>1. m \in Nat /\ m + 1 \in Nat /\ (m <= n => \E f \in [0 .. m -> Nat] : Is(f, m))
    OBVIOUS
  <2>. HIDE DEF Is
  <2>2. SUFFICES ASSUME m + 1 <= n PROVE \E f \in [0 .. m + 1 -> Nat] : Is(f, m + 1)
    BY <2>1
  <2>3. PICK f \in [0 .. m -> Nat] : Is(f, m)
    BY <2>1, <2>2
  <2>. DEFINE h == [k \in 0 .. m + 1 |-> IF k = m + 1 THEN g[<<m + 1, f[m]>>] ELSE f[k]]
  <2>4. h \in [0 .. m + 1 -> Nat]
    BY <2>1, <2>2
  <2>5. Is(h, m + 1)
    <3>1. \A k \in 1 .. m + 1 : k \in 0 .. m + 1 /\ k - 1 \in 0 .. m + 1 /\ k - 1 # m + 1
      BY <2>1
    <3>2. \A k \in 1 .. m : k # m + 1 /\ h[k] = f[k] /\ h[k - 1] = f[k - 1]
      BY <2>1, <3>1
    <3>3. h[m + 1] = g[<<m + 1, f[m]>>] /\ h[m + 1 - 1] = f[m]
      BY <2>1, <3>1
    <3>4. \A k \in 1 .. m + 1 : k \in 1 .. m \/ k = m + 1
      BY <2>1
    <3>5. h[0] = z
      BY <2>1, <2>3 DEF Is
    <3>. HIDE DEF h
    <3>6. ASSUME NEW k \in 1 .. m + 1
          PROVE  h[k] = g[<<k, h[k - 1]>>]
      <4>1. CASE k = m + 1
        <5>1. h[k - 1] = f[m]
          BY <3>3, <4>1
        <5> QED
          BY <3>3, <4>1, <5>1
      <4>2. CASE k \in 1 .. m
        BY <2>3, <3>2, <4>2 DEF Is
      <4> QED
        BY <3>4, <4>1, <4>2
    <3> QED
      BY <3>5, <3>6 DEF Is
  <2>. HIDE DEF h
  <2> QED
    BY <2>4, <2>5
<1>. HIDE DEF S
<1>3. n \in S
  BY <1>1, <1>2, Induction DEF S
<1> QED
  BY <1>3 DEF S

LEMMA SumsAre ==
    ASSUME NEW a \in Seq(Nat)
    PROVE  /\ Sums(a) \in [0 .. Len(a) -> Nat]
           /\ Sums(a)[0] = 0
           /\ \A k \in 1 .. Len(a) : Sums(a)[k] = Sums(a)[k - 1] + a[k]
<1>. DEFINE n == Len(a)
            g == [p \in (1 .. n) \X Nat |-> p[2] + a[p[1]]]
            Is(s) == s = [k \in 0 .. n |-> IF k = 0 THEN 0 ELSE s[k - 1] + a[k]]
<1>1. PICK f \in [0 .. n -> Nat] : f[0] = 0 /\ \A k \in 1 .. n : f[k] = g[<<k, f[k - 1]>>]
  <2>1. n \in Nat /\ 0 \in Nat /\ g \in [(1 .. n) \X Nat -> Nat]
    OBVIOUS
  <2>. HIDE DEF n, g
  <2>2. \A z \in Nat : \A h \in [(1 .. n) \X Nat -> Nat] :
            \E f \in [0 .. n -> Nat] :
                f[0] = z /\ \A k \in 1 .. n : f[k] = h[<<k, f[k - 1]>>]
    BY <2>1, Recursion
  <2> QED
    BY <2>1, <2>2
<1>2. \A k \in 1 .. n : k - 1 \in 0 .. n /\ f[k] = f[k - 1] + a[k]
  <2>1. ASSUME NEW k \in 1 .. n
        PROVE  k - 1 \in 0 .. n /\ f[k] = f[k - 1] + a[k]
    <3>1. f[k] = g[<<k, f[k - 1]>>]
      BY <1>1
    <3>2. n \in Nat /\ k - 1 \in 0 .. n
      OBVIOUS
    <3>3. f[k - 1] \in Nat
      BY <3>2
    <3>4. g[<<k, f[k - 1]>>] = f[k - 1] + a[k]
      BY <3>3
    <3> QED
      BY <3>1, <3>2, <3>4
  <2> QED
    BY <2>1
<1>3. Is(f)
  BY <1>1, <1>2
<1>4. ASSUME NEW s, Is(s)
      PROVE  s \in [0 .. n -> Nat] /\ s[0] = 0 /\ \A k \in 1 .. n : s[k] = s[k - 1] + a[k]
  <2>0. n \in Nat
    OBVIOUS
  <2>1. \A k \in 0 .. n : s[k] = IF k = 0 THEN 0 ELSE s[k - 1] + a[k]
    BY <1>4
  <2>2. s[0] = 0 /\ \A k \in 1 .. n : s[k] = s[k - 1] + a[k]
    BY ONLY <2>0, <2>1
  <2>. DEFINE T == {m \in Nat : m <= n => s[m] \in Nat}
  <2>3. T = Nat
    <3>1. 0 \in T
      BY <2>2
    <3>2. ASSUME NEW m \in T PROVE m + 1 \in T
      <4>1. SUFFICES ASSUME m + 1 <= n PROVE s[m + 1] \in Nat
        OBVIOUS
      <4>2. s[m + 1] = s[m] + a[m + 1] /\ s[m] \in Nat /\ a[m + 1] \in Nat
        BY <2>2, <4>1
      <4> QED
        BY <4>2
    <3>. HIDE DEF T
    <3> QED
      BY <3>1, <3>2, Induction DEF T
  <2>4. \A k \in 0 .. n : s[k] \in Nat
    BY <2>3
  <2>5. s = [k \in 0 .. n |-> s[k]]
    BY <1>4
  <2> QED
    BY <2>2, <2>4, <2>5
<1>5. Is(Sums(a))
  BY <1>3 DEF Sums
<1>. HIDE DEF Is
<1> QED
  BY <1>4, <1>5

LEMMA WeightIs ==
    /\ Weight \in [0 .. SizeofSizet -> Nat \ {0}]
    /\ Weight[0] = 1
    /\ \A k \in 1 .. SizeofSizet : Weight[k] = Base * Weight[k - 1]
<1>. DEFINE n == SizeofSizet
            g == [p \in (1 .. n) \X Nat |-> Base * p[2]]
            Is(s) == s = [k \in 0 .. n |-> IF k = 0 THEN 1 ELSE Base * s[k - 1]]
<1>0. n \in Nat /\ Base \in Nat /\ Base > 1
  BY ArgumentsAssumption
<1>. HIDE DEF n
<1>1. PICK f \in [0 .. n -> Nat] : f[0] = 1 /\ \A k \in 1 .. n : f[k] = g[<<k, f[k - 1]>>]
  <2>1. g \in [(1 .. n) \X Nat -> Nat]
    BY <1>0
  <2>. HIDE DEF g
  <2>2. \A z \in Nat : \A h \in [(1 .. n) \X Nat -> Nat] :
            \E f \in [0 .. n -> Nat] :
                f[0] = z /\ \A k \in 1 .. n : f[k] = h[<<k, f[k - 1]>>]
    BY <1>0, Recursion
  <2>3. 1 \in Nat
    OBVIOUS
  <2> QED
    BY <2>1, <2>2, <2>3
<1>2. ASSUME NEW k \in 1 .. n
      PROVE  k - 1 \in 0 .. n /\ f[k] = Base * f[k - 1]
  <2>1. f[k] = g[<<k, f[k - 1]>>]
    BY <1>1
  <2>2. k - 1 \in 0 .. n
    BY <1>0
  <2>3. f[k - 1] \in Nat
    BY <2>2
  <2>4. g[<<k, f[k - 1]>>] = Base * f[k - 1]
    BY <2>3
  <2> QED
    BY <2>1, <2>2, <2>4
<1>. HIDE DEF g
<1>3. Is(f)
  BY <1>0, <1>1, <1>2
<1>4. ASSUME NEW s, Is(s)
      PROVE  s \in [0 .. n -> Nat \ {0}] /\ s[0] = 1 /\ \A k \in 1 .. n : s[k] = Base * s[k - 1]
  <2>1. \A k \in 0 .. n : s[k] = IF k = 0 THEN 1 ELSE Base * s[k - 1]
    BY <1>4
  <2>2. s[0] = 1 /\ \A k \in 1 .. n : s[k] = Base * s[k - 1]
    BY ONLY <1>0, <2>1
  <2>. DEFINE T == {m \in Nat : m <= n => s[m] \in Nat \ {0}}
  <2>3. T = Nat
    <3>1. 0 \in T
      BY <2>2
    <3>2. ASSUME NEW m \in T PROVE m + 1 \in T
      <4>1. SUFFICES ASSUME m + 1 <= n PROVE s[m + 1] \in Nat \ {0}
        OBVIOUS
      <4>2. s[m + 1] = Base * s[m] /\ s[m] \in Nat \ {0}
        BY <1>0, <2>2, <4>1
      <4> QED
        BY <1>0, <4>2
    <3>. HIDE DEF T
    <3> QED
      BY <3>1, <3>2, Induction DEF T
  <2>4. \A k \in 0 .. n : s[k] \in Nat \ {0}
    BY <1>0, <2>3
  <2>5. s = [k \in 0 .. n |-> s[k]]
    BY <1>4
  <2> QED
    BY <2>2, <2>4, <2>5
<1>5. Is(Weight)
  BY <1>3 DEF Weight, n
<1>. HIDE DEF Is
<1> QED
  BY <1>4, <1>5 DEF n

LEMMA Remainder ==
    ASSUME NEW p \in Int, NEW m \in Nat \ {0}, NEW r \in 0 .. m - 1
    PROVE  (p * m + r) % m = r
<1>. DEFINE n == p * m + r
            q == n \div m
            s == n % m
<1>1. n \in Int /\ q \in Int /\ s \in 0 .. m - 1 /\ n = m * q + s
  OBVIOUS
<1>2. m * (p - q) = s - r
  BY <1>1
<1>. HIDE DEF n, q, s
<1>3. p - q = 0
  <2>1. CASE p - q >= 1
    <3>1. m * (p - q) >= m
      BY <1>1, <2>1
    <3> QED
      BY <1>1, <1>2, <3>1
  <2>2. CASE p - q <= -1
    <3>1. m * (p - q) <= -m
      BY <1>1, <2>2
    <3> QED
      BY <1>1, <1>2, <3>1
  <2> QED
    BY <1>1, <2>1, <2>2
<1>4. s = r
  BY <1>1, <1>2, <1>3
<1> QED
  BY <1>4 DEF s, n

LEMMA NextDigit ==
    ASSUME NEW n \in Nat, NEW w \in Nat \ {0}, NEW b \in Nat \ {0}
    PROVE  n % (b * w) = (n % w) + ((n \div w) % b) * w
<1>. DEFINE q == n \div w
            r == n % w
            p == q \div b
            d == q % b
<1>1. q \in Nat /\ r \in 0 .. w - 1 /\ n = w * q + r
  OBVIOUS
<1>2. p \in Int /\ d \in 0 .. b - 1 /\ q = b * p + d
  BY <1>1
<1>. HIDE DEF q, r, p, d
<1>3. n = p * (b * w) + (d * w + r)
  BY <1>1, <1>2
<1>4. b * w \in Nat \ {0} /\ d * w + r \in 0 .. b * w - 1
  <2>1. d * w \in Nat /\ (b - 1 - d) * w \in Nat
    BY <1>2
  <2>2. d * w + (b - 1 - d) * w = b * w - w
    BY <1>2
  <2> QED
    BY <1>1, <1>2, <2>1, <2>2
<1>5. n % (b * w) = d * w + r
  <2>. DEFINE m == b * w
              s == d * w + r
  <2>1. m \in Nat \ {0} /\ s \in 0 .. m - 1 /\ n = p * m + s
    BY <1>3, <1>4
  <2>. HIDE DEF m, s
  <2>2. n % m = s
    BY <1>2, <2>1, Remainder
  <2> QED
    BY <2>2 DEF m, s
<1> QED
  BY <1>1, <1>5 DEF q, r, d

LEMMA NumberOfDigits ==
    ASSUME NEW n \in 0 .. Weight[SizeofSizet] - 1
    PROVE  Number([k \in 1 .. SizeofSizet |-> Digit(n, k - 1)]) = n
<1>. DEFINE S == SizeofSizet
            bytes == [k \in 1 .. S |-> Digit(n, k - 1)]
            a == [k \in DOMAIN bytes |-> bytes[k] * Weight[k - 1]]
<1>1. S \in Nat /\ Base \in Nat \ {0}
  BY ArgumentsAssumption
<1>2. Weight \in [0 .. S -> Nat \ {0}] /\ Weight[0] = 1 /\ n \in Nat
  BY WeightIs, <1>1
<1>3. ASSUME NEW k \in 1 .. S
      PROVE  /\ k - 1 \in 0 .. S /\ a[k] = ((n \div Weight[k - 1]) % Base) * Weight[k - 1]
             /\ a[k] \in Nat
  <2>1. k - 1 \in 0 .. S
    BY <1>1
  <2>2. a[k] = ((n \div Weight[k - 1]) % Base) * Weight[k - 1]
    BY DEF Digit
  <2>3. Weight[k - 1] \in Nat \ {0}
    BY <1>2, <2>1
  <2>4. (n \div Weight[k - 1]) % Base \in Nat
    BY <1>1, <1>2, <2>3
  <2>5. ((n \div Weight[k - 1]) % Base) * Weight[k - 1] \in Nat
    BY <2>3, <2>4
  <2> QED
    BY <2>1, <2>2, <2>5
<1>4. a \in Seq(Nat) /\ Len(a) = S /\ Len(bytes) = S
  BY <1>1, <1>3
<1>5. Number(bytes) = Sums(a)[S]
  BY <1>4 DEF Number
<1>. HIDE DEF a, bytes, S
<1>6. /\ Sums(a)[0] = 0
      /\ \A k \in 1 .. S : Sums(a)[k] = Sums(a)[k - 1] + a[k]
  BY <1>4, SumsAre
<1>. DEFINE T == {m \in Nat : m <= S => Sums(a)[m] = n % Weight[m]}
<1>7. T = Nat
  <2>1. 0 \in T
    BY <1>2, <1>6
  <2>2. ASSUME NEW m \in T PROVE m + 1 \in T
    <3>1. SUFFICES ASSUME m + 1 <= S PROVE Sums(a)[m + 1] = n % Weight[m + 1]
      OBVIOUS
    <3>2. m \in Nat /\ m \in 0 .. S /\ m + 1 \in 1 .. S /\ m + 1 - 1 = m
      BY <1>1, <3>1
    <3>3. Sums(a)[m] = n % Weight[m]
      BY <3>2
    <3>4. Sums(a)[m + 1] = (n % Weight[m]) + ((n \div Weight[m]) % Base) * Weight[m]
      BY <1>3, <1>6, <3>2, <3>3
    <3>5. Weight[m + 1] = Base * Weight[m]
      BY <3>2, WeightIs DEF S
    <3>6. Weight[m] \in Nat \ {0}
      BY <1>2, <3>2
    <3>7. n % (Base * Weight[m]) = (n % Weight[m]) + ((n \div Weight[m]) % Base) * Weight[m]
      BY <1>1, <1>2, <3>6, NextDigit
    <3> QED
      BY <3>4, <3>5, <3>7
  <2>. HIDE DEF T
  <2> QED
    BY <2>1, <2>2, Induction DEF T
<1>8. Sums(a)[S] = n % Weight[S]
  BY <1>1, <1>7
<1>9. Weight[S] \in Nat \ {0} /\ n \in 0 .. Weight[S] - 1
  BY <1>1, <1>2 DEF S
<1>10. n % Weight[S] = n
  BY <1>9
<1> QED
  BY <1>5, <1>8, <1>10 DEF bytes, S

-----------------------------------------------------------------------------
(* The class. *)

PlaceEnd(k) == IF k = 0 THEN 0 ELSE places[k].at + places[k].length

\* No string up to the k-th is longer, or none shorter, than its type.
NoneLonger(k) == \A j \in 1 .. k : places[j].length <= Size[types[j]]
NoneShorter(k) == \A j \in 1 .. k : places[j].length >= Size[types[j]]

\* The values tile the buffer, and each header has the digits of its size.  Where none is longer
\* than its type they end no later than they should, and earlier if any is shorter; and so
\* the other way round.
Buffered ==
    /\ types \in ArgumentLists
    /\ args \in Seq(0 .. Base - 1)
    /\ places \in Seq([at : Nat, length : Nat])
    /\ Len(places) <= Len(types)
    /\ stage # "class" => Len(places) = Len(types)
    /\ PlaceEnd(Len(places)) = Len(args)
    /\ \A k \in 1 .. Len(places) :
        /\ places[k].at = PlaceEnd(k - 1) + Len(Header(types[k]))
        /\ PlaceEnd(k) <= Len(args)
        /\ types[k] \in Structs =>
            \A b \in 1 .. SizeofSizet : args[PlaceEnd(k - 1) + b] = Digit(Size[types[k]], b - 1)
    /\ \A k \in 0 .. Len(places) :
        /\ NoneLonger(k) => /\ PlaceEnd(k) <= Ends(types)[k]
                            /\ ~Whole(k) => PlaceEnd(k) < Ends(types)[k]
        /\ NoneShorter(k) => /\ PlaceEnd(k) >= Ends(types)[k]
                             /\ ~Whole(k) => PlaceEnd(k) > Ends(types)[k]

(* The library. *)

\* Every header up to the n-th argument has been read from its place.
InPlace(n) == \A s \in 1 .. n : types[s] \in Structs => ffi_values[s] = places[s].at

\* As long as the headers are read from their places, the library counts what the types need; and
\* they are, up to the first string that is not whole.
TakenApart ==
    /\ fullsize \in 0 .. Weight[SizeofSizet] - 1
    /\ ffi_values \in Seq(Nat) /\ Len(ffi_values) <= Len(types)
    /\ reads \in Seq(Nat)
    /\ stage \in {"class", "library", "called", "refused", "dead"}
    /\ stage = "class" => ffi_values = <<>> /\ reads = <<>> /\ fullsize = 0
    /\ InPlace(Len(ffi_values)) => fullsize = Ends(types)[Len(ffi_values)]
    /\ WholeArrives
    /\ stage = "called" => Len(ffi_values) = Len(types) /\ fullsize = Len(args)

ArgumentsIInv == Buffered /\ TakenApart

LEMMA SumsMonotone ==
    ASSUME NEW a \in Seq(Nat), NEW k \in 0 .. Len(a)
    PROVE  Sums(a)[k] <= Sums(a)[Len(a)]
<1>. DEFINE S == Sums(a)
            T == {m \in Nat : k + m <= Len(a) => S[k] <= S[k + m]}
<1>1. /\ S \in [0 .. Len(a) -> Nat] /\ Len(a) \in Nat
      /\ \A j \in 1 .. Len(a) : S[j] = S[j - 1] + a[j]
  BY SumsAre
<1>. HIDE DEF S
<1>2. 0 \in T
  BY <1>1
<1>3. ASSUME NEW m \in T PROVE m + 1 \in T
  <2>1. SUFFICES ASSUME k + (m + 1) <= Len(a) PROVE S[k] <= S[k + (m + 1)]
    OBVIOUS
  <2>2. m \in Nat /\ k + (m + 1) \in 1 .. Len(a) /\ k + m \in 0 .. Len(a) /\ k + (m + 1) - 1 = k + m
    BY <1>1, <2>1
  <2>3. S[k] <= S[k + m] /\ S[k + m] \in Nat /\ a[k + (m + 1)] \in Nat /\ S[k] \in Nat
    <3>1. k + m <= Len(a)
      BY <1>1, <2>1, <2>2
    <3>2. S[k] <= S[k + m]
      BY <3>1
    <3>3. S[k + m] \in Nat
      BY <1>1, <2>2
    <3>4. S[k] \in Nat
      BY <1>1
    <3>5. a[k + (m + 1)] \in Nat
      BY <2>2, ElementOfSeq
    <3> QED
      BY <3>2, <3>3, <3>4, <3>5
  <2>4. S[k + (m + 1)] = S[k + m] + a[k + (m + 1)]
    BY <1>1, <2>2
  <2>. QED
    BY <2>3, <2>4
<1>. HIDE DEF T
<1>4. T = Nat
  BY <1>2, <1>3, Induction DEF T
<1>5. Len(a) - k \in T /\ k + (Len(a) - k) = Len(a)
  BY <1>1, <1>4
<1> QED
  BY <1>5 DEF T, S

LEMMA HeaderIs ==
    ASSUME NEW t \in Types
    PROVE  /\ Header(t) \in Seq(0 .. Base - 1)
           /\ Len(Header(t)) = IF t \in Structs THEN SizeofSizet ELSE 0
           /\ t \in Structs =>
                \A b \in 1 .. SizeofSizet : Header(t)[b] = Digit(Size[t], b - 1)
<1>1. SizeofSizet \in Nat /\ Base \in Nat \ {0} /\ Size[t] \in Nat
  BY ArgumentsAssumption
<1>2. CASE t \in Structs
  <2>1. ASSUME NEW b \in 1 .. SizeofSizet
        PROVE  Digit(Size[t], b - 1) \in 0 .. Base - 1
    <3>1. Weight[b - 1] \in Nat \ {0}
      BY WeightIs, <1>1
    <3> QED
      BY <1>1, <3>1 DEF Digit
  <2>2. Header(t) = [k \in 1 .. SizeofSizet |-> Digit(Size[t], k - 1)]
    BY <1>2 DEF Header
  <2> QED
    BY <1>1, <1>2, <2>1, <2>2
<1>3. CASE t \notin Structs
  BY <1>3 DEF Header
<1> QED
  BY <1>2, <1>3

LEMMA EndsAre ==
    ASSUME NEW list \in ArgumentLists
    PROVE  /\ Ends(list) \in [0 .. Len(list) -> 0 .. Weight[SizeofSizet] - 1]
           /\ Ends(list)[0] = 0
           /\ \A k \in 1 .. Len(list) :
                Ends(list)[k] = Ends(list)[k - 1] + Len(Header(list[k])) + Size[list[k]]
<1>. DEFINE a == [k \in DOMAIN list |-> Len(Header(list[k])) + Size[list[k]]]
            n == Len(list)
            M == Weight[SizeofSizet]
<1>1. list \in Seq(Types) /\ Ends(list)[n] < M
  BY ArgumentsAssumption
<1>2. ASSUME NEW k \in 1 .. n
      PROVE  Len(Header(list[k])) \in Nat /\ Size[list[k]] \in Nat
  <2>1. list[k] \in Types
    BY <1>1
  <2>2. Header(list[k]) \in Seq(0 .. Base - 1)
    BY <2>1, HeaderIs
  <2>3. Size[list[k]] \in Nat
    BY <2>1, ArgumentsAssumption
  <2> QED
    BY <2>2, <2>3
<1>3. a \in Seq(Nat) /\ Len(a) = n
  BY <1>1, <1>2
<1>4. \A k \in 1 .. n : a[k] = Len(Header(list[k])) + Size[list[k]]
  BY <1>1
<1>5. Ends(list) = Sums(a)
  BY DEF Ends
<1>. HIDE DEF a
<1>6. /\ Sums(a) \in [0 .. n -> Nat] /\ Sums(a)[0] = 0
      /\ \A k \in 1 .. n : Sums(a)[k] = Sums(a)[k - 1] + a[k]
  BY <1>3, SumsAre
<1>7. M \in Nat
  BY WeightIs, ArgumentsAssumption
<1>8. \A k \in 0 .. n : Sums(a)[k] <= Sums(a)[n]
  BY <1>3, SumsMonotone
<1>9. Sums(a) \in [0 .. n -> 0 .. M - 1]
  <2>. HIDE DEF M
  <2>1. n \in Nat
    BY <1>1
  <2>2. \A k \in 0 .. n : Sums(a)[k] \in 0 .. M - 1
    BY <1>1, <1>5, <1>6, <1>7, <1>8, <2>1
  <2> QED
    BY <1>6, <2>2
<1>10. ASSUME NEW k \in 1 .. n
       PROVE  Ends(list)[k] = Ends(list)[k - 1] + Len(Header(list[k])) + Size[list[k]]
  <2>1. Sums(a)[k] = Sums(a)[k - 1] + (Len(Header(list[k])) + Size[list[k]])
    BY <1>4, <1>6
  <2>2. Sums(a)[k - 1] \in Nat
    BY <1>1, <1>6
  <2> QED
    BY <1>2, <1>5, <2>1, <2>2
<1> QED
  BY <1>5, <1>6, <1>9, <1>10

LEMMA ArgumentsInitIInv == ArgumentsInit => ArgumentsIInv
<1>. SUFFICES ASSUME ArgumentsInit PROVE ArgumentsIInv
  OBVIOUS
<1>1. types \in ArgumentLists /\ types \in Seq(Types) /\ Ends(types)[0] = 0
  BY EndsAre, ArgumentsAssumption DEF ArgumentsInit
<1>2. PlaceEnd(0) = 0 /\ Whole(0)
  BY DEF PlaceEnd, Whole
<1>3. 0 \in 0 .. Weight[SizeofSizet] - 1
  BY WeightIs, ArgumentsAssumption
<1>4. Buffered
  <2>1. args = <<>> /\ places = <<>> /\ stage = "class"
    BY DEF ArgumentsInit
  <2> QED
    BY <1>1, <1>2, <2>1 DEF Buffered
<1>5. TakenApart
  BY <1>1, <1>2, <1>3 DEF ArgumentsInit, TakenApart, WholeArrives
<1> QED
  BY <1>4, <1>5 DEF ArgumentsIInv

LEMMA IsSequence ==
    ASSUME NEW S, NEW n \in Nat, NEW f \in [1 .. n -> S]
    PROVE  f \in Seq(S) /\ Len(f) = n
OBVIOUS

LEMMA CallFunctionIInv == ArgumentsIInv /\ CallFunction => ArgumentsIInv'
<1>. SUFFICES ASSUME ArgumentsIInv, CallFunction PROVE ArgumentsIInv'
  OBVIOUS
<1>a. PICK m : m = Len(places)
  OBVIOUS
<1>b. PICK t : t = types[m + 1]
  OBVIOUS
<1>1. /\ types \in ArgumentLists /\ types \in Seq(Types) /\ args \in Seq(0 .. Base - 1)
      /\ places \in Seq([at : Nat, length : Nat]) /\ m \in Nat /\ m < Len(types)
      /\ Len(args) \in Nat /\ PlaceEnd(m) = Len(args) /\ t \in Types
  BY <1>a, <1>b, ArgumentsAssumption DEF ArgumentsIInv, Buffered, CallFunction
<1>2. PICK n \in Lengths[t] : \E string \in [1 .. n -> Bytes] :
            /\ args' = args \o Header(t) \o string
            /\ places' = Append(places, [at |-> Len(args \o Header(t)), length |-> n])
  BY <1>a, <1>b DEF CallFunction
<1>3. PICK string \in [1 .. n -> Bytes] :
            /\ args' = args \o Header(t) \o string
            /\ places' = Append(places, [at |-> Len(args \o Header(t)), length |-> n])
  BY <1>2
<1>4. n \in Nat \ {0} /\ string \in Seq(0 .. Base - 1) /\ Len(string) = n
  <2>1. Lengths[t] \in SUBSET (Nat \ {0}) /\ Bytes \subseteq 0 .. Base - 1
    BY <1>1, ArgumentsAssumption
  <2>2. n \in Nat \ {0} /\ string \in [1 .. n -> 0 .. Base - 1]
    BY <2>1
  <2> QED
    BY <2>2, IsSequence
<1>c. PICK h : h = Len(Header(t))
  OBVIOUS
<1>5. /\ Header(t) \in Seq(0 .. Base - 1) /\ h \in Nat
      /\ t \in Structs => h = SizeofSizet
  BY <1>1, <1>c, HeaderIs
<1>6. UNCHANGED <<stage, types, fullsize, ffi_values, reads>> /\ stage = "class"
  BY DEF CallFunction
<1>7. /\ args' \in Seq(0 .. Base - 1) /\ Len(args') = Len(args) + h + n
      /\ \A k \in 1 .. Len(args) : args'[k] = args[k]
      /\ \A b \in 1 .. h : args'[Len(args) + b] = Header(t)[b]
      /\ Len(args \o Header(t)) = Len(args) + h
  <2>. DEFINE front == args \o Header(t)
  <2>1. /\ front \in Seq(0 .. Base - 1) /\ Len(front) = Len(args) + h
        /\ \A k \in 1 .. Len(args) : front[k] = args[k]
        /\ \A b \in 1 .. h : front[Len(args) + b] = Header(t)[b]
    BY <1>1, <1>5, <1>c
  <2>. HIDE DEF front
  <2>2. args' = front \o string
    BY <1>3 DEF front
  <2>3. /\ args' \in Seq(0 .. Base - 1) /\ Len(args') = Len(args) + h + n
        /\ \A k \in 1 .. Len(args) + h : args'[k] = front[k]
    <3>1. /\ front \o string \in Seq(0 .. Base - 1)
          /\ Len(front \o string) = Len(front) + Len(string)
          /\ \A k \in 1 .. Len(front) + Len(string) :
                (front \o string)[k] = IF k <= Len(front) THEN front[k] ELSE string[k - Len(front)]
      BY <1>4, <2>1, ConcatProperties
    <3>2. \A k \in 1 .. Len(args) + h : k \in 1 .. Len(front) + Len(string) /\ k <= Len(front)
      BY <1>1, <1>4, <1>5, <2>1
    <3> QED
      BY <1>4, <2>1, <2>2, <3>1, <3>2
  <2>4. \A b \in 1 .. h : Len(args) + b \in 1 .. Len(args) + h
    BY <1>1, <1>5
  <2>5. \A k \in 1 .. Len(args) : k \in 1 .. Len(args) + h
    BY <1>1, <1>5
  <2> QED
    BY <2>1, <2>3, <2>4, <2>5 DEF front
<1>8. /\ places' \in Seq([at : Nat, length : Nat]) /\ Len(places') = m + 1
      /\ \A k \in 1 .. m : places'[k] = places[k]
      /\ places'[m + 1] = [at |-> Len(args) + h, length |-> n]
  <2>1. [at |-> Len(args) + h, length |-> n] \in [at : Nat, length : Nat]
    BY <1>1, <1>4, <1>5
  <2> QED
    BY <1>1, <1>3, <1>7, <1>a, <2>1
<1>9. /\ \A k \in 0 .. m : PlaceEnd(k)' = PlaceEnd(k)
      /\ PlaceEnd(m + 1)' = Len(args) + h + n
  <2>1. ASSUME NEW k \in 0 .. m
        PROVE  PlaceEnd(k)' = PlaceEnd(k)
    <3>1. k = 0 \/ k \in 1 .. m
      BY <1>1
    <3> QED
      BY <1>8, <3>1 DEF PlaceEnd
  <2>2. m + 1 # 0
    BY <1>1
  <2> QED
    BY <1>8, <2>1, <2>2 DEF PlaceEnd
<1>10. ASSUME NEW k \in 1 .. m + 1
       PROVE  /\ places'[k].at = PlaceEnd(k - 1)' + Len(Header(types[k]))
              /\ PlaceEnd(k)' <= Len(args')
              /\ types[k] \in Structs =>
                    \A b \in 1 .. SizeofSizet :
                        args'[PlaceEnd(k - 1)' + b] = Digit(Size[types[k]], b - 1)
  <2>1. CASE k = m + 1
    <3>1. PlaceEnd(k - 1)' = Len(args) /\ PlaceEnd(k)' = Len(args) + h + n
      BY <1>1, <1>9, <2>1
    <3>2. places'[k].at = Len(args) + h /\ types[k] = t
      BY <1>8, <1>b, <2>1
    <3>3. ASSUME t \in Structs, NEW b \in 1 .. SizeofSizet
          PROVE  args'[Len(args) + b] = Digit(Size[t], b - 1)
      <4>1. args'[Len(args) + b] = Header(t)[b]
        BY <1>5, <1>7, <3>3
      <4> QED
        BY <1>1, <3>3, <4>1, HeaderIs
    <3>4. types[k] \in Structs =>
                \A b \in 1 .. SizeofSizet : args'[PlaceEnd(k - 1)' + b] = Digit(Size[types[k]], b - 1)
      BY <3>1, <3>2, <3>3
    <3>5. PlaceEnd(k)' <= Len(args')
      BY <1>1, <1>4, <1>5, <1>7, <3>1
    <3> QED
      BY <1>c, <3>1, <3>2, <3>4, <3>5
  <2>2. CASE k \in 1 .. m
    <3>1. /\ places[k].at = PlaceEnd(k - 1) + Len(Header(types[k]))
          /\ PlaceEnd(k) <= Len(args)
          /\ types[k] \in Structs =>
                \A b \in 1 .. SizeofSizet : args[PlaceEnd(k - 1) + b] = Digit(Size[types[k]], b - 1)
      BY <1>a, <2>2 DEF ArgumentsIInv, Buffered
    <3>2. PlaceEnd(k - 1)' = PlaceEnd(k - 1) /\ PlaceEnd(k)' = PlaceEnd(k) /\ places'[k] = places[k]
      BY <1>1, <1>8, <1>9, <2>2
    <3>3. /\ PlaceEnd(k) = places[k].at + places[k].length
          /\ places[k].at \in Nat /\ places[k].length \in Nat
          /\ PlaceEnd(k - 1) \in Nat
      <4>1. k - 1 = 0 \/ k - 1 \in 1 .. m
        BY <1>1, <2>2
      <4>2. \A j \in 1 .. m : places[j].at \in Nat /\ places[j].length \in Nat
        <5>1. ASSUME NEW j \in 1 .. m
              PROVE  places[j] \in [at : Nat, length : Nat]
          BY <1>1, <1>a, ElementOfSeq
        <5> QED
          BY <5>1
      <4>3. PlaceEnd(k) = places[k].at + places[k].length
        BY <2>2 DEF PlaceEnd
      <4>4. PlaceEnd(k - 1) \in Nat
        BY <4>1, <4>2 DEF PlaceEnd
      <4> QED
        BY <2>2, <4>2, <4>3, <4>4
    <3>4. ASSUME types[k] \in Structs, NEW b \in 1 .. SizeofSizet
          PROVE  args'[PlaceEnd(k - 1) + b] = Digit(Size[types[k]], b - 1)
      <4>1. types[k] \in Types /\ SizeofSizet \in Nat
        BY <1>1, <2>2, ArgumentsAssumption
      <4>2. Len(Header(types[k])) = SizeofSizet
        BY <3>4, <4>1, HeaderIs
      <4>3. PlaceEnd(k - 1) + b \in 1 .. Len(args)
        <5>1. places[k].at = PlaceEnd(k - 1) + SizeofSizet
          BY <3>1, <4>2
        <5>2. Len(args) \in Nat /\ PlaceEnd(k) <= Len(args)
          BY <1>1, <3>1
        <5>3. PlaceEnd(k - 1) + SizeofSizet <= Len(args)
          BY ONLY <3>3, <4>1, <5>1, <5>2
        <5> QED
          BY ONLY <3>3, <4>1, <5>2, <5>3
      <4> QED
        BY <1>7, <3>1, <3>4, <4>3
    <3>5. types[k] \in Structs =>
                \A b \in 1 .. SizeofSizet : args'[PlaceEnd(k - 1)' + b] = Digit(Size[types[k]], b - 1)
      BY <3>2, <3>4
    <3>6. PlaceEnd(k) <= Len(args) /\ Len(args) \in Nat /\ PlaceEnd(k) \in Nat
      <4>1. PlaceEnd(k) \in Nat
        BY ONLY <3>3
      <4> QED
        BY <1>1, <3>1, <4>1
    <3>7. PlaceEnd(k)' <= Len(args')
      BY <1>4, <1>5, <1>7, <3>2, <3>6
    <3> QED
      BY <3>1, <3>2, <3>5, <3>7
  <2> QED
    BY <1>1, <2>1, <2>2
<1>11. ASSUME NEW k \in 0 .. m + 1
       PROVE  /\ NoneLonger(k)' => /\ PlaceEnd(k)' <= Ends(types)[k]
                                   /\ ~Whole(k)' => PlaceEnd(k)' < Ends(types)[k]
              /\ NoneShorter(k)' => /\ PlaceEnd(k)' >= Ends(types)[k]
                                    /\ ~Whole(k)' => PlaceEnd(k)' > Ends(types)[k]
  <2>1. ASSUME NEW j \in 0 .. m
        PROVE  /\ NoneLonger(j)' <=> NoneLonger(j)
               /\ NoneShorter(j)' <=> NoneShorter(j)
               /\ Whole(j)' <=> Whole(j)
               /\ NoneLonger(j) => /\ PlaceEnd(j) <= Ends(types)[j]
                                   /\ ~Whole(j) => PlaceEnd(j) < Ends(types)[j]
               /\ NoneShorter(j) => /\ PlaceEnd(j) >= Ends(types)[j]
                                    /\ ~Whole(j) => PlaceEnd(j) > Ends(types)[j]
    <3>1. \A l \in 1 .. j : places'[l] = places[l] /\ types'[l] = types[l]
      <4>1. \A l \in 1 .. j : l \in 1 .. m
        BY <1>1
      <4> QED
        BY <1>6, <1>8, <4>1
    <3>2. /\ NoneLonger(j)' <=> NoneLonger(j)
          /\ NoneShorter(j)' <=> NoneShorter(j)
          /\ Whole(j)' <=> Whole(j)
      BY <3>1 DEF NoneLonger, NoneShorter, Whole
    <3> QED
      BY <1>a, <3>2 DEF ArgumentsIInv, Buffered
  <2>2. CASE k \in 0 .. m
    BY <1>9, <2>1, <2>2
  <2>3. CASE k = m + 1
    <3>1. /\ m \in 0 .. m /\ m + 1 \in 1 .. m + 1 /\ 1 .. m + 1 = 1 .. m \cup {m + 1}
      BY <1>1
    <3>2. places'[m + 1].length = n /\ types'[m + 1] = t
      BY <1>6, <1>8, <1>b
    <3>3. /\ NoneLonger(m + 1)' <=> NoneLonger(m)' /\ n <= Size[t]
          /\ NoneShorter(m + 1)' <=> NoneShorter(m)' /\ n >= Size[t]
          /\ Whole(m + 1)' <=> Whole(m)' /\ n = Size[t]
      BY <3>1, <3>2 DEF NoneLonger, NoneShorter, Whole
    <3>4. /\ Ends(types)[m + 1] = Ends(types)[m] + h + Size[t]
          /\ Ends(types)[m] \in Nat /\ Size[t] \in Nat
      <4>1. Ends(types) \in [0 .. Len(types) -> 0 .. Weight[SizeofSizet] - 1]
        BY <1>1, EndsAre
      <4>2. m + 1 \in 1 .. Len(types) /\ m \in 0 .. Len(types) /\ m + 1 - 1 = m
        BY <1>1
      <4>3. Size[t] \in Nat /\ Weight[SizeofSizet] \in Nat
        BY <1>1, WeightIs, ArgumentsAssumption
      <4>4. Ends(types)[m + 1] = Ends(types)[m] + h + Size[t]
        BY <1>1, <1>b, <1>c, <4>2, EndsAre
      <4> QED
        BY <4>1, <4>2, <4>3, <4>4
    <3>5. PlaceEnd(m + 1)' = PlaceEnd(m) + h + n
      BY <1>1, <1>9
    <3>6. /\ NoneLonger(m) => /\ PlaceEnd(m) <= Ends(types)[m]
                              /\ ~Whole(m) => PlaceEnd(m) < Ends(types)[m]
          /\ NoneShorter(m) => /\ PlaceEnd(m) >= Ends(types)[m]
                               /\ ~Whole(m) => PlaceEnd(m) > Ends(types)[m]
          /\ NoneLonger(m)' <=> NoneLonger(m)
          /\ NoneShorter(m)' <=> NoneShorter(m)
          /\ Whole(m)' <=> Whole(m)
      BY <2>1, <3>1
    <3>7. PlaceEnd(m) \in Nat
      BY <1>1
    <3>8. /\ NoneLonger(m + 1)' => /\ PlaceEnd(m + 1)' <= Ends(types)[m + 1]
                                   /\ ~Whole(m + 1)' => PlaceEnd(m + 1)' < Ends(types)[m + 1]
          /\ NoneShorter(m + 1)' => /\ PlaceEnd(m + 1)' >= Ends(types)[m + 1]
                                    /\ ~Whole(m + 1)' => PlaceEnd(m + 1)' > Ends(types)[m + 1]
      BY ONLY <1>4, <1>5, <3>3, <3>4, <3>5, <3>6, <3>7
    <3> QED
      BY <2>3, <3>8
  <2> QED
    BY <1>1, <2>2, <2>3
<1>12. Buffered'
  <2>1. Len(places') <= Len(types) /\ PlaceEnd(Len(places))' = Len(args')
    BY <1>1, <1>4, <1>5, <1>6, <1>7, <1>8, <1>9
  <2> QED
    BY <1>1, <1>6, <1>7, <1>8, <1>10, <1>11, <2>1 DEF Buffered
<1>13. TakenApart'
  <2>1. ffi_values = <<>> /\ reads = <<>> /\ fullsize = 0 /\ fullsize \in 0 .. Weight[SizeofSizet] - 1
    BY <1>6 DEF ArgumentsIInv, TakenApart
  <2>2. Ends(types)[0] = 0
    BY <1>1, EndsAre
  <2> QED
    BY <1>1, <1>6, <2>1, <2>2 DEF TakenApart, WholeArrives
<1> QED
  BY <1>12, <1>13 DEF ArgumentsIInv

LEMMA BufferedStays ==
    ASSUME Buffered, UNCHANGED <<types, args, places>>,
           stage = "class" /\ stage' # "class" => Len(places) = Len(types),
           stage # "class" => stage' # "class"
    PROVE  Buffered'
BY DEF Buffered, PlaceEnd, NoneLonger, NoneShorter, Whole

LEMMA callIInv == ArgumentsIInv /\ call => ArgumentsIInv'
<1>. SUFFICES ASSUME ArgumentsIInv, call PROVE ArgumentsIInv'
  OBVIOUS
<1>1. Buffered'
  BY BufferedStays DEF ArgumentsIInv, call
<1>2. TakenApart'
  <2>1. /\ stage = "class" /\ stage' = "library"
        /\ UNCHANGED <<types, args, places, fullsize, ffi_values, reads>>
    BY DEF call
  <2>2. ffi_values = <<>> /\ reads = <<>>
    BY <2>1 DEF ArgumentsIInv, TakenApart
  <2> QED
    BY <2>1, <2>2 DEF ArgumentsIInv, TakenApart, WholeArrives, InPlace
<1> QED
  BY <1>1, <1>2 DEF ArgumentsIInv

\* Where the library is when it comes to argument n + 1, if the headers so far were in place.
LEMMA AtArgument ==
    ASSUME ArgumentsIInv, stage = "library", NEW n \in Nat, n = Len(ffi_values), n < Len(types)
    PROVE  /\ types \in ArgumentLists /\ types \in Seq(Types) /\ types[n + 1] \in Types
           /\ Len(places) = Len(types) /\ Len(args) \in Nat
           /\ fullsize \in Nat /\ fullsize < Weight[SizeofSizet] /\ Weight[SizeofSizet] \in Nat
           /\ PlaceEnd(n) \in Nat
           /\ places[n + 1].at = PlaceEnd(n) + Len(Header(types[n + 1]))
           /\ PlaceEnd(n + 1) = places[n + 1].at + places[n + 1].length
           /\ places[n + 1].length \in Nat /\ PlaceEnd(n + 1) <= Len(args)
           /\ Ends(types)[n] \in Nat /\ Ends(types)[n + 1] < Weight[SizeofSizet]
           /\ Ends(types)[n + 1] = Ends(types)[n] + Len(Header(types[n + 1])) + Size[types[n + 1]]
           /\ Size[types[n + 1]] \in Nat
           /\ Whole(n) => PlaceEnd(n) = Ends(types)[n] /\ InPlace(n)
           /\ InPlace(n) => fullsize = Ends(types)[n]
<1>1. /\ types \in ArgumentLists /\ types \in Seq(Types) /\ Len(places) = Len(types)
      /\ places \in Seq([at : Nat, length : Nat]) /\ args \in Seq(0 .. Base - 1)
      /\ fullsize \in 0 .. Weight[SizeofSizet] - 1
  BY ArgumentsAssumption DEF ArgumentsIInv, Buffered, TakenApart
<1>2. n + 1 \in 1 .. Len(types) /\ n \in 0 .. Len(types) /\ n + 1 - 1 = n /\ n + 1 # 0
  BY <1>1
<1>3. Weight[SizeofSizet] \in Nat /\ types[n + 1] \in Types /\ Size[types[n + 1]] \in Nat
  BY <1>1, <1>2, WeightIs, ArgumentsAssumption
<1>4. \A k \in 1 .. Len(types) : places[k].at \in Nat /\ places[k].length \in Nat
  <2>1. ASSUME NEW k \in 1 .. Len(types)
        PROVE  places[k] \in [at : Nat, length : Nat]
    BY <1>1, ElementOfSeq
  <2> QED
    BY <2>1
<1>5. PlaceEnd(n) \in Nat
  <2>1. n = 0 \/ n \in 1 .. Len(types)
    BY <1>2
  <2> QED
    BY <1>4, <2>1 DEF PlaceEnd
<1>6. /\ places[n + 1].at = PlaceEnd(n) + Len(Header(types[n + 1]))
      /\ PlaceEnd(n + 1) <= Len(args)
  BY <1>1, <1>2 DEF ArgumentsIInv, Buffered
<1>7. PlaceEnd(n + 1) = places[n + 1].at + places[n + 1].length
  BY <1>2 DEF PlaceEnd
<1>8. /\ Ends(types)[n] \in Nat /\ Ends(types)[n + 1] < Weight[SizeofSizet]
      /\ Ends(types)[n + 1] = Ends(types)[n] + Len(Header(types[n + 1])) + Size[types[n + 1]]
  <2>1. Ends(types) \in [0 .. Len(types) -> 0 .. Weight[SizeofSizet] - 1]
    BY <1>1, EndsAre
  <2>2. Ends(types)[n + 1] = Ends(types)[n] + Len(Header(types[n + 1])) + Size[types[n + 1]]
    <3>1. \A k \in 1 .. Len(types) :
            Ends(types)[k] = Ends(types)[k - 1] + Len(Header(types[k])) + Size[types[k]]
      BY <1>1, EndsAre
    <3>2. Ends(types)[n + 1] = Ends(types)[n + 1 - 1] + Len(Header(types[n + 1])) + Size[types[n + 1]]
      BY <1>2, <3>1
    <3> QED
      BY <1>2, <3>2
  <2>3. n + 1 \in 0 .. Len(types)
    BY <1>1, <1>2
  <2>4. Ends(types)[n] \in 0 .. Weight[SizeofSizet] - 1 /\ Ends(types)[n + 1] \in 0 .. Weight[SizeofSizet] - 1
    BY <1>2, <2>1, <2>3
  <2>5. Ends(types)[n] \in Nat /\ Ends(types)[n + 1] < Weight[SizeofSizet]
    BY ONLY <1>3, <2>4
  <2> QED
    BY <2>2, <2>5
<1>9. Whole(n) => PlaceEnd(n) = Ends(types)[n]
  <2>1. /\ NoneLonger(n) => PlaceEnd(n) <= Ends(types)[n]
        /\ NoneShorter(n) => PlaceEnd(n) >= Ends(types)[n]
    BY <1>1, <1>2 DEF ArgumentsIInv, Buffered
  <2>2. SUFFICES ASSUME Whole(n) PROVE PlaceEnd(n) = Ends(types)[n]
    OBVIOUS
  <2>3. \A j \in 1 .. n : places[j].length \in Nat /\ places[j].length = Size[types[j]]
    BY <1>2, <1>4, <2>2 DEF Whole
  <2>4. NoneLonger(n) /\ NoneShorter(n)
    BY <2>3 DEF NoneLonger, NoneShorter
  <2> QED
    BY <1>5, <1>8, <2>1, <2>4
<1>10. Whole(n) => InPlace(n)
  <2>1. SUFFICES ASSUME Whole(n), NEW s \in 1 .. n
                 PROVE  ffi_values[s] = places[s].at
    BY DEF InPlace
  <2>2. Whole(s - 1)
    BY <2>1 DEF Whole
  <2>3. ffi_values \in Seq(Nat)
    BY DEF ArgumentsIInv, TakenApart
  <2>4. s \in DOMAIN ffi_values
    BY <2>3, LenProperties
  <2> QED
    BY <2>2, <2>4 DEF ArgumentsIInv, TakenApart, WholeArrives
<1>11. InPlace(n) => fullsize = Ends(types)[n]
  BY DEF ArgumentsIInv, TakenApart
<1>12. Len(args) \in Nat /\ places[n + 1].length \in Nat
  BY <1>1, <1>2, <1>4
<1>13. fullsize \in Nat /\ fullsize < Weight[SizeofSizet]
  BY <1>1, <1>3
<1> QED
  BY <1>1, <1>3, <1>5, <1>6, <1>7, <1>8, <1>9, <1>10, <1>11, <1>12, <1>13

LEMMA WrapIs ==
    ASSUME NEW n \in Nat
    PROVE  /\ Wrap(n) \in 0 .. Weight[SizeofSizet] - 1
           /\ n < Weight[SizeofSizet] => Wrap(n) = n
<1>1. Weight[SizeofSizet] \in Nat \ {0}
  BY WeightIs, ArgumentsAssumption
<1> QED
  BY <1>1 DEF Wrap

LEMMA NumberTyped ==
    ASSUME NEW bytes \in [1 .. SizeofSizet -> 0 .. Base - 1]
    PROVE  Number(bytes) \in Nat
<1>. DEFINE a == [k \in DOMAIN bytes |-> bytes[k] * Weight[k - 1]]
<1>1. SizeofSizet \in Nat /\ Base \in Nat
  BY ArgumentsAssumption
<1>2. ASSUME NEW k \in 1 .. SizeofSizet
      PROVE  bytes[k] * Weight[k - 1] \in Nat
  <2>1. k - 1 \in 0 .. SizeofSizet
    BY <1>1
  <2>2. Weight[k - 1] \in Nat
    BY <2>1, WeightIs
  <2>3. bytes[k] \in Nat
    BY <1>1
  <2> QED
    BY <2>2, <2>3
<1>3. a \in Seq(Nat) /\ Len(a) = SizeofSizet /\ Len(bytes) = SizeofSizet
  BY <1>1, <1>2
<1>. HIDE DEF a
<1>4. Sums(a) \in [0 .. Len(a) -> Nat]
  BY <1>3, SumsAre
<1>5. SizeofSizet \in 0 .. SizeofSizet
  BY <1>1
<1>6. Sums(a)[SizeofSizet] \in Nat
  BY <1>3, <1>4, <1>5
<1> QED
  BY <1>3, <1>6 DEF Number, a

\* A header that is read from its place is the size of its type.
LEMMA HeaderRead ==
    ASSUME ArgumentsIInv, stage = "library", NEW n \in Nat, n = Len(ffi_values), n < Len(types),
           types[n + 1] \in Structs, InPlace(n), fullsize = PlaceEnd(n),
           NEW bytes \in [1 .. SizeofSizet -> 0 .. Base - 1],
           \A k \in DOMAIN bytes : bytes[k] \in At(Wrap(fullsize + k - 1))
    PROVE  Number(bytes) = Size[types[n + 1]]
<1>1. PICK t : t = types[n + 1]
  OBVIOUS
<1>2. /\ t \in Types /\ SizeofSizet \in Nat \ {0} /\ Len(Header(t)) = SizeofSizet
      /\ Size[t] \in Nat
  BY <1>1, AtArgument, HeaderIs, ArgumentsAssumption
<1>3. /\ fullsize \in Nat /\ Len(args) \in Nat /\ Weight[SizeofSizet] \in Nat
      /\ fullsize + SizeofSizet <= Len(args)
      /\ fullsize + SizeofSizet + Size[t] < Weight[SizeofSizet]
  <2>1. /\ fullsize \in Nat /\ Len(args) \in Nat /\ Weight[SizeofSizet] \in Nat
        /\ fullsize = Ends(types)[n]
        /\ places[n + 1].at = fullsize + SizeofSizet
        /\ PlaceEnd(n + 1) = places[n + 1].at + places[n + 1].length
        /\ places[n + 1].length \in Nat /\ PlaceEnd(n + 1) <= Len(args)
        /\ Ends(types)[n + 1] = Ends(types)[n] + SizeofSizet + Size[t]
        /\ Ends(types)[n + 1] < Weight[SizeofSizet]
    <3>1. /\ fullsize \in Nat /\ Len(args) \in Nat /\ Weight[SizeofSizet] \in Nat
          /\ fullsize = Ends(types)[n]
          /\ places[n + 1].at = PlaceEnd(n) + Len(Header(types[n + 1]))
          /\ PlaceEnd(n + 1) = places[n + 1].at + places[n + 1].length
          /\ places[n + 1].length \in Nat /\ PlaceEnd(n + 1) <= Len(args)
          /\ Ends(types)[n + 1] = Ends(types)[n] + Len(Header(types[n + 1])) + Size[types[n + 1]]
          /\ Ends(types)[n + 1] < Weight[SizeofSizet]
      BY AtArgument
    <3> QED
      BY <1>1, <1>2, <3>1
  <2>2. fullsize + SizeofSizet <= Len(args)
    <3>1. PICK end, length : end = PlaceEnd(n + 1) /\ length = places[n + 1].length
      OBVIOUS
    <3>2. end = fullsize + SizeofSizet + length /\ length \in Nat /\ end <= Len(args)
      BY <2>1, <3>1
    <3> QED
      BY ONLY <1>2, <2>1, <3>2
  <2>3. fullsize + SizeofSizet + Size[t] < Weight[SizeofSizet]
    BY ONLY <1>2, <2>1
  <2> QED
    BY <2>1, <2>2, <2>3
<1>4. ASSUME NEW k \in 1 .. SizeofSizet
      PROVE  bytes[k] = Digit(Size[t], k - 1)
  <2>1. /\ fullsize + k - 1 \in Nat /\ fullsize + k - 1 < Weight[SizeofSizet]
        /\ fullsize + k - 1 < Len(args) /\ fullsize + k - 1 + 1 = fullsize + k
    BY ONLY <1>2, <1>3
  <2>2. Wrap(fullsize + k - 1) = fullsize + k - 1
    BY <2>1, WrapIs
  <2>3. bytes[k] = args[fullsize + k]
    BY <2>1, <2>2 DEF At
  <2>4. args[PlaceEnd(n) + k] = Digit(Size[t], k - 1)
    <3>0. PICK j : j = n + 1
      OBVIOUS
    <3>1. j \in 1 .. Len(places) /\ j - 1 = n /\ types[j] \in Structs
      <4>1. Len(places) = Len(types) /\ Len(types) \in Nat
        BY AtArgument
      <4> QED
        BY <3>0, <4>1
    <3>2. \A i \in 1 .. Len(places) : types[i] \in Structs =>
            \A b \in 1 .. SizeofSizet : args[PlaceEnd(i - 1) + b] = Digit(Size[types[i]], b - 1)
      BY DEF ArgumentsIInv, Buffered
    <3>3. \A b \in 1 .. SizeofSizet : args[PlaceEnd(j - 1) + b] = Digit(Size[types[j]], b - 1)
      BY <3>1, <3>2
    <3> QED
      BY <1>1, <3>0, <3>1, <3>3
  <2> QED
    BY <2>3, <2>4
<1>5. bytes = [k \in 1 .. SizeofSizet |-> Digit(Size[t], k - 1)]
  BY <1>4
<1>6. Size[t] \in 0 .. Weight[SizeofSizet] - 1
  BY ONLY <1>2, <1>3
<1> QED
  BY <1>1, <1>5, <1>6, NumberOfDigits

LEMMA NextArgumentIInv == ArgumentsIInv /\ next_argument => ArgumentsIInv'
<1>. SUFFICES ASSUME ArgumentsIInv, next_argument PROVE ArgumentsIInv'
  OBVIOUS
<1>a. PICK n : n = Len(ffi_values)
  OBVIOUS
<1>b. PICK t : t = types[n + 1]
  OBVIOUS
<1>1. /\ stage = "library" /\ UNCHANGED <<stage, types, args, places>>
      /\ ffi_values \in Seq(Nat) /\ reads \in Seq(Nat) /\ n \in Nat /\ n < Len(types)
      /\ fullsize \in Nat /\ SizeofSizet \in Nat
      /\ ffi_values' = Append(ffi_values, ValueAt(t))
  <2>1. ffi_values \in Seq(Nat) /\ reads \in Seq(Nat)
    BY DEF ArgumentsIInv, TakenApart
  <2>2. stage = "library" /\ UNCHANGED <<stage, types, args, places>> /\ n < Len(types)
    BY <1>a DEF next_argument
  <2>3. n \in Nat
    BY <1>a, <2>1
  <2>4. fullsize \in Nat
    BY <1>a, <2>2, <2>3, AtArgument
  <2> QED
    BY <1>a, <1>b, <2>1, <2>2, <2>3, <2>4, ArgumentsAssumption DEF next_argument
<1>2. Buffered'
  BY <1>1, BufferedStays DEF ArgumentsIInv
<1>3. /\ ValueAt(t) \in Nat
      /\ InPlace(n) /\ fullsize = PlaceEnd(n) => ValueAt(t) = places[n + 1].at
      /\ InPlace(n) /\ t \in Structs /\ ValueAt(t) = places[n + 1].at => fullsize = PlaceEnd(n)

  <2>1. /\ places[n + 1].at = PlaceEnd(n) + Len(Header(t))
        /\ PlaceEnd(n) \in Nat /\ t \in Types /\ Size[t] \in Nat
        /\ Ends(types)[n + 1] = Ends(types)[n] + Len(Header(t)) + Size[t]
        /\ Ends(types)[n + 1] < Weight[SizeofSizet] /\ Weight[SizeofSizet] \in Nat
        /\ InPlace(n) => fullsize = Ends(types)[n]
    BY <1>1, <1>a, <1>b, AtArgument
  <2>2. CASE t \in Structs
    <3>1. Len(Header(t)) = SizeofSizet /\ ValueAt(t) = Wrap(fullsize + SizeofSizet)
      BY <2>1, <2>2, HeaderIs DEF ValueAt
    <3>2. ValueAt(t) \in Nat
      <4>1. fullsize + SizeofSizet \in Nat
        BY <1>1
      <4>2. ValueAt(t) \in 0 .. Weight[SizeofSizet] - 1
        BY <3>1, <4>1, WrapIs
      <4> QED
        BY ONLY <2>1, <4>2
    <3>3. ASSUME InPlace(n)
          PROVE  ValueAt(t) = fullsize + SizeofSizet
      <4>1. fullsize + SizeofSizet \in Nat /\ fullsize + SizeofSizet < Weight[SizeofSizet]
        <5>1. Ends(types)[n + 1] = fullsize + SizeofSizet + Size[t]
          BY <2>1, <3>1, <3>3
        <5> QED
          BY <1>1, <2>1, <5>1
      <4> QED
        BY <3>1, <4>1, WrapIs
    <3>4. places[n + 1].at = PlaceEnd(n) + SizeofSizet
      BY <2>1, <3>1
    <3> QED
      BY <1>1, <2>1, <3>2, <3>3, <3>4
  <2>3. CASE t \notin Structs
    <3>1. Len(Header(t)) = 0 /\ ValueAt(t) = fullsize
      BY <2>1, <2>3, HeaderIs DEF ValueAt
    <3> QED
      BY <1>1, <2>1, <2>3, <3>1
  <2> QED
    BY <2>2, <2>3
<1>4. /\ fullsize' \in 0 .. Weight[SizeofSizet] - 1
      /\ reads' \in Seq(Nat)
      /\ IF t \in Structs THEN reads' = Append(reads, fullsize) ELSE reads' = reads
      /\ InPlace(n) /\ (t \in Structs => fullsize = PlaceEnd(n)) => fullsize' = Ends(types)[n + 1]
  <2>1. /\ t \in Types /\ Size[t] \in Nat
        /\ Ends(types)[n + 1] = Ends(types)[n] + Len(Header(t)) + Size[t]
        /\ Ends(types)[n + 1] < Weight[SizeofSizet] /\ Weight[SizeofSizet] \in Nat
        /\ InPlace(n) => fullsize = Ends(types)[n]
        /\ Ends(types)[n] \in Nat
    BY <1>1, <1>a, <1>b, AtArgument
  <2>2. CASE t \in Structs
    <3>1. /\ reads' = Append(reads, fullsize)
          /\ \E bytes \in [1 .. SizeofSizet -> 0 .. Base - 1] :
                /\ \A k \in DOMAIN bytes : bytes[k] \in At(Wrap(fullsize + k - 1))
                /\ fullsize' = Wrap(fullsize + SizeofSizet + Number(bytes))
      BY <1>a, <1>b, <2>2 DEF next_argument
    <3>2. PICK bytes \in [1 .. SizeofSizet -> 0 .. Base - 1] :
                /\ \A k \in DOMAIN bytes : bytes[k] \in At(Wrap(fullsize + k - 1))
                /\ fullsize' = Wrap(fullsize + SizeofSizet + Number(bytes))
      BY <3>1
    <3>3. Number(bytes) \in Nat
      BY NumberTyped
    <3>4. fullsize + SizeofSizet + Number(bytes) \in Nat
      BY <1>1, <3>3
    <3>5. fullsize' \in 0 .. Weight[SizeofSizet] - 1
      BY <3>2, <3>4, WrapIs
    <3>6. reads' \in Seq(Nat)
      BY <1>1, <3>1
    <3>7. ASSUME InPlace(n), fullsize = PlaceEnd(n)
          PROVE  fullsize' = Ends(types)[n + 1]
      <4>1. Number(bytes) = Size[t]
        BY <1>1, <1>a, <1>b, <2>2, <3>2, <3>7, HeaderRead
      <4>2. Len(Header(t)) = SizeofSizet
        BY <2>1, <2>2, HeaderIs
      <4>3. fullsize + SizeofSizet + Number(bytes) = Ends(types)[n + 1]
        BY <2>1, <3>7, <4>1, <4>2
      <4> QED
        BY <2>1, <3>2, <3>4, <4>3, WrapIs
    <3> QED
      BY <2>2, <3>1, <3>5, <3>6, <3>7
  <2>3. CASE t \notin Structs
    <3>1. fullsize' = Wrap(fullsize + Size[t]) /\ reads' = reads
      BY <1>a, <1>b, <2>3 DEF next_argument
    <3>2. fullsize + Size[t] \in Nat
      BY <1>1, <2>1
    <3>3. Len(Header(t)) = 0
      BY <2>1, <2>3, HeaderIs
    <3>4. ASSUME InPlace(n)
          PROVE  fullsize' = Ends(types)[n + 1]
      <4>1. fullsize + Size[t] = Ends(types)[n + 1]
        BY <2>1, <3>3, <3>4
      <4> QED
        BY <2>1, <3>1, <3>2, <4>1, WrapIs
    <3> QED
      BY <1>1, <2>3, <3>1, <3>2, <3>4, WrapIs
  <2> QED
    BY <2>2, <2>3
<1>5. /\ ffi_values' \in Seq(Nat) /\ Len(ffi_values') = n + 1
      /\ \A k \in 1 .. n : ffi_values'[k] = ffi_values[k]
      /\ ffi_values'[n + 1] = ValueAt(t)
  BY <1>1, <1>3, <1>a
<1>6. InPlace(n + 1)' => InPlace(n) /\ (t \in Structs => fullsize = PlaceEnd(n))
  <2>1. SUFFICES ASSUME InPlace(n + 1)'
                 PROVE  InPlace(n) /\ (t \in Structs => fullsize = PlaceEnd(n))
    OBVIOUS
  <2>2. \A s \in 1 .. n + 1 : types[s] \in Structs => ffi_values'[s] = places[s].at
    BY <1>1, <2>1 DEF InPlace
  <2>3. n + 1 \in 1 .. n + 1 /\ \A s \in 1 .. n : s \in 1 .. n + 1
    BY <1>1
  <2>4. InPlace(n)
    BY <1>5, <2>2, <2>3 DEF InPlace
  <2>5. t \in Structs => ValueAt(t) = places[n + 1].at
    BY <1>5, <1>b, <2>2, <2>3
  <2> QED
    BY <1>3, <2>4, <2>5
<1>7. Whole(n) => InPlace(n) /\ fullsize = PlaceEnd(n)
  BY <1>1, <1>a, AtArgument
<1>8. WholeArrives'
  <2>1. ASSUME NEW k \in DOMAIN ffi_values', Whole(k - 1)
        PROVE  ffi_values'[k] = places[k].at
    <3>1. k \in 1 .. n \/ k = n + 1
      <4>1. k \in 1 .. n + 1
        BY <1>5, <2>1, LenProperties
      <4> QED
        BY <1>1, <4>1
    <3>2. CASE k \in 1 .. n
      <4>1. k \in DOMAIN ffi_values
        BY <1>1, <1>a, <3>2
      <4> QED
        BY <1>5, <2>1, <3>2, <4>1 DEF ArgumentsIInv, TakenApart, WholeArrives
    <3>3. CASE k = n + 1
      <4>1. Whole(n)
        BY <1>1, <2>1, <3>3
      <4> QED
        BY <1>3, <1>5, <1>7, <3>3, <4>1
    <3> QED
      BY <3>1, <3>2, <3>3
  <2>2. ASSUME Whole(Len(places)), NEW k \in DOMAIN reads'
        PROVE  ~Beyond(reads'[k])
    <3>1. \A j \in DOMAIN reads : ~Beyond(reads[j])
      BY <2>2 DEF ArgumentsIInv, TakenApart, WholeArrives
    <3>2. CASE t \notin Structs
      BY <1>4, <2>2, <3>1, <3>2
    <3>3. CASE t \in Structs
      <4>1. reads' = Append(reads, fullsize)
        BY <1>4, <3>3
      <4>2. (k \in DOMAIN reads /\ reads'[k] = reads[k]) \/ reads'[k] = fullsize
        <5>1. /\ Len(reads) \in Nat /\ Len(reads') = Len(reads) + 1
              /\ DOMAIN reads = 1 .. Len(reads) /\ DOMAIN reads' = 1 .. Len(reads')
              /\ \A j \in 1 .. Len(reads) : reads'[j] = reads[j]
              /\ reads'[Len(reads) + 1] = fullsize
          BY <1>1, <1>4, <4>1, LenProperties, AppendProperties
        <5>2. k \in 1 .. Len(reads) \/ k = Len(reads) + 1
          BY <2>2, <5>1
        <5> QED
          BY <5>1, <5>2
      <4>3. /\ Len(places) = Len(types) /\ Len(args) \in Nat /\ PlaceEnd(n) \in Nat
            /\ places[n + 1].at = PlaceEnd(n) + Len(Header(t)) /\ t \in Types
            /\ PlaceEnd(n + 1) = places[n + 1].at + places[n + 1].length
            /\ places[n + 1].length \in Nat /\ PlaceEnd(n + 1) <= Len(args)
            /\ Len(types) \in Nat
        BY <1>1, <1>a, <1>b, AtArgument
      <4>4. Len(Header(t)) = SizeofSizet
        BY <3>3, <4>3, HeaderIs
      <4>5. fullsize = PlaceEnd(n)
        <5>1. \A j \in 1 .. n : j \in 1 .. Len(places)
          BY <1>1, <4>3
        <5>2. Whole(n)
          BY <2>2, <5>1 DEF Whole
        <5> QED
          BY <1>7, <5>2
      <4>6. places[n + 1].at = fullsize + SizeofSizet
        BY <4>3, <4>4, <4>5
      <4>7. fullsize + SizeofSizet <= Len(args)
        BY ONLY <1>1, <4>3, <4>6
      <4>8. ~Beyond(fullsize)
        BY <1>1, <4>3, <4>7 DEF Beyond
      <4> QED
        BY <3>1, <4>2, <4>8
    <3> QED
      BY <3>2, <3>3
  <2>3. \A k \in DOMAIN ffi_values' : Whole(k - 1)' => ffi_values'[k] = places'[k].at
    BY <1>1, <2>1 DEF Whole
  <2>4. Whole(Len(places))' => stage' \notin {"refused", "dead"} /\ \A k \in DOMAIN reads' : ~Beyond(reads[k])'
    BY <1>1, <2>2 DEF Whole, Beyond
  <2> QED
    BY <2>3, <2>4 DEF WholeArrives
<1>9. TakenApart'
  <2>1. InPlace(Len(ffi_values))' => fullsize' = Ends(types')[Len(ffi_values')]
    BY <1>1, <1>4, <1>5, <1>6
  <2>2. Len(ffi_values') <= Len(types')
    <3>1. Len(types) \in Nat
      BY <1>1, <1>a, AtArgument
    <3> QED
      BY <1>1, <1>5, <3>1
  <2> QED
    BY <1>1, <1>4, <1>5, <1>8, <2>1, <2>2 DEF TakenApart
<1> QED
  BY <1>2, <1>9 DEF ArgumentsIInv

\* Behind the values of the first n arguments, if these are whole, no header is missing.
LEMMA HeaderInBuffer ==
    ASSUME ArgumentsIInv, stage = "library", NEW n \in Nat, n = Len(ffi_values), n < Len(types),
           types[n + 1] \in Structs, Whole(n)
    PROVE  ~Beyond(fullsize)
<1>1. /\ Len(args) \in Nat /\ PlaceEnd(n) \in Nat /\ fullsize = PlaceEnd(n)
      /\ places[n + 1].at = PlaceEnd(n) + Len(Header(types[n + 1]))
      /\ PlaceEnd(n + 1) = places[n + 1].at + places[n + 1].length
      /\ places[n + 1].length \in Nat /\ PlaceEnd(n + 1) <= Len(args)
      /\ types[n + 1] \in Types
  BY AtArgument
<1>2. Len(Header(types[n + 1])) = SizeofSizet /\ SizeofSizet \in Nat
  BY <1>1, HeaderIs, ArgumentsAssumption
<1>3. PICK at, length : at = places[n + 1].at /\ length = places[n + 1].length
  OBVIOUS
<1>4. PICK end : end = PlaceEnd(n + 1)
  OBVIOUS
<1>5. at = fullsize + SizeofSizet /\ end = at + length /\ length \in Nat /\ end <= Len(args)
  BY <1>1, <1>2, <1>3, <1>4
<1> QED
  BY <1>1, <1>2, <1>5 DEF Beyond

LEMMA segfaultIInv == ArgumentsIInv /\ segfault => ArgumentsIInv'
<1>. SUFFICES ASSUME ArgumentsIInv, segfault PROVE ArgumentsIInv'
  OBVIOUS
<1>1. /\ stage = "library" /\ stage' = "dead" /\ reads' = Append(reads, fullsize)
      /\ UNCHANGED <<types, args, places, fullsize, ffi_values>>
  BY DEF segfault
<1>2. Buffered'
  BY <1>1, BufferedStays DEF ArgumentsIInv
<1>3. PICK n : n = Len(ffi_values)
  OBVIOUS
<1>4. /\ ffi_values \in Seq(Nat) /\ n \in Nat /\ n < Len(types)
      /\ types[n + 1] \in Structs /\ Beyond(fullsize)
  BY <1>3 DEF ArgumentsIInv, TakenApart, segfault
<1>5. ~Whole(Len(places))
  <2>1. Len(places) = Len(types) /\ Len(types) \in Nat
    BY <1>1, <1>3, <1>4, AtArgument
  <2>2. \A j \in 1 .. n : j \in 1 .. Len(places)
    BY <1>4, <2>1
  <2>3. Whole(Len(places)) => Whole(n)
    BY <2>2 DEF Whole
  <2> QED
    BY <1>1, <1>3, <1>4, <2>3, HeaderInBuffer
<1>6. reads' \in Seq(Nat)
  <2>1. reads \in Seq(Nat) /\ fullsize \in Nat
    BY <1>1, <1>3, <1>4, AtArgument DEF ArgumentsIInv, TakenApart
  <2> QED
    BY <1>1, <2>1
<1>7. WholeArrives'
  <2>1. \A k \in DOMAIN ffi_values : Whole(k - 1) => ffi_values[k] = places[k].at
    BY DEF ArgumentsIInv, TakenApart, WholeArrives
  <2>2. \A k : Whole(k)' <=> Whole(k)
    BY <1>1 DEF Whole
  <2>3. ~Whole(Len(places))'
    BY <1>1, <1>5 DEF Whole
  <2>4. \A k \in DOMAIN ffi_values' : Whole(k - 1)' => ffi_values'[k] = places'[k].at
    BY <1>1, <2>1 DEF Whole
  <2> QED
    BY <2>3, <2>4 DEF WholeArrives
<1>8. InPlace(Len(ffi_values))' => InPlace(Len(ffi_values))
  BY <1>1 DEF InPlace
<1>9. TakenApart'
  BY <1>1, <1>6, <1>7, <1>8 DEF ArgumentsIInv, TakenApart
<1> QED
  BY <1>2, <1>9 DEF ArgumentsIInv

LEMMA check_lengthIInv == ArgumentsIInv /\ check_length => ArgumentsIInv'
<1>. SUFFICES ASSUME ArgumentsIInv, check_length PROVE ArgumentsIInv'
  OBVIOUS
<1>1. /\ stage = "library" /\ stage' = (IF Fits THEN "called" ELSE "refused")
      /\ Len(ffi_values) = Len(types)
      /\ UNCHANGED <<types, args, places, fullsize, ffi_values, reads>>
  BY DEF check_length
<1>2. Buffered'
  BY <1>1, BufferedStays DEF ArgumentsIInv
<1>3. Whole(Len(places)) => Fits
  <2>. SUFFICES ASSUME Whole(Len(places)) PROVE Fits
    OBVIOUS
  <2>0. PICK n : n = Len(places)
    OBVIOUS
  <2>1. /\ n = Len(types) /\ n = Len(ffi_values) /\ n \in Nat /\ n \in 0 .. n
        /\ types \in ArgumentLists /\ types \in Seq(Types) /\ Whole(n)
        /\ places \in Seq([at : Nat, length : Nat]) /\ args \in Seq(0 .. Base - 1)
    BY <1>1, <2>0, ArgumentsAssumption DEF ArgumentsIInv, Buffered
  <2>2. InPlace(n)
    <3>1. SUFFICES ASSUME NEW s \in 1 .. n
                   PROVE  ffi_values[s] = places[s].at
      BY DEF InPlace
    <3>2. Whole(s - 1)
      BY <2>1, <3>1 DEF Whole
    <3>3. ffi_values \in Seq(Nat)
      BY DEF ArgumentsIInv, TakenApart
    <3>4. s \in DOMAIN ffi_values
      BY <2>1, <3>3, LenProperties
    <3> QED
      BY <3>2, <3>4 DEF ArgumentsIInv, TakenApart, WholeArrives
  <2>3. fullsize = Ends(types)[n]
    BY <2>1, <2>2 DEF ArgumentsIInv, TakenApart
  <2>4. \A j \in 1 .. n : places[j].length \in Nat
    <3>1. ASSUME NEW j \in 1 .. n
          PROVE  places[j] \in [at : Nat, length : Nat]
      BY <2>0, <2>1, ElementOfSeq
    <3> QED
      BY <3>1
  <2>5. NoneLonger(n) /\ NoneShorter(n)
    <3>1. \A j \in 1 .. n : places[j].length = Size[types[j]]
      BY <2>1 DEF Whole
    <3> QED
      BY <2>4, <3>1 DEF NoneLonger, NoneShorter
  <2>6. /\ PlaceEnd(n) = Len(args)
        /\ PlaceEnd(n) <= Ends(types)[n] /\ PlaceEnd(n) >= Ends(types)[n]
    BY <2>0, <2>1, <2>5 DEF ArgumentsIInv, Buffered
  <2>7. Len(args) \in Nat /\ fullsize \in Nat
    <3>1. Weight[SizeofSizet] \in Nat
      BY WeightIs, ArgumentsAssumption
    <3> QED
      BY <2>1, <3>1 DEF ArgumentsIInv, TakenApart
  <2> QED
    BY <2>3, <2>6, <2>7 DEF Fits
<1>4. WholeArrives'
  <2>1. \A k \in DOMAIN ffi_values' : Whole(k - 1)' => ffi_values'[k] = places'[k].at
    BY <1>1 DEF ArgumentsIInv, TakenApart, WholeArrives, Whole
  <2>2. Whole(Len(places))' => /\ Whole(Len(places))
                              /\ \A k \in DOMAIN reads : ~Beyond(reads[k])' <=> ~Beyond(reads[k])
    BY <1>1 DEF Whole, Beyond
  <2>3. Whole(Len(places)) => stage' = "called" /\ \A k \in DOMAIN reads : ~Beyond(reads[k])
    BY <1>1, <1>3 DEF ArgumentsIInv, TakenApart, WholeArrives
  <2> QED
    BY <1>1, <2>1, <2>2, <2>3 DEF WholeArrives, Beyond
<1>5. InPlace(Len(ffi_values))' => InPlace(Len(ffi_values))
  BY <1>1 DEF InPlace
<1>6. TakenApart'
  BY <1>1, <1>4, <1>5 DEF ArgumentsIInv, TakenApart, Fits
<1> QED
  BY <1>2, <1>6 DEF ArgumentsIInv

LEMMA ArgumentsInvariance == ArgumentsSpec => []ArgumentsIInv
<1>1. ArgumentsInit => ArgumentsIInv
  BY ArgumentsInitIInv
<1>2. ArgumentsIInv /\ [ArgumentsNext]_argumentsVars => ArgumentsIInv'
  <2>1. ArgumentsIInv /\ UNCHANGED argumentsVars => ArgumentsIInv'
    BY DEF argumentsVars, ArgumentsIInv, Buffered, PlaceEnd, NoneLonger, NoneShorter, Whole,
           TakenApart, InPlace, WholeArrives, Beyond
  <2> QED
    BY <2>1, CallFunctionIInv, callIInv, NextArgumentIInv, segfaultIInv, check_lengthIInv
       DEF ArgumentsNext
<1> QED
  BY <1>1, <1>2, PTL DEF ArgumentsSpec

\* The variables of Arguments keep their types.
THEOREM ArgumentsTypeCorrect == ArgumentsSpec => []ArgumentsTypeOK
<1>1. ArgumentsIInv => ArgumentsTypeOK
  BY DEF ArgumentsIInv, Buffered, TakenApart, ArgumentsTypeOK
<1> QED
  BY <1>1, ArgumentsInvariance, PTL

\* However many arguments there are, those before the first incomplete one are found where the
\* class has put them; if all are complete, the call is made and no header is read behind the
\* buffer (cna.c:312-338).
THEOREM CompleteArgumentsArrive == ArgumentsSpec => []WholeArrives
<1>1. ArgumentsIInv => WholeArrives
  BY DEF ArgumentsIInv, TakenApart
<1> QED
  BY <1>1, ArgumentsInvariance, PTL

\* Values that are too short are noticed, however many there are, unless a header was read from
\* another place than its own.  If each was read from its place, what the library has counted is what the types need,
\* and it is the length of the buffer: the values cannot all be too short, nor all too long.
THEOREM IncompleteArgumentsSeen == ArgumentsSpec => []WrongLengthSeen
<1>1. ArgumentsIInv => WrongLengthSeen
  <2>. SUFFICES ASSUME ArgumentsIInv, stage = "called", NEW k \in Wrong,
                       \A s \in DOMAIN types : types[s] \in Structs => ffi_values[s] = places[s].at,
                       \A j \in Wrong : (places[j].length > Size[types[j]])
                                            = (places[k].length > Size[types[k]])
                PROVE  FALSE
    BY DEF WrongLengthSeen
  <2>0. PICK n : n = Len(types)
    OBVIOUS
  <2>1. /\ types \in ArgumentLists /\ types \in Seq(Types)
        /\ n \in Nat /\ n = Len(places) /\ n = Len(ffi_values) /\ n \in 0 .. n
        /\ DOMAIN types = 1 .. n /\ DOMAIN places = 1 .. n
        /\ places \in Seq([at : Nat, length : Nat]) /\ args \in Seq(0 .. Base - 1)
        /\ fullsize = Len(args)
    BY <2>0, ArgumentsAssumption, LenProperties DEF ArgumentsIInv, Buffered, TakenApart
  <2>2. fullsize = Ends(types)[n]
    <3>1. InPlace(n)
      BY <2>1 DEF InPlace
    <3> QED
      BY <2>1, <3>1 DEF ArgumentsIInv, TakenApart
  <2>3. \A j \in 1 .. n : places[j].length \in Nat /\ Size[types[j]] \in Nat
    <3>1. ASSUME NEW j \in 1 .. n
          PROVE  places[j] \in [at : Nat, length : Nat] /\ types[j] \in Types
      BY <2>0, <2>1, ElementOfSeq
    <3> QED
      BY <3>1, ArgumentsAssumption
  <2>4. k \in 1 .. n /\ ~Whole(n)
    BY <2>1 DEF Wrong, Whole
  <2>5. NoneLonger(n) \/ NoneShorter(n)
    <3>1. CASE places[k].length > Size[types[k]]
      <4>1. ASSUME NEW j \in 1 .. n
            PROVE  places[j].length >= Size[types[j]]
        <5>1. CASE j \in Wrong
          <6>1. (places[j].length > Size[types[j]])
            BY <3>1, <5>1
          <6> QED
            BY <2>3, <6>1
        <5>2. CASE j \notin Wrong
          <6>1. places[j].length = Size[types[j]]
            BY <2>1, <5>2 DEF Wrong
          <6> QED
            BY <2>3, <6>1
        <5> QED
          BY <5>1, <5>2
      <4> QED
        BY <4>1 DEF NoneShorter
    <3>2. CASE ~(places[k].length > Size[types[k]])
      <4>1. ASSUME NEW j \in 1 .. n
            PROVE  places[j].length <= Size[types[j]]
        <5>1. CASE j \in Wrong
          <6>1. ~(places[j].length > Size[types[j]])
            BY <3>2, <5>1
          <6> QED
            BY <2>3, <6>1
        <5>2. CASE j \notin Wrong
          <6>1. places[j].length = Size[types[j]]
            BY <2>1, <5>2 DEF Wrong
          <6> QED
            BY <2>3, <6>1
        <5> QED
          BY <5>1, <5>2
      <4> QED
        BY <4>1 DEF NoneLonger
    <3> QED
      BY <3>1, <3>2
  <2>6. /\ PlaceEnd(n) = Len(args)
        /\ NoneLonger(n) => PlaceEnd(n) < Ends(types)[n]
        /\ NoneShorter(n) => PlaceEnd(n) > Ends(types)[n]
    BY <2>1, <2>4 DEF ArgumentsIInv, Buffered
  <2>7. Len(args) \in Nat
    BY <2>1
  <2>8. PICK all : all = Len(args)
    OBVIOUS
  <2>9. /\ Ends(types)[n] = all /\ PlaceEnd(n) = all /\ all \in Nat
        /\ PlaceEnd(n) < Ends(types)[n] \/ PlaceEnd(n) > Ends(types)[n]
    BY <2>1, <2>2, <2>5, <2>6, <2>7, <2>8
  <2> QED
    BY ONLY <2>9
<1> QED
  BY <1>1, ArgumentsInvariance, PTL
=============================================================================
