------------------------ MODULE ElementAccessProofs -------------------------
(***************************************************************************)
(* Proofs about ElementAccess, for every platform, size and arrangement of *)
(* the arrays.  The key is ElementFound: the arithmetic of size_t leads    *)
(* from a pointer into an array to the element the client means, also for  *)
(* a negative index, which the class sends as a huge one.                  *)
(***************************************************************************)
EXTENDS ElementAccess, TLAPS

(* Whole turns around the address space do not matter.                         *)
LEMMA MultipleOfModulus ==
    ASSUME NEW w \in Nat \ {0}, NEW x \in 0 .. w - 1, NEW q \in Nat
    PROVE  (x + w * q) % w = x
<1>. DEFINE r == (x + w * q) % w
            d == (x + w * q) \div w
<1>1. /\ x + w * q \in Int /\ r \in 0 .. w - 1 /\ d \in Int
      /\ x + w * q = w * d + r
  OBVIOUS
<1>. HIDE DEF r, d
<1>2. w * (q - d) = r - x /\ q - d \in Int
  BY <1>1
<1>3. r - x < w /\ r - x > -w
  BY <1>1
<1>4. CASE q - d >= 1
  <2>1. w * (q - d) >= w
    BY <1>1, <1>4
  <2>2. QED
    BY <1>2, <1>3, <2>1
<1>5. CASE q - d <= -1
  <2>1. w * (q - d) <= -w
    BY <1>1, <1>5
  <2>2. QED
    BY <1>2, <1>3, <2>1
<1>6. CASE q - d = 0
  BY <1>1, <1>2, <1>6
<1>7. QED
  BY <1>2, <1>4, <1>5, <1>6 DEF r

(* More elements have more bytes.                                              *)
LEMMA MulMonotone ==
    ASSUME NEW s \in Nat, NEW m \in Int, NEW n \in Int, m <= n
    PROVE  m * s <= n * s
OBVIOUS

(* The elements of one array lie one after the other.                          *)
LEMMA ElementsInOrder ==
    ASSUME NEW s \in Nat, NEW b \in Nat, NEW m \in Nat, NEW n \in Nat, m < n
    PROVE  b + m * s + s <= b + n * s
<1>1. (m + 1) * s <= n * s
  BY MulMonotone
<1>2. (m + 1) * s = m * s + s /\ m * s \in Nat /\ n * s \in Nat
  OBVIOUS
<1>3. QED
  BY <1>1, <1>2

LEMMA SizesPositive ==
    ASSUME NEW a \in Array
    PROVE  /\ Size(ElementType[a]) \in Nat \ {0}
           /\ Size(ElementType[a]) \in DOMAIN Words
           /\ ElementType[a] \in Valued
<1>1. ElementType[a] \in Scalar \cup {List} /\ Scalar \subseteq 0 .. NTYPES - 1
  BY ArraysAssumption DEF Scalar, NTYPES
<1>2. Size(ElementType[a]) \in Nat \ {0}
  <2>1. CASE ElementType[a] = List
    BY <2>1, ArraysAssumption DEF Size
  <2>2. CASE ElementType[a] # List
    <3>1. ElementType[a] \in Scalar /\ TypeSizes[ElementType[a]] \in Nat
      BY <1>1, <2>2, ArraysAssumption
    <3>2. TypeSizes[ElementType[a]] > 0
      BY <3>1, ArraysAssumption
    <3>3. QED
      BY <2>2, <3>1, <3>2 DEF Size
  <2>3. QED
    BY <2>1, <2>2
<1>3. QED
  BY <1>1, <1>2, ArraysAssumption DEF Valued

(* Element n of a lies in the address space.                                   *)
LEMMA ElementInside ==
    ASSUME NEW a \in Array, NEW n \in Elements(a)
    PROVE  LET s == Size(ElementType[a])
           IN  /\ Base[a] \in Nat /\ n \in Nat /\ Length[a] \in Nat /\ Length[a] <= Wrap
               /\ n * s \in Nat /\ (n + 1) * s = n * s + s
               /\ Base[a] + n * s \in Address
               /\ Base[a] + n * s + s <= Wrap
               /\ Wrap \in Nat \ {0}
               /\ ElementBytes(a, n) = Base[a] + n * s .. Base[a] + n * s + s - 1
<1>. DEFINE s == Size(ElementType[a])
<1>1. s \in Nat \ {0}
  BY SizesPositive
<1>. HIDE DEF s
<1>2. /\ Base[a] \in Nat /\ Length[a] \in Nat /\ n \in 0 .. Length[a] - 1
      /\ Wrap \in Nat \ {0}
      /\ Base[a] + Length[a] * s <= Wrap
  BY ArraysAssumption DEF Elements, s, Wrap, Address
<1>3. (n + 1) * s <= Length[a] * s /\ n * s \in Nat /\ (n + 1) * s = n * s + s
  BY <1>1, <1>2, MulMonotone
<1>4. Length[a] * 1 <= Length[a] * s
  BY <1>1, <1>2
<1>5. Base[a] + n * s + s <= Wrap
  BY <1>1, <1>2, <1>3
<1>6. Base[a] + n * s \in Address
  BY <1>1, <1>2, <1>3, <1>5 DEF Address
<1>7. Length[a] <= Wrap
  BY <1>1, <1>2, <1>4
<1>8. ElementBytes(a, n) = Base[a] + n * s .. Base[a] + n * s + s - 1
  <2>1. ElementBytes(a, n) = Base[a] + n * s .. Base[a] + (n + 1) * s - 1
    BY DEF ElementBytes, s
  <2>2. Base[a] + (n + 1) * s - 1 = Base[a] + n * s + s - 1
    BY <1>1, <1>2, <1>3
  <2>3. QED
    BY <2>1, <2>2
<1>9. QED
  BY <1>2, <1>3, <1>5, <1>6, <1>7, <1>8 DEF s

(* The library computes the address of the element the client means.           *)
LEMMA ElementFound ==
    ASSUME NEW a \in Array, NEW k \in Elements(a), NEW n \in Elements(a)
    PROVE  ElementAddress(Base[a] + k * Size(ElementType[a]), n - k, Size(ElementType[a]))
               = Base[a] + n * Size(ElementType[a])
<1>. DEFINE s == Size(ElementType[a])
            x == Base[a] + n * s
<1>1. /\ s \in Nat \ {0} /\ Base[a] \in Nat /\ Wrap \in Nat \ {0} /\ Length[a] <= Wrap
      /\ x \in 0 .. Wrap - 1 /\ n \in Nat /\ k \in Nat
  BY SizesPositive, ElementInside DEF Address
<1>2. n \in 0 .. Length[a] - 1 /\ k \in 0 .. Length[a] - 1 /\ Length[a] \in Nat
  BY ArraysAssumption DEF Elements
<1>. HIDE DEF s
<1>3. CASE n >= k
  <2>1. (n - k) % Wrap = n - k
    BY <1>1, <1>2, <1>3
  <2>2. Base[a] + k * s + (n - k) * s = x + Wrap * 0
    BY <1>1
  <2>3. (Base[a] + k * s + (n - k) * s) % Wrap = x
    BY <1>1, <2>2
  <2>4. QED
    BY <2>1, <2>3 DEF ElementAddress, Index, s
<1>4. CASE n < k
  <2>1. (n - k) % Wrap = n - k + Wrap
    BY <1>1, <1>2, <1>4
  <2>2. Base[a] + k * s + (n - k + Wrap) * s = x + Wrap * s
    BY <1>1
  <2>. HIDE DEF x
  <2>3. (Base[a] + k * s + (n - k + Wrap) * s) % Wrap = x
    BY <1>1, <2>2, MultipleOfModulus
  <2>4. QED
    BY <2>1, <2>3 DEF ElementAddress, Index, s, x
<1>5. QED
  BY <1>1, <1>3, <1>4

(* A value that is written is the element it was written to, and no other.     *)
LEMMA WrittenElement ==
    ASSUME NEW a \in Array, NEW n \in Elements(a), NEW v \in Words[Size(ElementType[a])],
           TypeOK,
           memory' = Written(Base[a] + n * Size(ElementType[a]), Size(ElementType[a]), v)
    PROVE  /\ memory' \in [Address -> Byte]
           /\ \A x \in Address : memory'[x] # memory[x] => x \in ElementBytes(a, n)
           /\ At(a, n)' = v
           /\ \A b \in Array : \A m \in Elements(b) :
                (b # a \/ m # n) => At(b, m)' = At(b, m)
<1>. DEFINE s == Size(ElementType[a])
            x0 == Base[a] + n * s
<1>1. s \in Nat \ {0} /\ x0 \in Nat /\ x0 + s <= Wrap /\ Wrap \in Nat
      /\ ElementBytes(a, n) = x0 .. x0 + s - 1
  BY SizesPositive, ElementInside DEF Address
<1>2. v \in [0 .. s - 1 -> Byte]
  BY SizesPositive, ArraysAssumption
<1>3. memory \in [Address -> Byte]
  BY DEF TypeOK
<1>4. memory' = [x \in Address |-> IF x \in x0 .. x0 + s - 1 THEN v[x - x0] ELSE memory[x]]
  BY DEF Written
<1>. HIDE DEF x0
<1>5. \A x \in x0 .. x0 + s - 1 : v[x - x0] \in Byte
  BY <1>1, <1>2
<1>6. memory' \in [Address -> Byte]
  BY <1>3, <1>4, <1>5
<1>7. \A x \in Address : x \notin ElementBytes(a, n) => memory'[x] = memory[x]
  BY <1>1, <1>4
<1>8. At(a, n)' = v
  <2>2. ASSUME NEW i \in 0 .. s - 1
        PROVE  memory'[x0 + i] = v[i]
    <3>. DEFINE x == x0 + i
    <3>. HIDE DEF s
    <3>1. x \in Address /\ x \in x0 .. x0 + s - 1 /\ x - x0 = i
      BY <1>1 DEF Address
    <3>. HIDE DEF x
    <3>2. memory'[x] = v[x - x0]
      BY <1>4, <3>1
    <3>3. memory'[x] = v[i]
      BY <3>1, <3>2
    <3>4. QED
      BY <3>3 DEF x
  <2>3. At(a, n)' = [i \in 0 .. s - 1 |-> memory'[x0 + i]]
    BY DEF At, Bytes, x0
  <2>4. QED
    BY <1>2, <2>2, <2>3
<1>9. ASSUME NEW b \in Array, NEW m \in Elements(b), b # a \/ m # n
      PROVE  At(b, m)' = At(b, m)
  <2>. DEFINE u == Size(ElementType[b])
              y0 == Base[b] + m * u
  <2>1. u \in Nat \ {0} /\ y0 \in Nat /\ y0 + u <= Wrap
        /\ ElementBytes(b, m) = y0 .. y0 + u - 1
    BY SizesPositive, ElementInside DEF Address
  <2>2. ElementBytes(a, n) \cap ElementBytes(b, m) = {}
    <3>1. CASE b # a
      BY <3>1, ArraysAssumption
    <3>2. CASE b = a /\ m < n
      <4>1. y0 = Base[a] + m * s /\ u = s /\ x0 = Base[a] + n * s
        BY <3>2 DEF x0
      <4>2. s \in Nat /\ Base[a] \in Nat /\ m \in Nat /\ n \in Nat /\ m < n
        BY <1>1, <3>2, ElementInside
      <4>. HIDE DEF y0, u, s
      <4>3. Base[a] + m * s + s <= Base[a] + n * s
        BY <4>2, ElementsInOrder
      <4>4. y0 + u <= x0
        BY <4>1, <4>3
      <4>5. QED
        BY <1>1, <2>1, <4>4
    <3>3. CASE b = a /\ n < m
      <4>1. y0 = Base[a] + m * s /\ x0 = Base[a] + n * s
        BY <3>3 DEF x0
      <4>2. s \in Nat /\ Base[a] \in Nat /\ m \in Nat /\ n \in Nat /\ n < m
        BY <1>1, <3>3, ElementInside
      <4>. HIDE DEF y0, u, s
      <4>3. Base[a] + n * s + s <= Base[a] + m * s
        BY <4>2, ElementsInOrder
      <4>4. x0 + s <= y0
        BY <4>1, <4>3
      <4>5. QED
        BY <1>1, <2>1, <4>4
    <3>4. QED
      BY <1>9, <3>1, <3>2, <3>3, ElementInside
  <2>. HIDE DEF y0, u
  <2>3. \A i \in 0 .. u - 1 : y0 + i \in Address /\ y0 + i \in ElementBytes(b, m)
    BY <1>1, <2>1 DEF Address
  <2>4. \A i \in 0 .. u - 1 : memory'[y0 + i] = memory[y0 + i]
    BY <1>7, <2>2, <2>3
  <2>5. /\ At(b, m) = [i \in 0 .. u - 1 |-> memory[y0 + i]]
        /\ At(b, m)' = [i \in 0 .. u - 1 |-> memory'[y0 + i]]
    BY DEF At, Bytes, y0, u
  <2>6. QED
    BY <2>4, <2>5
<1>10. QED
  BY <1>6, <1>7, <1>8, <1>9

-----------------------------------------------------------------------------
LEMMA InitTyped == Init => TypeOK
<1>. SUFFICES ASSUME Init PROVE TypeOK
  OBVIOUS
<1>1. memory \in [Address -> Byte]
  BY ArraysAssumption DEF Init
<1>2. \A a \in Array : \A n \in Elements(a) : At(a, n) \in Words[Size(ElementType[a])]
  BY ArraysAssumption DEF Init, At
<1>3. QED
  BY <1>1, <1>2 DEF Init, TypeOK

(* What one access does to the variables.                                      *)
Effect(a, n) ==
    \/ UNCHANGED <<memory, got>>
    \/ \E v \in Words[Size(ElementType[a])] :
        /\ memory' = Written(Base[a] + n * Size(ElementType[a]), Size(ElementType[a]), v)
        /\ got' = got
        /\ ElementType[a] \in Scalar
    \/ /\ memory' = memory
       /\ got' = [got EXCEPT ![a] = At(a, n)]
       /\ ElementType[a] \in Scalar

LEMMA AccessEffect ==
    ASSUME NEW a \in Array, NEW k \in Elements(a), NEW n \in Elements(a), Access(a, k, n)
    PROVE  /\ Effect(a, n)
           /\ \E who \in {"nobody", "class", "library"} :
                /\ refusedBy' = [refusedBy EXCEPT ![a] = who]
                /\ ElementType[a] \in Scalar => who # "library"
<1>. DEFINE p == Base[a] + k * Size(ElementType[a])
            s == Size(ElementType[a])
<1>1. PICK t \in {ElementType[a], VOID, STRUCT, NTYPES} :
            \/ \E index \in {n - k, Wrap} :
                    PointerSetAt_refused(a, t, index) \/ PointerGetAt_refused(a, index)
            \/ pointer_set_at_failure(a, t, n - k)
            \/ \E v \in Words[s] : PointerSetAt(a, t, p, n - k, v)
            \/ PointerGetAt_nothing(a, t, n - k)
            \/ PointerGetAt(a, t, p, n - k)
  BY DEF Access
<1>2. ElementType[a] \in Scalar \cup {List}
  BY ArraysAssumption
<1>3. \A u \in Valued : u \in Scalar => Size(u) = get_size(TypeByte(u))
  BY DEF Valued, Scalar, List, Size, get_size, TypeByte
<1>4. /\ get_size(TypeByte(List)) = 0 /\ get_size(TypeByte(VOID)) = 0
      /\ get_size(TypeByte(STRUCT)) = 0 /\ get_size(TypeByte(NTYPES)) = 0
  BY DEF get_size, TypeByte, List, VOID, STRUCT, NTYPES, Scalar
<1>5. VOID \notin Valued /\ STRUCT \notin Valued /\ NTYPES \notin Valued
  BY DEF Valued, Scalar, List, VOID, STRUCT, NTYPES
<1>6. s \in Nat \ {0}
  BY SizesPositive
<1>7. ElementAddress(p, n - k, s) = Base[a] + n * s
  BY ElementFound
<1>. HIDE DEF p, s
<1>8. ASSUME NEW index \in {n - k, Wrap}, PointerSetAt_refused(a, t, index)
      PROVE  /\ Effect(a, n)
             /\ refusedBy' = [refusedBy EXCEPT ![a] = "class"]
  BY <1>8 DEF PointerSetAt_refused, Effect, Outcome
<1>9. CASE pointer_set_at_failure(a, t, n - k)
  <2>1. t \in Valued /\ t \notin Scalar
    BY <1>3, <1>9 DEF pointer_set_at_failure
  <2>2. t = ElementType[a]
    BY <1>1, <1>5, <2>1
  <2>3. QED
    BY <1>9, <2>1, <2>2 DEF pointer_set_at_failure, Effect, Outcome
<1>10. ASSUME NEW v \in Words[s], PointerSetAt(a, t, p, n - k, v)
       PROVE  /\ Effect(a, n)
              /\ refusedBy' = [refusedBy EXCEPT ![a] = "nobody"]
  <2>1. t \in Valued /\ Size(t) = get_size(TypeByte(t))
    BY <1>10 DEF PointerSetAt
  <2>2. t = ElementType[a]
    BY <1>1, <1>5, <2>1
  <2>3. t \in Scalar /\ get_size(TypeByte(t)) = s
    BY <1>2, <1>4, <1>6, <2>1, <2>2 DEF s
  <2>4. /\ memory' = Written(ElementAddress(p, n - k, s), s, v)
        /\ refusedBy' = [refusedBy EXCEPT ![a] = "nobody"] /\ got' = got
    BY <1>10, <2>3 DEF PointerSetAt, Outcome
  <2>5. QED
    BY <1>7, <2>2, <2>3, <2>4 DEF Effect, s
<1>11. ASSUME NEW index \in {n - k, Wrap}, PointerGetAt_refused(a, index)
       PROVE  /\ Effect(a, n)
              /\ refusedBy' = [refusedBy EXCEPT ![a] = "class"]
  BY <1>11 DEF PointerGetAt_refused, Effect, Outcome
<1>12. CASE PointerGetAt_nothing(a, t, n - k)
  BY <1>12 DEF PointerGetAt_nothing, Effect, Outcome
<1>13. CASE PointerGetAt(a, t, p, n - k)
  <2>1. get_size(TypeByte(t)) > 0
    BY <1>13 DEF PointerGetAt
  <2>2. t = ElementType[a]
    BY <1>1, <1>4, <2>1
  <2>3. t \in Scalar /\ get_size(TypeByte(t)) = s
    BY <1>2, <1>3, <1>4, <2>1, <2>2 DEF s, Valued
  <2>4. /\ got' = [got EXCEPT ![a] = Read(ElementAddress(p, n - k, s), s)]
        /\ refusedBy' = [refusedBy EXCEPT ![a] = "nobody"] /\ memory' = memory
    BY <1>13, <2>3 DEF PointerGetAt, Outcome
  <2>5. Read(ElementAddress(p, n - k, s), s) = At(a, n)
    BY <1>7 DEF Read, At, Bytes, s
  <2>6. QED
    BY <2>2, <2>3, <2>4, <2>5 DEF Effect
<1>14. QED
  BY <1>1, <1>8, <1>9, <1>10, <1>11, <1>12, <1>13

-----------------------------------------------------------------------------
IInv == TypeOK /\ got \in [Array -> (UNION {Words[s] : s \in DOMAIN Words}) \cup {Nothing}]
        /\ ScalarsAccepted

LEMMA InitIInv == Init => IInv
<1>. SUFFICES ASSUME Init PROVE IInv
  OBVIOUS
<1>1. TypeOK
  BY InitTyped
<1>2. \A a \in Array : refusedBy[a] = "nobody" /\ got = [b \in Array |-> Nothing]
  BY DEF Init
<1>3. ScalarsAccepted
  BY <1>2 DEF ScalarsAccepted
<1>4. got \in [Array -> (UNION {Words[s] : s \in DOMAIN Words}) \cup {Nothing}]
  BY DEF Init
<1>5. QED
  BY <1>1, <1>3, <1>4 DEF IInv

LEMMA AccessIInv ==
    ASSUME IInv, NEW a \in Array, NEW k \in Elements(a), NEW n \in Elements(a),
           Access(a, k, n)
    PROVE  IInv'
<1>1. Effect(a, n)
  BY AccessEffect
<1>2. PICK who \in {"nobody", "class", "library"} :
        /\ refusedBy' = [refusedBy EXCEPT ![a] = who]
        /\ ElementType[a] \in Scalar => who # "library"
  BY AccessEffect
<1>3. ScalarsAccepted' /\ refusedBy' \in [Array -> {"nobody", "class", "library"}]
  BY <1>2 DEF IInv, TypeOK, ScalarsAccepted
<1>4. \A b \in Array : Words[Size(ElementType[b])]
                            \subseteq UNION {Words[s] : s \in DOMAIN Words}
  BY SizesPositive
<1>5. CASE UNCHANGED <<memory, got>>
  <2>1. \A b \in Array : \A m \in Elements(b) : At(b, m)' = At(b, m)
    BY <1>5 DEF At, Bytes
  <2>2. QED
    BY <1>3, <1>5, <2>1 DEF IInv, TypeOK
<1>6. ASSUME NEW v \in Words[Size(ElementType[a])], got' = got,
             memory' = Written(Base[a] + n * Size(ElementType[a]), Size(ElementType[a]), v)
      PROVE  IInv'
  <2>1. /\ memory' \in [Address -> Byte]
        /\ At(a, n)' = v
        /\ \A b \in Array : \A m \in Elements(b) :
                (b # a \/ m # n) => At(b, m)' = At(b, m)
    BY <1>6, WrittenElement DEF IInv
  <2>2. \A b \in Array : \A m \in Elements(b) : At(b, m)' \in Words[Size(ElementType[b])]
    BY <1>6, <2>1 DEF IInv, TypeOK
  <2>3. QED
    BY <1>3, <1>6, <2>1, <2>2 DEF IInv, TypeOK
<1>7. CASE memory' = memory /\ got' = [got EXCEPT ![a] = At(a, n)]
  <2>1. \A b \in Array : \A m \in Elements(b) : At(b, m)' = At(b, m)
    BY <1>7 DEF At, Bytes
  <2>2. At(a, n) \in Words[Size(ElementType[a])]
    BY DEF IInv, TypeOK
  <2>3. got' \in [Array -> (UNION {Words[s] : s \in DOMAIN Words}) \cup {Nothing}]
    BY <1>4, <1>7, <2>2 DEF IInv
  <2>4. \A b \in Array : got'[b] \in Words[Size(ElementType[b])] \cup {Nothing}
    BY <1>7, <2>2 DEF IInv, TypeOK
  <2>5. QED
    BY <1>3, <1>7, <2>1, <2>3, <2>4 DEF IInv, TypeOK
<1>8. QED
  BY <1>1, <1>5, <1>6, <1>7 DEF Effect

LEMMA NextIInv == IInv /\ [Next]_vars => IInv'
<1>1. ASSUME IInv, UNCHANGED vars
      PROVE  IInv'
  BY <1>1 DEF IInv, TypeOK, ScalarsAccepted, vars, At, Bytes
<1>2. QED
  BY <1>1, AccessIInv DEF Next

LEMMA Invariance == Spec => []IInv
BY InitIInv, NextIInv, PTL DEF Spec

(* Every element keeps a value of its type.                                    *)
THEOREM TypeCorrect == Spec => []TypeOK
BY Invariance, PTL DEF IInv

(* The length tests of pointer_set_at never refuse a scalar (cna.c:413-427).   *)
THEOREM NoScalarRefused == Spec => []ScalarsAccepted
BY Invariance, PTL DEF IInv

(* A write stays within one element, whatever index and size are               *)
(* (cna.c:418-431).                                                            *)
THEOREM WritesStayInElement == Spec => WithinElement
<1>1. ASSUME IInv, Next, memory' # memory
      PROVE  \E a \in Array : \E n \in Elements(a) :
                \A x \in Address : memory'[x] # memory[x] => x \in ElementBytes(a, n)
  <2>1. PICK a \in Array : \E k, n \in Elements(a) : Access(a, k, n)
    BY <1>1 DEF Next
  <2>2. PICK k \in Elements(a), n \in Elements(a) : Access(a, k, n)
    BY <2>1
  <2>3. PICK v \in Words[Size(ElementType[a])] :
            /\ memory' = Written(Base[a] + n * Size(ElementType[a]), Size(ElementType[a]), v)
    BY <1>1, <2>2, AccessEffect DEF Effect
  <2>4. \A x \in Address : memory'[x] # memory[x] => x \in ElementBytes(a, n)
    BY <1>1, <2>3, WrittenElement DEF IInv
  <2>5. QED
    BY <2>4
<1>2. ASSUME IInv, [Next]_vars
      PROVE  [memory' # memory =>
                \E a \in Array : \E n \in Elements(a) :
                    \A x \in Address : memory'[x] # memory[x] => x \in ElementBytes(a, n)]_vars
  BY <1>1, <1>2
<1>3. QED
  BY <1>2, Invariance, PTL DEF Spec, WithinElement

-----------------------------------------------------------------------------
Mapped == [a \in Scalars |-> [n \in Elements(a) |-> At(a, n)]]
MappedGot == [a \in Scalars |-> got[a]]

LEMMA InitVectors == Init => Promise!Init
<1>. SUFFICES ASSUME Init PROVE Promise!Init
  OBVIOUS
<1>1. \A a \in Scalars : \A n \in Elements(a) : At(a, n) \in Value(a)
  BY InitTyped DEF TypeOK, Scalars, Value
<1>2. \A a \in Scalars : Promise!Element(a) = Elements(a)
  BY DEF Promise!Element, Elements
<1>3. \A a \in Scalars : Mapped[a] \in [Promise!Element(a) -> Value(a)]
  BY <1>1, <1>2 DEF Mapped
<1>4. MappedGot = [a \in Scalars |-> Nothing]
  BY DEF Init, MappedGot, Scalars
<1>5. QED
  BY <1>3, <1>4 DEF Promise!Init, Mapped, MappedGot

LEMMA AccessVectors ==
    ASSUME IInv, NEW a \in Array, NEW k \in Elements(a), NEW n \in Elements(a),
           Access(a, k, n)
    PROVE  [Promise!Next]_Promise!vectorVars
<1>1. Effect(a, n)
  BY AccessEffect
<1>2. \A b \in Scalars : Promise!Element(b) = Elements(b)
  BY DEF Promise!Element, Elements
<1>3. CASE UNCHANGED <<memory, got>>
  <2>1. Mapped' = Mapped /\ MappedGot' = MappedGot
    BY <1>3 DEF Mapped, MappedGot, At, Bytes
  <2>2. QED
    BY <2>1 DEF Promise!vectorVars, Mapped, MappedGot
<1>4. ASSUME NEW v \in Words[Size(ElementType[a])], got' = got, ElementType[a] \in Scalar,
             memory' = Written(Base[a] + n * Size(ElementType[a]), Size(ElementType[a]), v)
      PROVE  Promise!SetAt(a, n, v)
  <2>1. /\ At(a, n)' = v
        /\ \A b \in Array : \A m \in Elements(b) :
                (b # a \/ m # n) => At(b, m)' = At(b, m)
    BY <1>4, WrittenElement DEF IInv
  <2>2. MappedGot' = MappedGot
    BY <1>4 DEF MappedGot
  <2>3. ASSUME NEW b \in Scalars, b # a
        PROVE  Mapped'[b] = Mapped[b]
    <3>1. \A m \in Elements(b) : At(b, m)' = At(b, m)
      BY <2>1, <2>3 DEF Scalars
    <3>2. QED
      BY <3>1 DEF Mapped
  <2>4. a \in Scalars
    BY <1>4 DEF Scalars
  <2>5. Mapped'[a] = [Mapped[a] EXCEPT ![n] = v]
    <3>1. \A m \in Elements(a) : At(a, m)' = IF m = n THEN v ELSE At(a, m)
      BY <2>1
    <3>2. Mapped'[a] = [m \in Elements(a) |-> At(a, m)']
      BY <2>4 DEF Mapped
    <3>3. Mapped[a] = [m \in Elements(a) |-> At(a, m)]
      BY <2>4 DEF Mapped
    <3>4. QED
      BY <3>1, <3>2, <3>3
  <2>6. Mapped' = [Mapped EXCEPT ![a] = [Mapped[a] EXCEPT ![n] = v]]
    BY <2>3, <2>4, <2>5 DEF Mapped
  <2>7. QED
    BY <2>2, <2>6 DEF Promise!SetAt, Mapped, MappedGot
<1>5. ASSUME memory' = memory, got' = [got EXCEPT ![a] = At(a, n)], ElementType[a] \in Scalar
      PROVE  Promise!GetAt(a, n)
  <2>1. Mapped' = Mapped
    BY <1>5 DEF Mapped, At, Bytes
  <2>2. a \in Scalars
    BY <1>5 DEF Scalars
  <2>3. got \in [Array -> (UNION {Words[s] : s \in DOMAIN Words}) \cup {Nothing}]
    BY DEF IInv
  <2>4. MappedGot' = [MappedGot EXCEPT ![a] = At(a, n)]
    BY <1>5, <2>2, <2>3 DEF MappedGot, Scalars
  <2>5. Mapped[a][n] = At(a, n)
    BY <2>2 DEF Mapped
  <2>6. QED
    BY <2>1, <2>4, <2>5 DEF Promise!GetAt, Mapped, MappedGot
<1>6. CASE ElementType[a] \in Scalar
  <2>1. a \in Scalars /\ n \in Promise!Element(a)
    BY <1>2, <1>6 DEF Scalars
  <2>2. ASSUME NEW v \in Words[Size(ElementType[a])], got' = got,
               memory' = Written(Base[a] + n * Size(ElementType[a]), Size(ElementType[a]), v)
        PROVE  Promise!Next
    <3>1. Promise!SetAt(a, n, v) /\ v \in Value(a)
      BY <1>4, <1>6, <2>2 DEF Value
    <3>2. QED
      BY <2>1, <3>1 DEF Promise!Next
  <2>3. ASSUME memory' = memory, got' = [got EXCEPT ![a] = At(a, n)]
        PROVE  Promise!Next
    BY <1>5, <1>6, <2>1, <2>3 DEF Promise!Next
  <2>4. QED
    BY <1>1, <1>3, <2>2, <2>3 DEF Effect
<1>7. QED
  BY <1>1, <1>3, <1>6 DEF Effect

(* To the client every array of scalars is a vector: a read gives what was     *)
(* written last, whichever pointer and index led there (cna.xml:573-607).      *)
THEOREM Refinement == Spec => ImplementsVectors
<1>1. ASSUME UNCHANGED vars
      PROVE  UNCHANGED Promise!vectorVars
  <2>1. Mapped' = Mapped /\ MappedGot' = MappedGot
    BY <1>1 DEF vars, Mapped, MappedGot, At, Bytes
  <2>2. QED
    BY <2>1 DEF Promise!vectorVars, Mapped, MappedGot
<1>2. IInv /\ [Next]_vars => [Promise!Next]_Promise!vectorVars
  BY <1>1, AccessVectors DEF Next
<1>3. QED
  BY <1>2, InitVectors, Invariance, PTL DEF Spec, ImplementsVectors, Promise!Spec
=============================================================================
