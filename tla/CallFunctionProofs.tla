------------------------- MODULE CallFunctionProofs -------------------------
(***************************************************************************)
(* Theorems about call_function, for every platform and every input.       *)
(*                                                                         *)
(* The arguments are followed from the bytes they are read from to the     *)
(* pointers libffi is given.  What has to be carried through the recursion *)
(* is that the outermost structure started at NextByte, where the last     *)
(* type that was read ended, and that size is still the one next_type set  *)
(* there (zero, as for every structure).                                   *)
(*                                                                         *)
(* What the call accepts is proved in three steps: TypeLists is the        *)
(* function its equation defines, and its strings are seen as segments of  *)
(* one string that is read; what may be left of that string is described   *)
(* at the head of the loop (Ends) and within structures (Follows), and     *)
(* each code changes it as the reader does; and while the reader runs, the *)
(* string is well-formed exactly if what is left is right (ReadsOn).       *)
(***************************************************************************)
EXTENDS CallFunction, FiniteSetTheorems, WellFoundedInduction, SequenceTheorems, TLAPS

-----------------------------------------------------------------------------
(* The strings of type codes.  Induction first, for the recursive function TypeLists. *)
LEMMA LeastNatural ==
    ASSUME NEW S \in SUBSET Nat, S # {}
    PROVE  \E m \in S : \A k \in S : m <= k
<1>. DEFINE R == StrictSubsetOrdering(Nat)
            T == {0 .. k : k \in S}
<1>1. IsWellFoundedOn(R, FiniteSubsetsOf(Nat))
  BY FS_StrictSubsetOrderingWellFounded
<1>2. T \subseteq FiniteSubsetsOf(Nat) /\ T # {}
  <2>1. ASSUME NEW k \in S
        PROVE  0 .. k \in FiniteSubsetsOf(Nat)
    <3>1. k \in Int /\ 0 .. k \in SUBSET Nat
      OBVIOUS
    <3>2. IsFiniteSet(0 .. k)
      BY <3>1, FS_Interval
    <3>3. QED
      BY <3>1, <3>2 DEF FiniteSubsetsOf
  <2>2. QED
    BY <2>1
<1>. HIDE DEF R, T
<1>3. PICK x \in T : \A y \in T : ~ (<<y, x>> \in R)
  BY <1>1, <1>2, WFMin
<1>4. PICK m \in S : x = 0 .. m
  BY DEF T
<1>5. ASSUME NEW k \in S, k < m
      PROVE  FALSE
  <2>1. 0 .. k \in T /\ 0 .. k \subseteq x /\ 0 .. k # x
    BY <1>4, <1>5 DEF T
  <2>2. <<0 .. k, x>> \in R
    BY <1>2, <1>4, <2>1 DEF R, StrictSubsetOrdering
  <2>3. QED
    BY <1>3, <2>1, <2>2
<1>6. QED
  BY <1>5

LEMMA Induction ==
    ASSUME NEW S \in SUBSET Nat, 0 \in S, \A n \in S : n + 1 \in S
    PROVE  S = Nat
<1>1. SUFFICES ASSUME Nat \ S # {} PROVE FALSE
  OBVIOUS
<1>2. PICK m \in Nat \ S : \A k \in Nat \ S : m <= k
  BY <1>1, LeastNatural
<1>3. m # 0 /\ m - 1 \in Nat /\ m - 1 \in S
  BY <1>2
<1>4. m - 1 + 1 \in S
  BY <1>3
<1> QED
  BY <1>2, <1>4

-----------------------------------------------------------------------------
(* The strings that list n types, as TypeLists defines them from a table f of shorter ones. *)
Listed(f, l) ==
    LET Structs(k) == UNION {{<<CNA_STRUCT, n>> \o s : s \in f[k - 2][n]} : n \in 0 .. k - 2}
        Types(k) == IF k = 1 THEN {<<c>> : c \in Scalar} ELSE Structs(k)
        Starting(k, n) == {t \o s : t \in Types(k), s \in f[l - k][n - 1]}
    IN  [n \in 0 .. MaxLength |->
            IF n = 0 THEN {s \in {<<>>} : l = 0}
                     ELSE UNION {Starting(k, n) : k \in 1 .. l}]

(* They depend on the shorter ones only. *)
LEMMA ListedFromShorter ==
    ASSUME NEW f, NEW g, NEW l \in Nat, \A k \in Nat : k < l => f[k] = g[k]
    PROVE  Listed(f, l) = Listed(g, l)
<1>1. \A k \in 1 .. l : l - k \in Nat /\ l - k < l /\ (k # 1 => k - 2 \in Nat /\ k - 2 < l)
  OBVIOUS
<1>2. \A k \in 1 .. l : f[l - k] = g[l - k] /\ (k # 1 => f[k - 2] = g[k - 2])
  BY <1>1
<1>. DEFINE Structs(T, k) == UNION {{<<CNA_STRUCT, n>> \o s : s \in T[n]} : n \in 0 .. k - 2}
            Types(T, k) == IF k = 1 THEN {<<c>> : c \in Scalar} ELSE Structs(T, k)
            Starting(U, T, n) == {t \o s : t \in U, s \in T[n - 1]}
            With(h) == [n \in 0 .. MaxLength |->
                IF n = 0 THEN {s \in {<<>>} : l = 0}
                         ELSE UNION {Starting(Types(h[k - 2], k), h[l - k], n) : k \in 1 .. l}]
<1>3. Listed(f, l) = With(f) /\ Listed(g, l) = With(g)
  BY DEF Listed
<1>. HIDE DEF Structs
<1>4. ASSUME NEW k \in 1 .. l
      PROVE  Types(f[k - 2], k) = Types(g[k - 2], k)
  <2>1. CASE k = 1
    BY <2>1
  <2>2. CASE k # 1
    BY <1>2, <2>2
  <2> QED
    BY <2>1, <2>2
<1>. HIDE DEF Types, Starting
<1>5. \A n \in 0 .. MaxLength : \A k \in 1 .. l :
        Starting(Types(f[k - 2], k), f[l - k], n) = Starting(Types(g[k - 2], k), g[l - k], n)
  BY <1>2, <1>4
<1>6. ASSUME NEW n \in 0 .. MaxLength
      PROVE  UNION {Starting(Types(f[k - 2], k), f[l - k], n) : k \in 1 .. l}
             = UNION {Starting(Types(g[k - 2], k), g[l - k], n) : k \in 1 .. l}
  BY <1>5
<1>7. With(f) = With(g)
  BY <1>6
<1>. HIDE DEF With
<1> QED
  BY <1>3, <1>7

LEMMA ListedExists ==
    ASSUME NEW m \in Nat
    PROVE  \E f : f = [l \in 0 .. m |-> Listed(f, l)]
<1>. DEFINE Is(f, n) == f = [l \in 0 .. n |-> Listed(f, l)]
            S == {n \in Nat : \E f : Is(f, n)}
<1>1. 0 \in S
  <2>. DEFINE f == [l \in 0 .. 0 |-> Listed(<<>>, l)]
  <2>1. ASSUME NEW l \in 0 .. 0 PROVE Listed(f, l) = Listed(<<>>, l)
    <3>1. l \in Nat /\ \A k \in Nat : k < l => f[k] = <<>>[k]
      OBVIOUS
    <3>. HIDE DEF f
    <3> QED
      BY <3>1, ListedFromShorter
  <2>2. f = [l \in 0 .. 0 |-> Listed(f, l)]
    <3>. DEFINE h == [l \in 0 .. 0 |-> Listed(f, l)]
    <3>. SUFFICES f = h
      OBVIOUS
    <3> QED
      BY <2>1
  <2>. HIDE DEF f
  <2> QED
    BY <2>2
<1>2. ASSUME NEW n \in S PROVE n + 1 \in S
  <2>1. n \in Nat /\ n + 1 \in Nat
    OBVIOUS
  <2>2. PICK f : Is(f, n)
    OBVIOUS
  <2>. DEFINE h == [l \in 0 .. n + 1 |-> Listed(f, l)]
  <2>3. \A k \in 0 .. n : h[k] = f[k]
    <3>1. \A k \in 0 .. n : f[k] = Listed(f, k)
      BY <2>2
    <3>2. \A k \in 0 .. n : k \in 0 .. n + 1
      BY <2>1
    <3> QED
      BY <3>1, <3>2
  <2>4. ASSUME NEW l \in 0 .. n + 1 PROVE Listed(h, l) = Listed(f, l)
    <3>1. l \in Nat /\ \A k \in Nat : k < l => k \in 0 .. n
      BY <2>1
    <3>2. \A k \in Nat : k < l => h[k] = f[k]
      BY <2>3, <3>1
    <3>. HIDE DEF h
    <3> QED
      BY <3>1, <3>2, ListedFromShorter
  <2>5. Is(h, n + 1)
    BY <2>4
  <2>. HIDE DEF h
  <2> QED
    BY <2>1, <2>5
<1>. HIDE DEF S
<1>3. m \in S
  BY <1>1, <1>2, Induction DEF S
<1> QED
  BY <1>3 DEF S

LEMMA TypeListsAre ==
    \A l \in 0 .. MaxLength : Codec!TypeLists[l] = Listed(Codec!TypeLists, l)
<1>1. \E f : f = [l \in 0 .. MaxLength |-> Listed(f, l)]
  BY ListedExists, LengthsAssumption
<1>2. Codec!TypeLists = CHOOSE f : f = [l \in 0 .. MaxLength |-> Listed(f, l)]
  BY DEF Codec!TypeLists, Listed, Codec!STRUCT, CNA_STRUCT
<1>. DEFINE Is(f) == f = [l \in 0 .. MaxLength |-> Listed(f, l)]
<1>3. Is(Codec!TypeLists)
  BY <1>1, <1>2
<1>. HIDE DEF Is
<1> QED
  BY <1>3 DEF Is

(* The strings of length l that list n types, and the one-type ones of length k. *)
Lists(l, n) == Codec!TypeLists[l][n]
IsType(t, k) ==
    IF k = 1 THEN \E c \in Scalar : t = <<c>>
             ELSE \E n \in 0 .. k - 2 : \E s \in Lists(k - 2, n) : t = <<CNA_STRUCT, n>> \o s

LEMMA ListsAre ==
    ASSUME NEW l \in 0 .. MaxLength
    PROVE  /\ \A s : s \in Lists(l, 0) <=> l = 0 /\ s = <<>>
           /\ \A n \in 1 .. MaxLength : \A s :
                s \in Lists(l, n) <=>
                    \E k \in 1 .. l : \E t : IsType(t, k) /\ \E u \in Lists(l - k, n - 1) : s = t \o u
<1>. DEFINE F == Codec!TypeLists
            Structs(k) == UNION {{<<CNA_STRUCT, m>> \o u : u \in F[k - 2][m]} : m \in 0 .. k - 2}
            Types(k) == IF k = 1 THEN {<<c>> : c \in Scalar} ELSE Structs(k)
            Starting(k, m) == {t \o u : t \in Types(k), u \in F[l - k][m - 1]}
<1>0. MaxLength \in Nat
  BY LengthsAssumption
<1>1. F[l] = [n \in 0 .. MaxLength |->
                IF n = 0 THEN {s \in {<<>>} : l = 0} ELSE UNION {Starting(k, n) : k \in 1 .. l}]
  <2>1. F[l] = Listed(F, l)
    BY TypeListsAre
  <2>. HIDE DEF F
  <2> QED
    BY <2>1 DEF Listed
<1>2. ASSUME NEW k \in 1 .. l, NEW t
      PROVE  t \in Types(k) <=> IsType(t, k)
  <2>1. CASE k = 1
    BY <2>1 DEF IsType
  <2>2. CASE k # 1
    <3>1. t \in Structs(k) <=> \E m \in 0 .. k - 2 : \E u \in F[k - 2][m] : t = <<CNA_STRUCT, m>> \o u
      <4>. HIDE DEF F
      <4>. DEFINE One(m) == {<<CNA_STRUCT, m>> \o u : u \in F[k - 2][m]}
      <4>1. \A m : t \in One(m) <=> \E u \in F[k - 2][m] : t = <<CNA_STRUCT, m>> \o u
        OBVIOUS
      <4>2. Structs(k) = UNION {One(m) : m \in 0 .. k - 2}
        OBVIOUS
      <4>. HIDE DEF One, Structs
      <4> QED
        BY <4>1, <4>2
    <3>. HIDE DEF F, Structs
    <3> QED
      BY <2>2, <3>1 DEF IsType, Lists, F
  <2> QED
    BY <2>1, <2>2
<1>. HIDE DEF Types
<1>3. ASSUME NEW k \in 1 .. l, NEW n, NEW s
      PROVE  s \in Starting(k, n) <=> \E t : IsType(t, k) /\ \E u \in Lists(l - k, n - 1) : s = t \o u
  <2>1. s \in Starting(k, n) <=> \E t \in Types(k) : \E u \in F[l - k][n - 1] : s = t \o u
    OBVIOUS
  <2>. HIDE DEF Starting
  <2> QED
    BY <1>2, <2>1 DEF Lists
<1>. HIDE DEF Starting
<1>4. Lists(l, 0) = {s \in {<<>>} : l = 0}
  BY <1>0, <1>1 DEF Lists
<1>5. ASSUME NEW n \in 1 .. MaxLength
      PROVE  Lists(l, n) = UNION {Starting(k, n) : k \in 1 .. l}
  BY <1>0, <1>1 DEF Lists
<1>. HIDE DEF F
<1>6. ASSUME NEW n \in 1 .. MaxLength, NEW s
      PROVE  s \in Lists(l, n) <=>
                \E k \in 1 .. l : \E t : IsType(t, k) /\ \E u \in Lists(l - k, n - 1) : s = t \o u
  <2>1. s \in Lists(l, n) <=> \E k \in 1 .. l : s \in Starting(k, n)
    BY <1>5
  <2> QED
    BY <1>3, <2>1
<1> QED
  BY <1>4, <1>6

(* A string of length l that lists n types has that length, and it is no shorter than n. *)
LEMMA ListsAreLong ==
    ASSUME NEW l \in 0 .. MaxLength, NEW n \in 0 .. MaxLength, NEW s \in Lists(l, n)
    PROVE  s \in Seq(Nat) /\ Len(s) = l /\ n <= l
<1>. DEFINE Good(k) == \A m \in 0 .. MaxLength : \A u \in Lists(k, m) : u \in Seq(Nat) /\ Len(u) = k /\ m <= k
            S == {k \in Nat : \A j \in 0 .. k : j <= MaxLength => Good(j)}
<1>0. MaxLength \in Nat
  BY LengthsAssumption
<1>1. ASSUME NEW k \in 0 .. MaxLength, \A j \in Nat : j < k => Good(j)
      PROVE  Good(k)
  <2>. SUFFICES ASSUME NEW m \in 0 .. MaxLength, NEW u \in Lists(k, m)
                PROVE  u \in Seq(Nat) /\ Len(u) = k /\ m <= k
    OBVIOUS
  <2>1. CASE m = 0
    <3>1. k = 0 /\ u = <<>>
      BY <2>1, ListsAre
    <3> QED
      BY <2>1, <3>1, EmptySeq
  <2>2. CASE m # 0
    <3>1. m \in 1 .. MaxLength /\ m - 1 \in 0 .. MaxLength
      BY <1>0, <2>2
    <3>2. PICK j \in 1 .. k : \E t : IsType(t, j) /\ \E v \in Lists(k - j, m - 1) : u = t \o v
      <4>1. \A p \in 1 .. MaxLength : \A s1 :
              s1 \in Lists(k, p) <=>
                \E j \in 1 .. k : \E t : IsType(t, j) /\ \E v \in Lists(k - j, p - 1) : s1 = t \o v
        BY ListsAre
      <4>. HIDE DEF Good
      <4> QED
        BY <3>1, <4>1
    <3>2a. PICK t : IsType(t, j) /\ \E v \in Lists(k - j, m - 1) : u = t \o v
      BY <3>2
    <3>3. PICK v \in Lists(k - j, m - 1) : u = t \o v
      BY <3>2a
    <3>4. k - j \in Nat /\ k - j < k
      OBVIOUS
    <3>5. v \in Seq(Nat) /\ Len(v) = k - j /\ m - 1 <= k - j
      BY <1>1, <3>1, <3>4
    <3>6. t \in Seq(Nat) /\ Len(t) = j
      <4>1. CASE j = 1
        <5>1. PICK c \in Scalar : t = <<c>>
          BY <3>2a, <4>1 DEF IsType
        <5>2. c \in Nat
          BY SizesAssumption
        <5> QED
          BY <4>1, <5>1, <5>2
      <4>2. CASE j # 1
        <5>0. PICK p \in 0 .. j - 2 : \E w \in Lists(j - 2, p) : t = <<CNA_STRUCT, p>> \o w
          BY <3>2a, <4>2 DEF IsType
        <5>1. PICK w \in Lists(j - 2, p) : t = <<CNA_STRUCT, p>> \o w
          BY <5>0
        <5>2. j - 2 \in Nat /\ j - 2 < k /\ p \in 0 .. MaxLength
          BY <1>0, <4>2
        <5>3. w \in Seq(Nat) /\ Len(w) = j - 2
          BY <1>1, <5>2
        <5>4. <<CNA_STRUCT, p>> \in Seq(Nat) /\ Len(<<CNA_STRUCT, p>>) = 2
          BY DEF CNA_STRUCT
        <5>5. t \in Seq(Nat) /\ Len(t) = 2 + (j - 2)
          BY <5>1, <5>3, <5>4, ConcatProperties
        <5> QED
          BY <5>5
      <4> QED
        BY <4>1, <4>2
    <3>7. u \in Seq(Nat) /\ Len(u) = k
      <4>1. u \in Seq(Nat) /\ Len(u) = Len(t) + Len(v)
        BY <3>3, <3>5, <3>6, ConcatProperties
      <4>. HIDE DEF Good
      <4>2. j + (k - j) = k
        OBVIOUS
      <4> QED
        BY <3>5, <3>6, <4>1, <4>2
    <3>8. m <= k
      BY <3>1, <3>4, <3>5
    <3> QED
      BY <3>7, <3>8
  <2> QED
    BY <2>1, <2>2
<1>. HIDE DEF Good
<1>2. 0 \in S
  <2>1. 0 \in 0 .. MaxLength /\ \A j \in Nat : ~(j < 0)
    BY <1>0
  <2>2. Good(0)
    BY <1>1, <2>1
  <2>3. \A j \in 0 .. 0 : j = 0
    OBVIOUS
  <2> QED
    BY <2>2, <2>3
<1>3. ASSUME NEW k \in S PROVE k + 1 \in S
  <2>1. ASSUME NEW j \in 0 .. k + 1, j <= MaxLength PROVE Good(j)
    <3>0. k \in Nat /\ \A p \in 0 .. k : p <= MaxLength => Good(p)
      BY <1>3
    <3>1. CASE j <= k
      BY <2>1, <3>0, <3>1
    <3>2. CASE j = k + 1
      <4>1. j \in 0 .. MaxLength /\ \A p \in Nat : p < j => p \in 0 .. k /\ p <= MaxLength
        BY <1>0, <2>1, <3>0, <3>2
      <4> QED
        BY <1>1, <3>0, <4>1
    <3> QED
      BY <3>0, <3>1, <3>2
  <2> QED
    BY <2>1
<1>. HIDE DEF S
<1>4. l \in S
  <2>1. S \in SUBSET Nat
    BY DEF S
  <2>2. S = Nat
    BY <1>2, <1>3, <2>1, Induction
  <2> QED
    BY <1>0, <2>2
<1>5. Good(l)
  BY <1>0, <1>4 DEF S
<1> QED
  BY <1>5 DEF Good

LEMMA TypesAreLong ==
    ASSUME NEW k \in 1 .. MaxLength, NEW t, IsType(t, k)
    PROVE  t \in Seq(Nat) /\ Len(t) = k
<1>1. CASE k = 1
  <2>1. PICK c \in Scalar : t = <<c>>
    BY <1>1 DEF IsType
  <2>2. c \in Nat
    BY SizesAssumption
  <2> QED
    BY <1>1, <2>1, <2>2
<1>2. CASE k # 1
  <2>0. PICK p \in 0 .. k - 2 : \E w \in Lists(k - 2, p) : t = <<CNA_STRUCT, p>> \o w
    BY <1>2 DEF IsType
  <2>1. PICK w \in Lists(k - 2, p) : t = <<CNA_STRUCT, p>> \o w
    BY <2>0
  <2>2. k - 2 \in 0 .. MaxLength /\ p \in 0 .. MaxLength
    BY <1>2, LengthsAssumption
  <2>3. w \in Seq(Nat) /\ Len(w) = k - 2
    BY <2>2, ListsAreLong
  <2>4. <<CNA_STRUCT, p>> \in Seq(Nat) /\ Len(<<CNA_STRUCT, p>>) = 2
    BY DEF CNA_STRUCT
  <2>5. t \in Seq(Nat) /\ Len(t) = 2 + (k - 2)
    BY <2>1, <2>3, <2>4, ConcatProperties
  <2> QED
    BY <2>5
<1> QED
  BY <1>1, <1>2

-----------------------------------------------------------------------------
(* The same of a string w that is read: a segment of it is given by two positions. *)
Word == {w \in Seq(0 .. 255) : Len(w) <= MaxLength}
Segment(w, a, b) == SubSeq(w, a + 1, b)

\* The bytes of w from a up to b list n types; those from a up to c are one type.
Spells(w, a, b, n) == n <= b - a /\ Segment(w, a, b) \in Lists(b - a, n)
TypeAt(w, a, c) ==
    \/ c = a + 1 /\ w[a + 1] \in Scalar
    \/ c >= a + 2 /\ w[a + 1] = CNA_STRUCT /\ Spells(w, a + 2, c, w[a + 2])

LEMMA CodeIs ==
    ASSUME NEW w \in Word, NEW k \in 1 .. Len(w)
    PROVE  w[k] \in 0 .. 255 /\ w[k] \in Nat
<1>1. w[k] \in 0 .. 255
  <2>1. w \in Seq(0 .. 255)
    BY DEF Word
  <2> QED
    BY <2>1, ElementOfSeq
<1>2. \A n \in 0 .. 255 : n \in Nat
  OBVIOUS
<1> QED
  BY <1>1, <1>2

LEMMA SegmentIs ==
    ASSUME NEW w \in Word, NEW a \in 0 .. Len(w), NEW b \in a .. Len(w)
    PROVE  /\ Segment(w, a, b) \in Seq(Nat)
           /\ Len(Segment(w, a, b)) = b - a
           /\ \A k \in 1 .. b - a : Segment(w, a, b)[k] = w[a + k]
<1>. DEFINE m == a + 1
            s == SubSeq(w, m, b)
<1>1. w \in Seq(0 .. 255) /\ Len(w) \in Nat /\ m \in Int /\ b \in Int
  BY DEF Word
<1>2. \A k \in m .. b : k \in 1 .. Len(w)
  BY <1>1
<1>3. \A k \in m .. b : w[k] \in Nat
  <2>. HIDE DEF m
  <2> QED
    BY <1>2, CodeIs
<1>4. /\ s \in Seq(Nat)
      /\ Len(s) = IF m <= b THEN b - m + 1 ELSE 0
      /\ \A k \in 1 .. b - m + 1 : s[k] = w[m + k - 1]
  <2>. HIDE DEF m
  <2> QED
    BY <1>1, <1>3, SubSeqProperties
<1>5. (IF m <= b THEN b - m + 1 ELSE 0) = b - a /\ b - m + 1 = b - a
  BY <1>1
<1>6. \A k \in 1 .. b - a : m + k - 1 = a + k
  BY <1>1
<1>. HIDE DEF s, m
<1>7. Len(s) = b - a /\ \A k \in 1 .. b - a : s[k] = w[a + k]
  BY <1>4, <1>5, <1>6
<1> QED
  BY <1>4, <1>7 DEF s, m, Segment

(* A segment is the string t before the string u exactly when its two parts are. *)
LEMMA Joined ==
    ASSUME NEW w \in Word, NEW a \in 0 .. Len(w), NEW c \in a .. Len(w), NEW b \in c .. Len(w),
           NEW t \in Seq(Nat), NEW u \in Seq(Nat)
    PROVE  Len(t) = c - a /\ Len(u) = b - c =>
                (Segment(w, a, b) = t \o u <=> Segment(w, a, c) = t /\ Segment(w, c, b) = u)
<1>. SUFFICES ASSUME Len(t) = c - a, Len(u) = b - c
              PROVE  Segment(w, a, b) = t \o u <=> Segment(w, a, c) = t /\ Segment(w, c, b) = u
  OBVIOUS
<1>0. Len(w) \in Nat /\ b \in a .. Len(w) /\ c \in 0 .. Len(w)
  BY DEF Word
<1>1. /\ Segment(w, a, b) \in Seq(Nat) /\ Len(Segment(w, a, b)) = b - a
      /\ \A k \in 1 .. b - a : Segment(w, a, b)[k] = w[a + k]
  BY <1>0, SegmentIs
<1>2. /\ Segment(w, a, c) \in Seq(Nat) /\ Len(Segment(w, a, c)) = c - a
      /\ \A k \in 1 .. c - a : Segment(w, a, c)[k] = w[a + k]
  BY <1>0, SegmentIs
<1>3. /\ Segment(w, c, b) \in Seq(Nat) /\ Len(Segment(w, c, b)) = b - c
      /\ \A k \in 1 .. b - c : Segment(w, c, b)[k] = w[c + k]
  BY <1>0, SegmentIs
<1>4. /\ t \o u \in Seq(Nat) /\ Len(t \o u) = Len(t) + Len(u)
      /\ \A k \in 1 .. Len(t) + Len(u) : (t \o u)[k] = IF k <= Len(t) THEN t[k] ELSE u[k - Len(t)]
  BY ConcatProperties
<1>5. Len(t) + Len(u) = b - a
  BY <1>0
<1>. DEFINE s == Segment(w, a, b)
            x == Segment(w, a, c)
            y == Segment(w, c, b)
            z == t \o u
<1>. HIDE DEF s, x, y, z
<1>6. ASSUME s = z
      PROVE  x = t /\ y = u
  <2>1. ASSUME NEW k \in 1 .. c - a PROVE x[k] = t[k]
    <3>1. k \in 1 .. b - a /\ k <= Len(t)
      BY <1>0
    <3> QED
      BY <1>1, <1>2, <1>4, <1>5, <1>6, <3>1 DEF s, x, z
  <2>2. ASSUME NEW k \in 1 .. b - c PROVE y[k] = u[k]
    <3>1. PICK j \in 1 .. b - a : ~(j <= Len(t)) /\ j - Len(t) = k /\ a + j = c + k
      <4>1. k + (c - a) \in 1 .. b - a /\ ~(k + (c - a) <= Len(t)) /\ k + (c - a) - Len(t) = k
            /\ a + (k + (c - a)) = c + k
        BY <1>0
      <4> QED
        BY <4>1
    <3>2. s[j] = w[c + k]
      BY <1>1, <3>1 DEF s
    <3>3. z[j] = u[k]
      BY <1>4, <1>5, <3>1 DEF z
    <3>4. y[k] = w[c + k]
      BY <1>3 DEF y
    <3> QED
      BY <1>6, <3>2, <3>3, <3>4
  <2> QED
    BY <1>2, <1>3, <2>1, <2>2, SeqEqual DEF x, y
<1>7. ASSUME x = t, y = u
      PROVE  s = z
  <2>1. ASSUME NEW k \in 1 .. b - a PROVE s[k] = z[k]
    <3>1. CASE k <= c - a
      <4>1. k \in 1 .. c - a
        BY <1>0, <3>1
      <4> QED
        BY <1>1, <1>2, <1>4, <1>5, <1>7, <3>1, <4>1 DEF s, x, z
    <3>2. CASE ~(k <= c - a)
      <4>1. k - Len(t) \in 1 .. b - c /\ c + (k - Len(t)) = a + k
        BY <1>0, <3>2
      <4> QED
        BY <1>1, <1>3, <1>4, <1>5, <1>7, <3>2, <4>1 DEF s, y, z
    <3> QED
      BY <3>1, <3>2
  <2> QED
    BY <1>1, <1>4, <1>5, <2>1, SeqEqual DEF s, z
<1> QED
  BY <1>6, <1>7 DEF s, x, y, z

(* The first c - a bytes after a are one type, as a string. *)
LEMMA TypeAtIs ==
    ASSUME NEW w \in Word, NEW a \in 0 .. Len(w), NEW c \in a + 1 .. Len(w)
    PROVE  TypeAt(w, a, c) <=> IsType(Segment(w, a, c), c - a)
<1>0. Len(w) \in Nat /\ Len(w) <= MaxLength /\ MaxLength \in Nat /\ c \in a .. Len(w)
  BY LengthsAssumption DEF Word
<1>1. /\ Segment(w, a, c) \in Seq(Nat) /\ Len(Segment(w, a, c)) = c - a
      /\ \A k \in 1 .. c - a : Segment(w, a, c)[k] = w[a + k]
  BY <1>0, SegmentIs
<1>. DEFINE s == Segment(w, a, c)
<1>. HIDE DEF s
<1>2. CASE c = a + 1
  <2>1. c - a = 1 /\ ~(c >= a + 2)
    BY <1>0, <1>2
  <2>2. TypeAt(w, a, c) <=> w[a + 1] \in Scalar
    BY <1>2, <2>1 DEF TypeAt
  <2>3. s[1] = w[a + 1] /\ Len(s) = 1 /\ s \in Seq(Nat)
    BY <1>1, <2>1 DEF s
  <2>4. ASSUME NEW d \in Scalar PROVE s = <<d>> <=> s[1] = d
    <3>1. <<d>> \in Seq(Nat) /\ Len(<<d>>) = 1 /\ <<d>>[1] = d
      BY SizesAssumption
    <3> QED
      BY <2>3, <3>1, SeqEqual
  <2>5. IsType(s, c - a) <=> \E d \in Scalar : s = <<d>>
    BY <2>1 DEF IsType
  <2> QED
    BY <2>2, <2>3, <2>4, <2>5 DEF s
<1>3. CASE c # a + 1
  <2>. DEFINE e == a + 2
              l == c - a - 2
  <2>1. /\ c >= e /\ c - a # 1 /\ e \in a .. Len(w) /\ e \in 0 .. Len(w) /\ c \in e .. Len(w)
        /\ c - e = l /\ l \in 0 .. MaxLength /\ e - a = 2 /\ e \in 1 .. Len(w)
    BY <1>0, <1>3
  <2>2. TypeAt(w, a, c) <=> w[a + 1] = CNA_STRUCT /\ Spells(w, e, c, w[e])
    BY <1>3, <2>1 DEF TypeAt
  <2>4. IsType(s, c - a) <=> \E n \in 0 .. l : \E u \in Lists(l, n) : s = <<CNA_STRUCT, n>> \o u
    BY <2>1 DEF IsType
  <2>0. \A k \in {1, 2} : a + k = IF k = 1 THEN a + 1 ELSE e
    OBVIOUS
  <2>. HIDE DEF e, l
  <2>3. Spells(w, e, c, w[e]) <=> w[e] <= l /\ Segment(w, e, c) \in Lists(l, w[e])
    BY <2>1 DEF Spells
  <2>5. ASSUME NEW n \in 0 .. l, NEW u \in Lists(l, n)
        PROVE  s = <<CNA_STRUCT, n>> \o u <=>
                    w[a + 1] = CNA_STRUCT /\ w[e] = n /\ Segment(w, e, c) = u
    <3>1. n \in 0 .. MaxLength
      BY <1>0, <2>1
    <3>2. u \in Seq(Nat) /\ Len(u) = c - e
      BY <2>1, <3>1, ListsAreLong
    <3>. DEFINE h == <<CNA_STRUCT, n>>
    <3>3. h \in Seq(Nat) /\ Len(h) = e - a /\ h[1] = CNA_STRUCT /\ h[2] = n /\ Len(h) = 2
      BY <2>1 DEF CNA_STRUCT
    <3>. HIDE DEF h
    <3>4. Segment(w, a, c) = h \o u <=> Segment(w, a, e) = h /\ Segment(w, e, c) = u
      <4>1. \A x \in Seq(Nat) : \A y \in Seq(Nat) : Len(x) = e - a /\ Len(y) = c - e =>
                (Segment(w, a, c) = x \o y <=> Segment(w, a, e) = x /\ Segment(w, e, c) = y)
        <5>1. \A d \in a .. Len(w) : \A b \in d .. Len(w) : \A x \in Seq(Nat) : \A y \in Seq(Nat) :
                Len(x) = d - a /\ Len(y) = b - d =>
                (Segment(w, a, b) = x \o y <=> Segment(w, a, d) = x /\ Segment(w, d, b) = y)
          BY Joined
        <5> QED
          BY <2>1, <5>1
      <4> QED
        BY <3>2, <3>3, <4>1
    <3>5. /\ Segment(w, a, e) \in Seq(Nat) /\ Len(Segment(w, a, e)) = 2
          /\ \A k \in 1 .. 2 : Segment(w, a, e)[k] = w[a + k]
      BY <2>1, SegmentIs
    <3>7. Segment(w, a, e) = h <=> w[a + 1] = CNA_STRUCT /\ w[e] = n
      <4>1. Segment(w, a, e)[1] = w[a + 1] /\ Segment(w, a, e)[2] = w[e]
        BY <2>0, <3>5
      <4>2. \A k \in 1 .. 2 : k = 1 \/ k = 2
        OBVIOUS
      <4>3. ASSUME w[a + 1] = CNA_STRUCT, w[e] = n PROVE Segment(w, a, e) = h
        <5>1. \A k \in 1 .. 2 : Segment(w, a, e)[k] = h[k]
          BY <3>3, <4>1, <4>2, <4>3
        <5> QED
          BY <3>3, <3>5, <5>1, SeqEqual
      <4> QED
        BY <3>3, <4>1, <4>3
    <3> QED
      BY <3>4, <3>7 DEF h, s
  <2>6. w[e] \in Nat
    BY <2>1, CodeIs
  <2>7. w[e] <= l => w[e] \in 0 .. l
    BY <2>1, <2>6
  <2>8. ASSUME TypeAt(w, a, c) PROVE IsType(s, c - a)
    <3>1. w[e] \in 0 .. l /\ Segment(w, e, c) \in Lists(l, w[e]) /\ w[a + 1] = CNA_STRUCT
      BY <2>2, <2>3, <2>7, <2>8
    <3>2. s = <<CNA_STRUCT, w[e]>> \o Segment(w, e, c)
      BY <2>5, <3>1
    <3> QED
      BY <2>4, <3>1, <3>2
  <2>9. ASSUME IsType(s, c - a) PROVE TypeAt(w, a, c)
    <3>1. PICK n \in 0 .. l : \E u \in Lists(l, n) : s = <<CNA_STRUCT, n>> \o u
      BY <2>4, <2>9
    <3>2. PICK u \in Lists(l, n) : s = <<CNA_STRUCT, n>> \o u
      BY <3>1
    <3>3. w[a + 1] = CNA_STRUCT /\ w[e] = n /\ Segment(w, e, c) = u
      BY <2>5, <3>2
    <3>4. w[e] <= l
      BY <2>1, <3>3
    <3> QED
      BY <2>2, <2>3, <3>3, <3>4
  <2> QED
    BY <2>8, <2>9 DEF s
<1> QED
  BY <1>2, <1>3

LEMMA SpellsNone ==
    ASSUME NEW w \in Word, NEW a \in 0 .. Len(w), NEW b \in a .. Len(w)
    PROVE  Spells(w, a, b, 0) <=> b = a
<1>0. Len(w) \in Nat /\ Len(w) <= MaxLength /\ MaxLength \in Nat /\ b - a \in 0 .. MaxLength /\ 0 <= b - a
  BY LengthsAssumption DEF Word
<1>1. Spells(w, a, b, 0) <=> b - a = 0 /\ Segment(w, a, b) = <<>>
  BY <1>0, ListsAre DEF Spells
<1>2. b - a = 0 => Segment(w, a, b) = <<>>
  BY <1>0, SegmentIs, EmptySeq
<1> QED
  BY <1>0, <1>1, <1>2

LEMMA SpellsFirst ==
    ASSUME NEW w \in Word, NEW a \in 0 .. Len(w), NEW b \in a .. Len(w), NEW n \in Nat
    PROVE  Spells(w, a, b, n + 1) <=> \E c \in a + 1 .. b : TypeAt(w, a, c) /\ Spells(w, c, b, n)
<1>. DEFINE l == b - a
            s == Segment(w, a, b)
            m == n + 1
<1>0. Len(w) \in Nat /\ Len(w) <= MaxLength /\ MaxLength \in Nat /\ l \in 0 .. MaxLength /\ m \in Nat /\ m - 1 = n
      /\ b \in a .. Len(w)
  BY LengthsAssumption DEF Word
<1>. HIDE DEF s, l, m
<1>1. ASSUME Spells(w, a, b, m)
      PROVE  \E c \in a + 1 .. b : TypeAt(w, a, c) /\ Spells(w, c, b, n)
  <2>1. m <= l /\ s \in Lists(l, m)
    BY <1>1 DEF Spells, s, l
  <2>2. m \in 1 .. MaxLength /\ n \in 0 .. MaxLength
    BY <1>0, <2>1 DEF m
  <2>3. PICK k \in 1 .. l : \E t : IsType(t, k) /\ \E u \in Lists(l - k, n) : s = t \o u
    <3>1. \A p \in 1 .. MaxLength : \A z : z \in Lists(l, p) <=>
            \E k \in 1 .. l : \E t : IsType(t, k) /\ \E u \in Lists(l - k, p - 1) : z = t \o u
      BY <1>0, ListsAre
    <3>2. \E k \in 1 .. l : \E t : IsType(t, k) /\ \E u \in Lists(l - k, m - 1) : s = t \o u
      BY <2>1, <2>2, <3>1
    <3> QED
      BY <1>0, <3>2
  <2>4. PICK t : IsType(t, k) /\ \E u \in Lists(l - k, n) : s = t \o u
    BY <2>3
  <2>5. PICK u \in Lists(l - k, n) : s = t \o u
    BY <2>4
  <2>6. PICK c \in a + 1 .. b : c - a = k /\ b - c = l - k /\ l - k \in 0 .. MaxLength
        /\ k \in 1 .. MaxLength /\ c \in a .. Len(w) /\ b \in c .. Len(w) /\ c \in a + 1 .. Len(w)
    <3>1. a + k \in a + 1 .. b /\ (a + k) - a = k /\ b - (a + k) = l - k /\ l - k \in 0 .. MaxLength
          /\ k \in 1 .. MaxLength /\ a + k \in a .. Len(w) /\ b \in (a + k) .. Len(w)
          /\ a + k \in a + 1 .. Len(w)
      BY <1>0 DEF l
    <3> QED
      BY <3>1
  <2>7. u \in Seq(Nat) /\ Len(u) = b - c /\ n <= b - c
    BY <2>2, <2>6, ListsAreLong
  <2>8. t \in Seq(Nat) /\ Len(t) = c - a
    BY <2>4, <2>6, TypesAreLong
  <2>9. Segment(w, a, c) = t /\ Segment(w, c, b) = u
    <3>1. Segment(w, a, b) = t \o u
      BY <2>5 DEF s
    <3>2. \A x \in Seq(Nat) : \A y \in Seq(Nat) : Len(x) = c - a /\ Len(y) = b - c =>
            (Segment(w, a, b) = x \o y <=> Segment(w, a, c) = x /\ Segment(w, c, b) = y)
      <4>1. \A d \in a .. Len(w) : \A e \in d .. Len(w) : \A x \in Seq(Nat) : \A y \in Seq(Nat) :
                Len(x) = d - a /\ Len(y) = e - d =>
                (Segment(w, a, e) = x \o y <=> Segment(w, a, d) = x /\ Segment(w, d, e) = y)
        BY Joined
      <4> QED
        BY <2>6, <4>1
    <3> QED
      BY <2>7, <2>8, <3>1, <3>2
  <2>10. TypeAt(w, a, c)
    BY <2>4, <2>6, <2>9, TypeAtIs
  <2>11. Spells(w, c, b, n)
    BY <2>6, <2>7, <2>9 DEF Spells
  <2> QED
    BY <2>10, <2>11
<1>2. ASSUME NEW c \in a + 1 .. b, TypeAt(w, a, c), Spells(w, c, b, n)
      PROVE  Spells(w, a, b, m)
  <2>1. /\ c - a \in 1 .. l /\ c \in a .. Len(w) /\ b \in c .. Len(w) /\ c \in a + 1 .. Len(w)
        /\ b - c = l - (c - a) /\ c \in 0 .. Len(w)
    BY <1>0 DEF l
  <2>2. IsType(Segment(w, a, c), c - a)
    BY <1>2, <2>1, TypeAtIs
  <2>3. n <= b - c /\ Segment(w, c, b) \in Lists(l - (c - a), n)
    BY <1>2, <2>1 DEF Spells
  <2>4. /\ Segment(w, a, c) \in Seq(Nat) /\ Len(Segment(w, a, c)) = c - a
        /\ Segment(w, c, b) \in Seq(Nat) /\ Len(Segment(w, c, b)) = b - c
    BY <2>1, SegmentIs
  <2>5. s = Segment(w, a, c) \o Segment(w, c, b)
    BY <2>1, <2>4, Joined DEF s
  <2>6. m \in 1 .. MaxLength /\ m <= l
    BY <1>0, <2>1, <2>3 DEF m, l
  <2>7. s \in Lists(l, m)
    BY <1>0, <2>1, <2>2, <2>3, <2>5, <2>6, ListsAre
  <2> QED
    BY <2>6, <2>7 DEF Spells, s, l
<1> QED
  BY <1>1, <1>2 DEF m

(* Two lists of types, one after the other, are a list. *)
LEMMA SpellsBoth ==
    ASSUME NEW w \in Word, NEW a \in 0 .. Len(w), NEW b \in a .. Len(w), NEW m \in Nat, NEW n \in Nat
    PROVE  Spells(w, a, b, m + n) <=> \E c \in a .. b : Spells(w, a, c, m) /\ Spells(w, c, b, n)
<1>. DEFINE Both(d, p) == Spells(w, d, b, p + n) <=> \E c \in d .. b : Spells(w, d, c, p) /\ Spells(w, c, b, n)
            S == {p \in Nat : \A d \in 0 .. b : Both(d, p)}
<1>0. Len(w) \in Nat /\ b \in 0 .. Len(w) /\ a \in 0 .. b
  BY DEF Word
<1>1. 0 \in S
  <2>1. ASSUME NEW d \in 0 .. b
        PROVE  Both(d, 0)
    <3>1. 0 + n = n /\ d \in 0 .. Len(w) /\ d \in d .. b /\ \A c \in d .. b : c \in d .. Len(w)
      BY <1>0
    <3>2. \A c \in d .. b : Spells(w, d, c, 0) <=> c = d
      BY <3>1, SpellsNone
    <3> QED
      BY <3>1, <3>2
  <2> QED
    BY <2>1
<1>2. ASSUME NEW p \in S PROVE p + 1 \in S
  <2>0. p \in Nat /\ p + 1 \in Nat /\ p + n \in Nat /\ (p + 1) + n = (p + n) + 1
    OBVIOUS
  <2>1. ASSUME NEW d \in 0 .. b
        PROVE  Both(d, p + 1)
    <3>0. d \in 0 .. Len(w) /\ b \in d .. Len(w)
      BY <1>0
    <3>1. Spells(w, d, b, (p + 1) + n) <=>
            \E e \in d + 1 .. b : TypeAt(w, d, e) /\ Spells(w, e, b, p + n)
      BY <2>0, <3>0, SpellsFirst
    <3>2. \A e \in d + 1 .. b : Spells(w, e, b, p + n) <=>
            \E c \in e .. b : Spells(w, e, c, p) /\ Spells(w, c, b, n)
      <4>1. \A e \in d + 1 .. b : e \in 0 .. b
        OBVIOUS
      <4>2. \A e \in 0 .. b : Both(e, p)
        OBVIOUS
      <4> QED
        BY <4>1, <4>2
    <3>3. \A c \in d .. b : Spells(w, d, c, p + 1) <=>
            \E e \in d + 1 .. c : TypeAt(w, d, e) /\ Spells(w, e, c, p)
      <4>1. \A c \in d .. b : c \in d .. Len(w)
        BY <1>0
      <4> QED
        BY <2>0, <3>0, <4>1, SpellsFirst
    <3>4. \A e \in d + 1 .. b : \A c \in e .. b : c \in d .. b /\ e \in d + 1 .. c
      OBVIOUS
    <3>5. \A c \in d .. b : \A e \in d + 1 .. c : e \in d + 1 .. b /\ c \in e .. b
      OBVIOUS
    <3>. HIDE DEF S, Both
    <3>6. ASSUME Spells(w, d, b, (p + 1) + n)
          PROVE  \E c \in d .. b : Spells(w, d, c, p + 1) /\ Spells(w, c, b, n)
      <4>1. PICK e \in d + 1 .. b : TypeAt(w, d, e) /\ Spells(w, e, b, p + n)
        BY <3>1, <3>6
      <4>2. PICK c \in e .. b : Spells(w, e, c, p) /\ Spells(w, c, b, n)
        BY <3>2, <4>1
      <4>3. c \in d .. b /\ e \in d + 1 .. c
        BY <3>4
      <4> QED
        BY <3>3, <4>1, <4>2, <4>3
    <3>7. ASSUME NEW c \in d .. b, Spells(w, d, c, p + 1), Spells(w, c, b, n)
          PROVE  Spells(w, d, b, (p + 1) + n)
      <4>1. PICK e \in d + 1 .. c : TypeAt(w, d, e) /\ Spells(w, e, c, p)
        BY <3>3, <3>7
      <4>2. e \in d + 1 .. b /\ c \in e .. b
        BY <3>5
      <4>3. Spells(w, e, b, p + n)
        BY <3>2, <3>7, <4>1, <4>2
      <4> QED
        BY <3>1, <4>1, <4>2, <4>3
    <3> QED
      BY <3>6, <3>7 DEF Both
  <2>. HIDE DEF Both
  <2> QED
    BY <2>0, <2>1
<1>3. m \in S
  <2>. HIDE DEF Both
  <2>1. S \in SUBSET Nat
    OBVIOUS
  <2>. HIDE DEF S
  <2>2. S = Nat
    BY <1>1, <1>2, <2>1, Induction
  <2> QED
    BY <2>2
<1> QED
  BY <1>0, <1>3

-----------------------------------------------------------------------------
(* What may be left of w: from the head of the loop, nothing or the rest of a signature; *)
(* within structures, n more types and then that.                                        *)
Signed(w, a) ==
    \E b \in a .. Len(w) : \E n \in 0 .. MaxLength :
        /\ Spells(w, a, b, n)
        /\ \/ b = Len(w) - 1 /\ w[b + 1] = CNA_VOID
           \/ TypeAt(w, b, Len(w))
Ends(w, a) == a = Len(w) \/ Signed(w, a)
Follows(w, a, n) == \E c \in a .. Len(w) : Spells(w, a, c, n) /\ Ends(w, c)

LEMMA OneType ==
    ASSUME NEW w \in Word, NEW a \in 0 .. Len(w), NEW b \in a .. Len(w)
    PROVE  Spells(w, a, b, 1) <=> TypeAt(w, a, b)
<1>0. Len(w) \in Nat /\ 0 \in Nat /\ 0 + 1 = 1 /\ b \in 0 .. Len(w)
  BY DEF Word
<1>1. Spells(w, a, b, 1) <=> \E c \in a + 1 .. b : TypeAt(w, a, c) /\ Spells(w, c, b, 0)
  <2>1. \A n \in Nat : Spells(w, a, b, n + 1) <=> \E c \in a + 1 .. b : TypeAt(w, a, c) /\ Spells(w, c, b, n)
    BY SpellsFirst
  <2> QED
    BY <1>0, <2>1
<1>2. \A c \in a + 1 .. b : Spells(w, c, b, 0) <=> b = c
  <2>1. \A c \in a + 1 .. b : c \in 0 .. Len(w) /\ b \in c .. Len(w)
    BY <1>0
  <2> QED
    BY <2>1, SpellsNone
<1>3. TypeAt(w, a, b) => b \in a + 1 .. b
  BY <1>0 DEF TypeAt
<1> QED
  BY <1>1, <1>2, <1>3

LEMMA WellFormedAre ==
    ASSUME NEW w \in Word, w # <<>>
    PROVE  w \in WellFormed <=> Signed(w, 0)
<1>. DEFINE L == Len(w)
<1>0. L \in Nat \ {0} /\ L <= MaxLength /\ MaxLength \in Nat /\ w \in Seq(0 .. 255) /\ w \in Seq(Nat)
      /\ 0 \in 0 .. L /\ L \in 0 .. L
  <2>1. w \in Seq(0 .. 255) /\ L <= MaxLength
    BY DEF Word
  <2>2. w \in Seq(Nat)
    <3>1. 0 .. 255 \subseteq Nat
      OBVIOUS
    <3> QED
      BY <2>1, <3>1, SeqMonotonic
  <2>3. L \in Nat \ {0}
    BY <2>1, EmptySeq
  <2> QED
    BY <2>1, <2>2, <2>3, LengthsAssumption
<1>1. w \in WellFormed <=>
        \E l \in 0 .. MaxLength - 1 : \E n \in 0 .. MaxLength : \E x \in Lists(l, n) : \E y :
            /\ y = <<CNA_VOID>> \/ \E k \in 1 .. MaxLength : y \in Lists(k, 1)
            /\ w = x \o y
  <2>. DEFINE F == Codec!TypeLists
              Arguments == UNION {F[l][n] : l \in 0 .. MaxLength - 1, n \in 0 .. MaxLength}
              Result == {<<CNA_VOID>>} \cup UNION {F[l][1] : l \in 1 .. MaxLength}
  <2>1. WellFormed = {x \o y : x \in Arguments, y \in Result}
    BY DEF WellFormed, Codec!WellFormed, Codec!VOID, CNA_VOID
  <2>. HIDE DEF F
  <2>2. \A x : x \in Arguments <=> \E l \in 0 .. MaxLength - 1 : \E n \in 0 .. MaxLength : x \in F[l][n]
    OBVIOUS
  <2>3. \A y : y \in Result <=> y = <<CNA_VOID>> \/ \E k \in 1 .. MaxLength : y \in F[k][1]
    OBVIOUS
  <2>. HIDE DEF Arguments, Result
  <2>4. w \in WellFormed <=> \E x \in Arguments : \E y \in Result : w = x \o y
    BY <2>1
  <2> QED
    BY <2>2, <2>3, <2>4 DEF Lists, F
<1>2. ASSUME NEW c \in 0 .. L, NEW x \in Seq(Nat), NEW y \in Seq(Nat), Len(x) = c, Len(y) = L - c
      PROVE  w = x \o y <=> Segment(w, 0, c) = x /\ Segment(w, c, L) = y
  <2>1. \A a \in 0 .. Len(w) : \A d \in a .. Len(w) : \A b \in d .. Len(w) : Len(x) = d - a /\ Len(y) = b - d =>
            (Segment(w, a, b) = x \o y <=> Segment(w, a, d) = x /\ Segment(w, d, b) = y)
    BY Joined
  <2>2. Segment(w, 0, L) = w
    <3>1. Segment(w, 0, L) \in Seq(Nat) /\ Len(Segment(w, 0, L)) = L
          /\ \A k \in 1 .. L : Segment(w, 0, L)[k] = w[k]
      <4>1. /\ Segment(w, 0, L) \in Seq(Nat) /\ Len(Segment(w, 0, L)) = L - 0
            /\ \A k \in 1 .. L - 0 : Segment(w, 0, L)[k] = w[0 + k]
        BY <1>0, SegmentIs
      <4>2. L - 0 = L /\ \A k \in 1 .. L : 0 + k = k
        BY <1>0
      <4> QED
        BY <4>1, <4>2
    <3> QED
      BY <1>0, <3>1, SeqEqual
  <2>3. c - 0 = c /\ L \in c .. L /\ Len(w) = L
    BY <1>0
  <2>. HIDE DEF L
  <2>4. Segment(w, 0, L) = x \o y <=> Segment(w, 0, c) = x /\ Segment(w, c, L) = y
    BY <1>0, <1>2, <2>1, <2>3
  <2> QED
    BY <2>2, <2>4
<1>. HIDE DEF L
<1>3. ASSUME w \in WellFormed PROVE Signed(w, 0)
  <2>1. PICK l \in 0 .. MaxLength - 1, n \in 0 .. MaxLength : \E x \in Lists(l, n) : \E y :
            /\ y = <<CNA_VOID>> \/ \E k \in 1 .. MaxLength : y \in Lists(k, 1)
            /\ w = x \o y
    BY <1>1, <1>3
  <2>a. PICK x \in Lists(l, n) : \E y :
            /\ y = <<CNA_VOID>> \/ \E k \in 1 .. MaxLength : y \in Lists(k, 1)
            /\ w = x \o y
    BY <2>1
  <2>2. PICK y :
            /\ y = <<CNA_VOID>> \/ \E k \in 1 .. MaxLength : y \in Lists(k, 1)
            /\ w = x \o y
    BY <2>a
  <2>3. x \in Seq(Nat) /\ Len(x) = l /\ n <= l /\ l \in 0 .. MaxLength
    BY <1>0, ListsAreLong
  <2>4. CASE y = <<CNA_VOID>>
    <3>1. y \in Seq(Nat) /\ Len(y) = 1 /\ y[1] = CNA_VOID
      BY <2>4 DEF CNA_VOID
    <3>2. L = l + 1
      BY <2>2, <2>3, <3>1, ConcatProperties DEF L
    <3>3. l \in 0 .. L /\ L - l = 1 /\ L \in l .. L /\ l = L - 1 /\ l - 0 = l
      BY <3>2, <2>3
    <3>4. Segment(w, 0, l) = x /\ Segment(w, l, L) = y
      BY <1>2, <2>2, <2>3, <3>1, <3>3
    <3>5. w[l + 1] = CNA_VOID
      <4>1. \A k \in 1 .. L - l : Segment(w, l, L)[k] = w[l + k]
        BY <3>3, SegmentIs DEF L
      <4>2. 1 \in 1 .. L - l
        BY <3>3
      <4>3. y[1] = w[l + 1]
        BY <3>4, <4>1, <4>2
      <4> QED
        BY <3>1, <4>3
    <3>6. Spells(w, 0, l, n)
      BY <2>3, <3>3, <3>4 DEF Spells
    <3> QED
      BY <3>3, <3>5, <3>6 DEF Signed, L
  <2>5. ASSUME NEW k \in 1 .. MaxLength, y \in Lists(k, 1)
        PROVE  Signed(w, 0)
    <3>0. k \in 0 .. MaxLength /\ 1 \in 0 .. MaxLength
      BY <1>0
    <3>1. y \in Seq(Nat) /\ Len(y) = k /\ 1 <= k
      BY <2>5, <3>0, ListsAreLong
    <3>2. L = l + k
      BY <2>2, <2>3, <3>1, ConcatProperties DEF L
    <3>3. l \in 0 .. L /\ L - l = k /\ L \in l .. L /\ l - 0 = l
      BY <3>2, <2>3
    <3>4. Segment(w, 0, l) = x /\ Segment(w, l, L) = y
      BY <1>2, <2>2, <2>3, <3>1, <3>3
    <3>5. Spells(w, 0, l, n) /\ Spells(w, l, L, 1)
      BY <2>3, <2>5, <3>1, <3>3, <3>4 DEF Spells
    <3>6. TypeAt(w, l, L)
      BY <3>3, <3>5, OneType DEF L
    <3> QED
      BY <3>3, <3>5, <3>6 DEF Signed, L
  <2> QED
    BY <2>2, <2>4, <2>5
<1>4. ASSUME Signed(w, 0) PROVE w \in WellFormed
  <2>1. PICK b \in 0 .. L : \E n \in 0 .. MaxLength :
            /\ Spells(w, 0, b, n)
            /\ (b = L - 1 /\ w[b + 1] = CNA_VOID) \/ TypeAt(w, b, L)
    BY <1>4 DEF Signed, L
  <2>2. PICK n \in 0 .. MaxLength :
            /\ Spells(w, 0, b, n)
            /\ (b = L - 1 /\ w[b + 1] = CNA_VOID) \/ TypeAt(w, b, L)
    BY <2>1
  <2>3. b <= L - 1
    BY <1>0, <2>2 DEF TypeAt
  <2>4. b \in 0 .. MaxLength - 1 /\ b - 0 = b /\ L \in b .. L /\ L - b \in 1 .. MaxLength
    BY <1>0, <2>3
  <2>5. /\ Segment(w, 0, b) \in Seq(Nat) /\ Len(Segment(w, 0, b)) = b
    BY <1>0, <2>4, SegmentIs DEF L
  <2>6. /\ Segment(w, b, L) \in Seq(Nat) /\ Len(Segment(w, b, L)) = L - b
        /\ \A k \in 1 .. L - b : Segment(w, b, L)[k] = w[b + k]
    BY <1>0, <2>4, SegmentIs DEF L
  <2>7. w = Segment(w, 0, b) \o Segment(w, b, L)
    BY <1>2, <2>5, <2>6
  <2>8. Segment(w, 0, b) \in Lists(b, n)
    BY <2>2, <2>4 DEF Spells
  <2>9. Segment(w, b, L) = <<CNA_VOID>> \/ \E k \in 1 .. MaxLength : Segment(w, b, L) \in Lists(k, 1)
    <3>1. CASE b = L - 1 /\ w[b + 1] = CNA_VOID
      <4>1. L - b = 1
        BY <1>0, <3>1
      <4>2. <<CNA_VOID>> \in Seq(Nat) /\ Len(<<CNA_VOID>>) = 1 /\ <<CNA_VOID>>[1] = CNA_VOID
        BY DEF CNA_VOID
      <4>3. \A k \in 1 .. 1 : Segment(w, b, L)[k] = <<CNA_VOID>>[k]
        BY <2>6, <3>1, <4>1, <4>2
      <4> QED
        BY <2>6, <4>1, <4>2, <4>3, SeqEqual
    <3>2. CASE TypeAt(w, b, L)
      <4>1. Spells(w, b, L, 1)
        BY <2>4, <3>2, OneType DEF L
      <4> QED
        BY <2>4, <4>1 DEF Spells
    <3> QED
      BY <2>2, <3>1, <3>2
  <2> QED
    BY <1>1, <2>4, <2>7, <2>8, <2>9
<1> QED
  BY <1>3, <1>4

(* At the head of the loop: void at the very end, or a type and what may be left after it. *)
LEMMA EndsFirst ==
    ASSUME NEW w \in Word, NEW a \in 0 .. Len(w) - 1
    PROVE  Ends(w, a) <=> \/ a = Len(w) - 1 /\ w[a + 1] = CNA_VOID
                          \/ \E c \in a + 1 .. Len(w) : TypeAt(w, a, c) /\ Ends(w, c)
<1>. DEFINE L == Len(w)
            Last(b) == (b = L - 1 /\ w[b + 1] = CNA_VOID) \/ TypeAt(w, b, L)
<1>0. L \in Nat /\ L <= MaxLength /\ MaxLength \in Nat /\ a \in 0 .. L /\ a # L /\ L \in a + 1 .. L /\ a \in a .. L
      /\ 0 \in 0 .. MaxLength
  BY LengthsAssumption DEF Word
<1>1. \A c : Signed(w, c) <=> \E b \in c .. L : \E n \in 0 .. MaxLength : Spells(w, c, b, n) /\ Last(b)
  BY DEF Signed
<1>2. \A c : Ends(w, c) <=> c = L \/ Signed(w, c)
  BY DEF Ends
<1>3. \A b \in a .. L : Spells(w, a, b, 0) <=> b = a
  BY <1>0, SpellsNone
<1>4. \A n \in Nat : \A b \in a .. L : Spells(w, a, b, n + 1) <=>
        \E c \in a + 1 .. b : TypeAt(w, a, c) /\ Spells(w, c, b, n)
  BY <1>0, SpellsFirst
<1>. HIDE DEF L
<1>5. ASSUME Signed(w, a)
      PROVE  \/ a = L - 1 /\ w[a + 1] = CNA_VOID
             \/ \E c \in a + 1 .. L : TypeAt(w, a, c) /\ Ends(w, c)
  <2>. HIDE DEF Last
  <2>1. PICK b \in a .. L : \E n \in 0 .. MaxLength : Spells(w, a, b, n) /\ Last(b)
    BY <1>1, <1>5
  <2>2. PICK n \in 0 .. MaxLength : Spells(w, a, b, n) /\ Last(b)
    BY <2>1
  <2>3. CASE n = 0
    <3>1. b = a
      BY <1>3, <2>2, <2>3
    <3>2. Last(a)
      BY <2>2, <3>1
    <3> QED
      BY <1>0, <1>2, <3>2 DEF Last
  <2>4. CASE n # 0
    <3>1. n - 1 \in Nat /\ n - 1 + 1 = n /\ n - 1 \in 0 .. MaxLength
      BY <1>0, <2>4
    <3>2. PICK c \in a + 1 .. b : TypeAt(w, a, c) /\ Spells(w, c, b, n - 1)
      BY <1>4, <2>2, <3>1
    <3>3. c \in a + 1 .. L /\ b \in c .. L
      BY <1>0
    <3>4. Ends(w, c)
      BY <1>1, <1>2, <2>2, <3>1, <3>2, <3>3
    <3> QED
      BY <3>2, <3>3, <3>4
  <2> QED
    BY <2>3, <2>4
<1>6. ASSUME a = L - 1, w[a + 1] = CNA_VOID
      PROVE  Signed(w, a)
  BY <1>0, <1>1, <1>3, <1>6
<1>7. ASSUME NEW c \in a + 1 .. L, TypeAt(w, a, c), Ends(w, c)
      PROVE  Signed(w, a)
  <2>1. CASE c = L
    BY <1>0, <1>1, <1>3, <1>7, <2>1
  <2>2. CASE Signed(w, c)
    <3>. HIDE DEF Last
    <3>1. PICK b \in c .. L : \E n \in 0 .. MaxLength : Spells(w, c, b, n) /\ Last(b)
      BY <1>1, <2>2
    <3>2. PICK n \in 0 .. MaxLength : Spells(w, c, b, n) /\ Last(b)
      BY <3>1
    <3>3. n \in Nat /\ b \in a .. L /\ c \in a + 1 .. b /\ n + 1 \in Nat
      BY <1>0
    <3>4. Spells(w, a, b, n + 1)
      BY <1>4, <1>7, <3>2, <3>3
    <3>5. n + 1 \in 0 .. MaxLength
      <4>1. n + 1 <= b - a
        BY <3>4 DEF Spells
      <4> QED
        BY <1>0, <3>3, <4>1
    <3> QED
      BY <1>1, <3>2, <3>3, <3>4, <3>5
  <2> QED
    BY <1>2, <1>7, <2>1, <2>2
<1> QED
  BY <1>0, <1>2, <1>5, <1>6, <1>7 DEF L

LEMMA FollowsNone ==
    ASSUME NEW w \in Word, NEW a \in 0 .. Len(w)
    PROVE  Follows(w, a, 0) <=> Ends(w, a)
<1>1. a \in a .. Len(w) /\ \A c \in a .. Len(w) : Spells(w, a, c, 0) <=> c = a
  BY SpellsNone DEF Word
<1> QED
  BY <1>1 DEF Follows

LEMMA FollowsFirst ==
    ASSUME NEW w \in Word, NEW a \in 0 .. Len(w), NEW n \in Nat
    PROVE  Follows(w, a, n + 1) <=> \E c \in a + 1 .. Len(w) : TypeAt(w, a, c) /\ Follows(w, c, n)
<1>. DEFINE L == Len(w)
<1>0. L \in Nat /\ n + 1 \in Nat
  BY DEF Word
<1>1. \A d : \A m : Follows(w, d, m) <=> \E b \in d .. L : Spells(w, d, b, m) /\ Ends(w, b)
  BY DEF Follows
<1>2. \A b \in a .. L : Spells(w, a, b, n + 1) <=>
        \E c \in a + 1 .. b : TypeAt(w, a, c) /\ Spells(w, c, b, n)
  BY SpellsFirst
<1>. HIDE DEF L
<1>3. ASSUME Follows(w, a, n + 1)
      PROVE  \E c \in a + 1 .. L : TypeAt(w, a, c) /\ Follows(w, c, n)
  <2>1. PICK b \in a .. L : Spells(w, a, b, n + 1) /\ Ends(w, b)
    BY <1>1, <1>3
  <2>2. PICK c \in a + 1 .. b : TypeAt(w, a, c) /\ Spells(w, c, b, n)
    BY <1>2, <2>1
  <2>3. c \in a + 1 .. L /\ b \in c .. L
    BY <1>0
  <2> QED
    BY <1>1, <2>1, <2>2, <2>3
<1>4. ASSUME NEW c \in a + 1 .. L, TypeAt(w, a, c), Follows(w, c, n)
      PROVE  Follows(w, a, n + 1)
  <2>1. PICK b \in c .. L : Spells(w, c, b, n) /\ Ends(w, b)
    BY <1>1, <1>4
  <2>2. b \in a .. L /\ c \in a + 1 .. b
    BY <1>0
  <2>3. Spells(w, a, b, n + 1)
    BY <1>2, <1>4, <2>1, <2>2
  <2> QED
    BY <1>1, <2>1, <2>2, <2>3
<1> QED
  BY <1>3, <1>4 DEF L

(* One reading step.  A scalar is one type; void ends the list, if it ends the string; a code  *)
(* that is none begins nothing; a structure stands for its elements.                           *)
LEMMA NothingFollowsTheEnd ==
    ASSUME NEW w \in Word, NEW n \in Nat
    PROVE  ~Follows(w, Len(w), n + 1)
<1>1. Len(w) \in 0 .. Len(w) /\ Len(w) + 1 .. Len(w) = {}
  BY DEF Word
<1> QED
  BY <1>1, FollowsFirst

LEMMA NoTypeHere ==
    ASSUME NEW w \in Word, NEW a \in 0 .. Len(w) - 1, w[a + 1] \notin Scalar \cup {CNA_STRUCT}
    PROVE  /\ \A n \in Nat : ~Follows(w, a, n + 1)
           /\ Ends(w, a) <=> a = Len(w) - 1 /\ w[a + 1] = CNA_VOID
<1>1. \A c : ~TypeAt(w, a, c)
  BY DEF TypeAt
<1>2. a \in 0 .. Len(w)
  BY DEF Word
<1> QED
  BY <1>1, <1>2, EndsFirst, FollowsFirst

LEMMA ScalarHere ==
    ASSUME NEW w \in Word, NEW a \in 0 .. Len(w) - 1, w[a + 1] \in Scalar
    PROVE  /\ \A n \in Nat : Follows(w, a, n + 1) <=> Follows(w, a + 1, n)
           /\ Ends(w, a) <=> Ends(w, a + 1)
<1>1. w[a + 1] # CNA_VOID /\ w[a + 1] # CNA_STRUCT
  BY SizesAssumption DEF CNA_VOID, CNA_STRUCT
<1>2. \A c : TypeAt(w, a, c) <=> c = a + 1
  BY <1>1 DEF TypeAt
<1>3. a \in 0 .. Len(w) /\ a + 1 \in a + 1 .. Len(w)
  BY DEF Word
<1> QED
  BY <1>1, <1>2, <1>3, EndsFirst, FollowsFirst

LEMMA StructHere ==
    ASSUME NEW w \in Word, NEW a \in 0 .. Len(w) - 1, w[a + 1] = CNA_STRUCT
    PROVE  IF a = Len(w) - 1
           THEN (\A n \in Nat : ~Follows(w, a, n + 1)) /\ ~Ends(w, a)
           ELSE /\ \A n \in Nat : Follows(w, a, n + 1) <=> Follows(w, a + 2, w[a + 2] + n)
                /\ Ends(w, a) <=> Follows(w, a + 2, w[a + 2])
<1>. DEFINE L == Len(w)
            e == a + 2
<1>1. w[a + 1] # CNA_VOID /\ w[a + 1] \notin Scalar
  BY SizesAssumption DEF CNA_VOID, CNA_STRUCT
<1>2. \A c : TypeAt(w, a, c) <=> c >= e /\ Spells(w, e, c, w[e])
  BY <1>1 DEF TypeAt
<1>3. L \in Nat /\ a \in 0 .. L /\ e \in Nat /\ e = a + 2
  BY DEF Word
<1>4. \A n \in Nat : Follows(w, a, n + 1) <=> \E c \in a + 1 .. L : TypeAt(w, a, c) /\ Follows(w, c, n)
  BY <1>3, FollowsFirst
<1>5. Ends(w, a) <=> \E c \in a + 1 .. L : TypeAt(w, a, c) /\ Ends(w, c)
  BY <1>1, EndsFirst
<1>. HIDE DEF L, e
<1>6. CASE a = L - 1
  <2>1. \A c \in a + 1 .. L : ~(c >= e)
    BY <1>3, <1>6
  <2> QED
    BY <1>2, <1>4, <1>5, <1>6, <2>1 DEF L
<1>7. CASE a # L - 1
  <2>1. e \in 0 .. L /\ e \in 1 .. L /\ \A c \in a + 1 .. L : c >= e <=> c \in e .. L
    BY <1>3, <1>7 DEF L
  <2>2. w[e] \in Nat
    BY <2>1, CodeIs DEF L
  <2>3. \A c \in e .. L : c \in a + 1 .. L /\ c \in 0 .. L
    BY <1>3
  <2>4. \A n \in Nat : Follows(w, e, w[e] + n) <=> \E c \in e .. L : Spells(w, e, c, w[e]) /\ Follows(w, c, n)
    <3>. SUFFICES ASSUME NEW n \in Nat
                  PROVE  Follows(w, e, w[e] + n) <=> \E c \in e .. L : Spells(w, e, c, w[e]) /\ Follows(w, c, n)
      OBVIOUS
    <3>1. \A b \in e .. L : Spells(w, e, b, w[e] + n) <=>
            \E c \in e .. b : Spells(w, e, c, w[e]) /\ Spells(w, c, b, n)
      <4>1. \A m \in Nat : \A b \in e .. L : Spells(w, e, b, m + n) <=>
            \E c \in e .. b : Spells(w, e, c, m) /\ Spells(w, c, b, n)
        BY <2>1, SpellsBoth DEF L
      <4> QED
        BY <2>2, <4>1
    <3>2. \A d : \A m : Follows(w, d, m) <=> \E b \in d .. L : Spells(w, d, b, m) /\ Ends(w, b)
      BY DEF Follows, L
    <3>3. ASSUME Follows(w, e, w[e] + n)
          PROVE  \E c \in e .. L : Spells(w, e, c, w[e]) /\ Follows(w, c, n)
      <4>1. PICK b \in e .. L : Spells(w, e, b, w[e] + n) /\ Ends(w, b)
        BY <3>2, <3>3
      <4>2. PICK c \in e .. b : Spells(w, e, c, w[e]) /\ Spells(w, c, b, n)
        BY <3>1, <4>1
      <4>3. c \in e .. L /\ b \in c .. L
        BY <1>3
      <4> QED
        BY <3>2, <4>1, <4>2, <4>3
    <3>4. ASSUME NEW c \in e .. L, Spells(w, e, c, w[e]), Follows(w, c, n)
          PROVE  Follows(w, e, w[e] + n)
      <4>1. PICK b \in c .. L : Spells(w, c, b, n) /\ Ends(w, b)
        BY <3>2, <3>4
      <4>2. b \in e .. L /\ c \in e .. b
        BY <1>3
      <4>3. Spells(w, e, b, w[e] + n)
        BY <3>1, <3>4, <4>1, <4>2
      <4> QED
        BY <3>2, <4>1, <4>2, <4>3
    <3> QED
      BY <3>3, <3>4
  <2>5. Follows(w, e, w[e]) <=> \E c \in e .. L : Spells(w, e, c, w[e]) /\ Ends(w, c)
    BY DEF Follows, L
  <2>6. \A n \in Nat : Follows(w, a, n + 1) <=> Follows(w, e, w[e] + n)
    BY <1>2, <1>4, <2>1, <2>3, <2>4
  <2>7. Ends(w, a) <=> Follows(w, e, w[e])
    BY <1>2, <1>5, <2>1, <2>3, <2>5
  <2> QED
    BY <1>7, <2>6, <2>7 DEF L, e
<1> QED
  BY <1>6, <1>7

-----------------------------------------------------------------------------
(* The state of a call. *)

(* The first byte that belongs to no type read so far. *)
NextByte == IF ffi_types = <<>> THEN 0 ELSE ReturnType.last + 1

Reading == pc \in {"type", "struct", "elements"}

(* The storage is open while the call can fail, and each failure leaks it. *)
Bookkeeping ==
    /\ Reading \/ pc \in {"loop", "prep", "invoke"} => phase = "open"
    /\ pc = "release" => phase = "draining"
    /\ OnlyFailuresLeak

(* Where the cursor is, and what the type being read is made of. *)
Cursor ==
    /\ ParserInBounds
    /\ TypesTile
    /\ pc = "idle" =>
        /\ i = 0 /\ frames = <<>>
        /\ argtypes = <<>> /\ ffi_types = <<>> /\ ffi_values = <<>> /\ fullsize = 0
    /\ Len(ffi_types) <= NextByte
    /\ NextByte <= Len(argtypes)
    /\ pc = "loop" => frames = <<>>
    /\ Reading =>
        /\ NextByte < Len(argtypes)
        /\ size = get_size(Code(NextByte))
        /\ IF frames = <<>>
           THEN pc # "elements" /\ i = NextByte
           ELSE /\ frames[1].first = NextByte
                /\ Code(NextByte) = CNA_STRUCT
                /\ i >= NextByte + 2
    /\ pc = "struct" => i < Len(argtypes) /\ Code(i) = CNA_STRUCT
    /\ \A k \in 1 .. Len(frames) : k < Len(frames) \/ pc \in {"type", "struct"} => HasMore(frames[k])
    /\ pc \in {"prep", "invoke"} => NextByte = Len(argtypes)

(* What fullsize comes to with the values read so far. *)
Consumed == Wrap(End(Len(ffi_values)))

AllCountable == \A k \in 1 .. Len(ffi_values) : Countable(k)

(* Types and values read so far correspond, the values follow each other, as  *)
(* size_t counts, over what has been consumed of the buffer, and none ends    *)
(* behind the last unless a sum wrapped.                                      *)
Tiling ==
    /\ \A k \in 1 .. Len(ffi_types) :
        ffi_types[k].code \in Scalar \cup {CNA_VOID, CNA_STRUCT}
    /\ Len(ffi_values) <= Len(ffi_types)
    /\ \A k \in 1 .. Len(ffi_values) :
        /\ ffi_values[k].at = Wrap(Wrap(End(k - 1)) + Header(k))
        /\ ffi_types[k].code # CNA_VOID
        /\ ffi_types[k].code # CNA_STRUCT => ffi_values[k].size = SizeOf[ffi_types[k].code]
    /\ AllCountable => \A k \in 1 .. Len(ffi_values) : End(k) <= End(Len(ffi_values))
    /\ pc # "idle" => argsLen \in ArgsLengths
    /\ pc # "idle" =>
        IF NextByte < Len(argtypes)
        THEN Len(ffi_types) = Len(ffi_values) /\ fullsize = Consumed
        ELSE /\ Len(ffi_types) = Len(ffi_values) + 1
             /\ fullsize = Wrap(Consumed + size)
             /\ size = get_size(ReturnType.code)
    /\ pc \in {"prep", "invoke"} => fullsize = argsLen + size
    /\ pc = "prep" => retlen = size
    /\ RetvalSized

(* The inductive invariant. *)
IInv == TypeOK /\ Bookkeeping /\ Cursor /\ Tiling

USE SizesAssumption, InputsAssumption

(* The sums of the loop, as size_t. *)
LEMMA Wrapping ==
    /\ \A n \in Nat : Wrap(n) \in 0 .. SizeTValues - 1
    /\ \A n \in Nat : n < SizeTValues => Wrap(n) = n
    /\ \A n \in Nat : SizeTValues <= n /\ n < 2 * SizeTValues => Wrap(n) = n - SizeTValues
    /\ SizeTValues \in Nat \ {0}
    /\ \A n \in Nat : Wrap(Wrap(n) + 0) = Wrap(n)
<1>1. SizeTValues \in Nat \ {0}
  BY SizeTAssumption
<1>2. \A n \in Nat : Wrap(n) \in 0 .. SizeTValues - 1
  BY <1>1 DEF Wrap
<1>3. \A n \in Nat : n < SizeTValues => Wrap(n) = n
  BY <1>1 DEF Wrap
<1>4. \A n \in Nat : SizeTValues <= n /\ n < 2 * SizeTValues => Wrap(n) = n - SizeTValues
  BY <1>1 DEF Wrap
<1>5. QED
  BY <1>1, <1>2, <1>3, <1>4

LEMMA Uncut ==
    ASSUME NEW a \in Nat, NEW b \in Nat, NEW c \in Nat, a + b + c < SizeTValues
    PROVE  Wrap(a) = a /\ Wrap(a + b) = a + b
<1>1. a < SizeTValues /\ a + b < SizeTValues /\ a + b \in Nat
  BY Wrapping
<1>2. QED
  BY <1>1, Wrapping

\* The test of the total, if the result is added in size_t as well.
LEMMA SameSum ==
    ASSUME NEW c \in 0 .. SizeTValues - 1, NEW s \in Nat, NEW a \in Nat,
           a + s < SizeTValues, Wrap(c + s) = a + s
    PROVE  c = a
<1>1. c + s \in Nat /\ c + s < 2 * SizeTValues
  BY Wrapping
<1>2. CASE c + s < SizeTValues
  <2>1. Wrap(c + s) = c + s
    BY <1>1, <1>2, Wrapping
  <2>2. QED
    BY <2>1
<1>3. CASE SizeTValues <= c + s
  <2>1. Wrap(c + s) = c + s - SizeTValues
    BY <1>1, <1>3, Wrapping
  <2>2. QED
    BY <2>1, Wrapping
<1>4. QED
  BY <1>1, <1>2, <1>3, Wrapping

LEMMA InitIInv == Init => IInv
BY EmptySeq DEF Init, IInv, TypeOK, Bookkeeping, OnlyFailuresLeak, Cursor, ParserInBounds,
    TypesTile, NextByte, Reading, Tiling, AllCountable, RetvalSized, End, Mem!Init

-----------------------------------------------------------------------------
(* Sequences that lose their last element. *)
LEMMA Shorter ==
    ASSUME NEW S, NEW s \in Seq(S), s # <<>>
    PROVE  /\ Len(s) \in Nat \ {0}
           /\ SubSeq(s, 1, Len(s) - 1) \in Seq(S)
           /\ Len(SubSeq(s, 1, Len(s) - 1)) = Len(s) - 1
           /\ \A k \in 1 .. Len(s) - 1 : SubSeq(s, 1, Len(s) - 1)[k] = s[k]
<1>. DEFINE m == Len(s) - 1
            t == SubSeq(s, 1, m)
<1>1. Len(s) \in Nat \ {0} /\ m \in Int
  BY EmptySeq
<1>2. \A k \in 1 .. m : s[k] \in S
  BY <1>1, ElementOfSeq
<1>3. /\ t \in Seq(S)
      /\ Len(t) = IF 1 <= m THEN m - 1 + 1 ELSE 0
      /\ \A k \in 1 .. m - 1 + 1 : t[k] = s[1 + k - 1]
  <2>. HIDE DEF m
  <2>1. 1 \in Int
    OBVIOUS
  <2>2. QED
    BY <1>1, <1>2, <2>1, SubSeqProperties
<1>4. Len(t) = m /\ \A k \in 1 .. m : t[k] = s[k]
  <2>1. m \in Nat
    BY <1>1
  <2>. HIDE DEF m, t
  <2>2. QED
    BY <1>3, <2>1
<1>5. QED
  BY <1>1, <1>3, <1>4

(* Arithmetic on the counters of a frame. *)
LEMMA OneMore == \A a \in Nat, b \in 0 .. 255 : a < b => a <= b /\ a + 1 \in Nat /\ a + 1 <= b
OBVIOUS

(* A call that returns keeps the invariant if the books are right. *)
LEMMA ReturnKeeps ==
    ASSUME IInv, NEW r, Return(r),
           phase' \in {"closed", "open"}, live' \subseteq Block,
           pc \notin {"idle", "dead"},
           r = "success" <=> phase' = "closed"
    PROVE  IInv'
<1>1. /\ pc' = "idle" /\ argtypes' = <<>> /\ argsLen' = 0 /\ i' = 0 /\ frames' = <<>>
      /\ ffi_types' = <<>> /\ ffi_values' = <<>> /\ fullsize' = 0 /\ size' = 0 /\ retlen' = 0
      /\ calls' = calls /\ abandoned' = abandoned
      /\ failures' = IF r = "success" THEN failures ELSE failures + 1
  BY DEF Return
<1>2. failures = abandoned
  BY DEF IInv, TypeOK, Bookkeeping, OnlyFailuresLeak
<1>3. TypeOK'
  BY <1>1, EmptySeq DEF IInv, TypeOK
<1>4. Bookkeeping'
  BY <1>1, <1>2 DEF IInv, TypeOK, Bookkeeping, OnlyFailuresLeak, Reading
<1>5. Cursor'
  BY <1>1, EmptySeq DEF Cursor, ParserInBounds, TypesTile, NextByte, Reading
<1>6. Tiling'
  BY <1>1, EmptySeq DEF Tiling, AllCountable, RetvalSized
<1>7. QED
  BY <1>3, <1>4, <1>5, <1>6 DEF IInv

LEMMA FailKeeps ==
    ASSUME IInv, NEW r, r # "success", Fail(r),
           Reading \/ pc \in {"loop", "prep", "invoke"}
    PROVE  IInv'
<1>1. phase' = "open" /\ live' \subseteq Block
  BY DEF Fail, arena, IInv, TypeOK, Bookkeeping
<1>2. Return(r) /\ pc \notin {"idle", "dead"}
  BY DEF Fail, Reading
<1>3. QED
  BY <1>1, <1>2, ReturnKeeps

-----------------------------------------------------------------------------
(* The type t of an argument, or of the result, has been read: it started at  *)
(* NextByte, and size is its size (0 for void and structures).                *)
LEMMA ArgumentKeeps ==
    ASSUME IInv, Reading,
           NEW t \in FfiType,
           t.first = NextByte, t.last >= NextByte, t.last < Len(argtypes),
           t.code \in Scalar \cup {CNA_VOID, CNA_STRUCT},
           size = get_size(t.code),
           Argument(t)
    PROVE  IInv'
<1>1. CASE t.code = CNA_VOID /\ ~isReturn(t)
  BY <1>1, FailKeeps DEF Argument
<1>2. CASE ~(t.code = CNA_VOID /\ ~isReturn(t))
  <2>1. /\ size' \in IF hasHeader(t) THEN HeaderSizes ELSE {size}
        /\ ffi_types' = Append(ffi_types, t)
        /\ ffi_values' = IF isReturn(t) THEN ffi_values
                         ELSE Append(ffi_values, [at |-> Start(t), size |-> size'])
        /\ fullsize' = Wrap(Start(t) + size')
        /\ i' = t.last + 1 /\ frames' = <<>> /\ pc' = "loop"
        /\ UNCHANGED <<argtypes, argsLen, retlen, phase, live,
                       result, calls, failures, abandoned>>
    BY <1>2 DEF Argument, After, input, arena, history
  <2>2. /\ t.first \in Nat /\ t.last \in Nat /\ t.code \in 0 .. 255
        /\ Len(argtypes) \in Nat /\ Len(ffi_types) \in Nat /\ Len(ffi_values) \in Nat
        /\ fullsize \in Nat /\ size \in Nat
        /\ argtypes # <<>>
    BY EmptySeq DEF IInv, TypeOK, FfiType, Reading
  <2>3. /\ hasHeader(t) <=> t.code = CNA_STRUCT /\ ~isReturn(t)
        /\ isReturn(t) <=> t.last + 1 = Len(argtypes)
        /\ size' \in Nat
        /\ t.code # CNA_STRUCT => size' = size
        /\ isReturn(t) => size' = size
        /\ Start(t) = IF hasHeader(t) THEN Wrap(fullsize + SizeofSizet) ELSE fullsize
        /\ Start(t) \in Nat
    <3>1. t.code \in Scalar => size > 0 /\ t.code # CNA_STRUCT /\ t.code # CNA_VOID
      <4>1. ASSUME t.code \in Scalar
            PROVE  size = SizeOf[t.code] /\ SizeOf[t.code] \in Nat \ {0} /\ t.code \in 1 .. 15
        BY <4>1 DEF get_size
      <4>2. QED
        BY <4>1 DEF CNA_STRUCT, CNA_VOID
    <3>2. t.code \in {CNA_VOID, CNA_STRUCT} => size = 0
      BY DEF get_size, CNA_VOID, CNA_STRUCT
    <3>3. hasHeader(t) <=> t.code = CNA_STRUCT /\ ~isReturn(t)
      BY <3>1, <3>2 DEF hasHeader, CNA_VOID, CNA_STRUCT
    <3>4. isReturn(t) <=> t.last + 1 = Len(argtypes)
      BY <2>2 DEF isReturn, maxargs
    <3>5. size' \in Nat
      BY <2>1, <2>2
    <3>6. /\ Start(t) = IF hasHeader(t) THEN Wrap(fullsize + SizeofSizet) ELSE fullsize
          /\ Start(t) \in Nat
      <4>1. fullsize + SizeofSizet \in Nat
        BY <2>2
      <4>2. Wrap(fullsize + SizeofSizet) \in Nat
        BY <4>1, Wrapping
      <4>3. Start(t) = IF hasHeader(t) THEN Wrap(fullsize + SizeofSizet) ELSE fullsize
        BY DEF Start
      <4>4. QED
        BY <2>2, <4>2, <4>3
    <3>7. (t.code # CNA_STRUCT => size' = size) /\ (isReturn(t) => size' = size)
      BY <2>1, <3>3
    <3>8. QED
      BY <2>2, <3>3, <3>4, <3>5, <3>6, <3>7
  <2>4. /\ ffi_types' \in Seq(FfiType)
        /\ Len(ffi_types') = Len(ffi_types) + 1
        /\ ffi_types' # <<>>
        /\ \A k \in 1 .. Len(ffi_types) : ffi_types'[k] = ffi_types[k]
        /\ ffi_types'[Len(ffi_types) + 1] = t
    BY <2>1, AppendProperties DEF IInv, TypeOK
  <2>5. ASSUME ~isReturn(t)
        PROVE  /\ ffi_values' \in Seq(Value)
               /\ Len(ffi_values') = Len(ffi_values) + 1
               /\ \A k \in 1 .. Len(ffi_values) : ffi_values'[k] = ffi_values[k]
               /\ ffi_values'[Len(ffi_values) + 1] = [at |-> Start(t), size |-> size']
    <3>1. [at |-> Start(t), size |-> size'] \in Value
      BY <2>3 DEF Value
    <3>2. QED
      BY <2>1, <2>5, <3>1, AppendProperties DEF IInv, TypeOK
  <2>6. /\ ReturnType' = t
        /\ NextByte' = t.last + 1
        /\ NextByte \in Nat
    BY <2>2, <2>4 DEF ReturnType, NextByte, IInv, Cursor
  <2>7. /\ Len(ffi_types) = Len(ffi_values)
        /\ fullsize = Wrap(End(Len(ffi_values)))
        /\ argsLen \in ArgsLengths
    BY DEF IInv, Cursor, Tiling, Consumed, Reading
  <2>8. TypeOK'
    <3>1. ffi_values' \in Seq(Value)
      BY <2>1, <2>5 DEF IInv, TypeOK
    <3>2. fullsize' \in Nat /\ i' \in Nat
      <4>1. Start(t) + size' \in Nat
        BY <2>3
      <4>2. Wrap(Start(t) + size') \in Nat
        BY <4>1, Wrapping
      <4>3. QED
        BY <2>1, <2>2, <4>2
    <3>3. frames' \in Seq(Frame) /\ Len(frames') = 0
      BY <2>1, EmptySeq
    <3>4. /\ pc' = "loop" /\ size' \in Nat
          /\ UNCHANGED <<argtypes, argsLen, retlen, phase, live, calls, failures, abandoned>>
      BY <2>1, <2>3
    <3>5. QED
      BY <2>2, <2>4, <3>1, <3>2, <3>3, <3>4 DEF IInv, TypeOK
  <2>9. Bookkeeping'
    BY <2>1 DEF IInv, Bookkeeping, OnlyFailuresLeak, Reading
  <2>10. Cursor'
    <3>1. ParserInBounds'
      <4>1. Len(ffi_values') < Len(argtypes')
        BY <2>1, <2>2, <2>3, <2>5, <2>7, SMTT(60) DEF IInv, Cursor, ParserInBounds
      <4>2. QED
        BY <2>1, <2>2, <2>4, <4>1, <2>6, SMTT(60) DEF ParserInBounds, IInv, Cursor
    <3>2. TypesTile'
      <4>1. \A k \in 1 .. Len(ffi_types) :
              ffi_types[k].first = IF k = 1 THEN 0 ELSE ffi_types[k - 1].last + 1
        BY DEF IInv, Cursor, TypesTile, Reading
      <4>2. t.first = IF ffi_types = <<>> THEN 0 ELSE ffi_types[Len(ffi_types)].last + 1
        BY DEF NextByte, ReturnType
      <4>3. ffi_types = <<>> <=> Len(ffi_types) = 0
        BY EmptySeq DEF IInv, TypeOK
      <4>4. ASSUME NEW k \in 1 .. Len(ffi_types')
            PROVE  ffi_types'[k].first = IF k = 1 THEN 0 ELSE ffi_types'[k - 1].last + 1
        <5>1. CASE k = Len(ffi_types) + 1
          BY <2>2, <2>4, <4>2, <4>3, <5>1
        <5>2. CASE k # Len(ffi_types) + 1
          <6>1. k \in 1 .. Len(ffi_types) /\ (k # 1 => k - 1 \in 1 .. Len(ffi_types))
            BY <2>2, <2>4, <4>4, <5>2
          <6>2. QED
            BY <2>4, <4>1, <6>1
        <5>3. QED
          BY <5>1, <5>2
      <4>5. QED
        BY <2>1, <2>4, <2>6, <4>4 DEF TypesTile
    <3>3. Len(ffi_types') <= NextByte' /\ NextByte' <= Len(argtypes')
      BY <2>1, <2>2, <2>4, <2>6 DEF IInv, Cursor
    <3>4. QED
      BY <2>1, <3>1, <3>2, <3>3, EmptySeq DEF Cursor, Reading
  <2>11. Tiling'
    <3>1. \A k \in 1 .. Len(ffi_types') :
            ffi_types'[k].code \in Scalar \cup {CNA_VOID, CNA_STRUCT}
      <4>1. \A k \in 1 .. Len(ffi_types) : ffi_types[k].code \in Scalar \cup {CNA_VOID, CNA_STRUCT}
        BY DEF IInv, Tiling
      <4>2. QED
        BY <2>2, <2>4, <4>1
    <3>2. CASE isReturn(t)
      <4>1. ffi_values' = ffi_values
        BY <2>1, <3>2
      <4>2. ASSUME NEW k \in 1 .. Len(ffi_values')
            PROVE  /\ ffi_values'[k].at = Wrap(Wrap(End(k - 1)') + Header(k)')
                   /\ ffi_types'[k].code # CNA_VOID
                   /\ ffi_types'[k].code # CNA_STRUCT =>
                        ffi_values'[k].size = SizeOf[ffi_types'[k].code]
        <5>1. k \in 1 .. Len(ffi_values) /\ ffi_types'[k] = ffi_types[k]
          BY <2>4, <2>7, <4>1, <4>2
        <5>2. End(k - 1)' = End(k - 1) /\ Header(k)' = Header(k)
          BY <4>1, <5>1 DEF End, Header
        <5>3. QED
          BY <4>1, <5>1, <5>2 DEF IInv, Tiling
      <4>3. fullsize' = Wrap(Consumed' + size') /\ size' = get_size(ReturnType.code)'
        <5>1. Consumed' = Consumed /\ Start(t) = Consumed
          BY <2>3, <2>7, <3>2, <4>1 DEF Consumed, End
        <5>2. QED
          BY <2>1, <2>3, <2>6, <3>2, <5>1 DEF get_size
      <4>4. NextByte' = Len(argtypes') /\ Len(ffi_types') = Len(ffi_values') + 1
        BY <2>1, <2>2, <2>3, <2>4, <2>6, <2>7, <3>2, <4>1
      <4>5. ~(NextByte' < Len(argtypes')) /\ Len(ffi_values') <= Len(ffi_types')
        BY <2>1, <2>2, <4>1, <4>4
      <4>6. AllCountable' => \A k \in 1 .. Len(ffi_values') : End(k)' <= End(Len(ffi_values))'
        <5>1. \A k \in 1 .. Len(ffi_values) : Header(k)' = Header(k)
          BY <2>4, <2>7 DEF Header
        <5>2. \A k : End(k)' = End(k)
          BY <4>1 DEF End
        <5>3. AllCountable' => AllCountable
          BY <4>1, <5>1, <5>2 DEF AllCountable, Countable
        <5>4. QED
          BY <4>1, <5>2, <5>3 DEF IInv, Tiling
      <4>7. QED
        BY <2>1, <2>7, <3>1, <4>1, <4>2, <4>3, <4>4, <4>5, <4>6 DEF Tiling, RetvalSized
    <3>3. CASE ~isReturn(t)
      <4>1. /\ Len(ffi_values') = Len(ffi_values) + 1
            /\ \A k \in 1 .. Len(ffi_values) : ffi_values'[k] = ffi_values[k]
            /\ ffi_values'[Len(ffi_values) + 1] = [at |-> Start(t), size |-> size']
        BY <2>5, <3>3
      <4>6. End(Len(ffi_values)) \in Nat
        <5>1. Len(ffi_values) # 0 => ffi_values[Len(ffi_values)] \in Value
          BY <2>2, ElementOfSeq DEF IInv, TypeOK
        <5>2. QED
          BY <5>1 DEF End, Value
      <4>2. ASSUME NEW k \in 1 .. Len(ffi_values')
            PROVE  /\ ffi_values'[k].at = Wrap(Wrap(End(k - 1)') + Header(k)')
                   /\ ffi_types'[k].code # CNA_VOID
                   /\ ffi_types'[k].code # CNA_STRUCT =>
                        ffi_values'[k].size = SizeOf[ffi_types'[k].code]
        <5>1. CASE k \in 1 .. Len(ffi_values)
          <6>1. ffi_types'[k] = ffi_types[k] /\ ffi_values'[k] = ffi_values[k]
            BY <2>4, <2>7, <4>1, <5>1
          <6>2. k = 1 \/ (k - 1 \in 1 .. Len(ffi_values) /\ k - 1 # 0)
            BY <2>2, <5>1
          <6>3. End(k - 1)' = End(k - 1) /\ Header(k)' = Header(k)
            BY <4>1, <6>1, <6>2 DEF End, Header
          <6>4. QED
            BY <5>1, <6>1, <6>3 DEF IInv, Tiling
        <5>2. CASE k = Len(ffi_values) + 1
          <6>1. ffi_types'[k] = t /\ ffi_values'[k] = [at |-> Start(t), size |-> size']
            BY <2>4, <2>7, <4>1, <5>2
          <6>2. End(k - 1)' = End(k - 1)
            <7>1. k - 1 = Len(ffi_values) /\ (k - 1 = 0 \/ k - 1 \in 1 .. Len(ffi_values))
              BY <2>2, <5>2
            <7>2. QED
              BY <4>1, <7>1 DEF End
          <6>3. k - 1 = Len(ffi_values)
            BY <2>2, <5>2
          <6>4. Header(k)' = IF hasHeader(t) THEN SizeofSizet ELSE 0
            BY <2>3, <3>3, <6>1 DEF Header
          <6>5. ffi_values'[k].at = Wrap(Wrap(End(k - 1)') + Header(k)')
            <7>1. ffi_values'[k].at = Start(t) /\ fullsize = Wrap(End(k - 1)')
              BY <2>7, <6>1, <6>2, <6>3
            <7>2. CASE hasHeader(t)
              BY <2>3, <6>4, <7>1, <7>2
            <7>3. CASE ~hasHeader(t)
              BY <2>3, <4>6, <6>2, <6>3, <6>4, <7>1, <7>3, Wrapping
            <7>4. QED
              BY <7>2, <7>3
          <6>6. t.code # CNA_VOID
            BY <1>2, <3>3
          <6>7. t.code # CNA_STRUCT => size' = SizeOf[t.code]
            BY <2>3, <6>6 DEF get_size
          <6>8. QED
            BY <6>1, <6>5, <6>6, <6>7
        <5>3. QED
          BY <2>2, <4>1, <4>2, <5>1, <5>2
      <4>3. fullsize' = Consumed'
        BY <2>1, <2>2, <4>1 DEF End, Consumed
      <4>4. NextByte' < Len(argtypes')
        BY <2>1, <2>2, <2>3, <2>6, <3>3
      <4>5. AllCountable' => \A k \in 1 .. Len(ffi_values') : End(k)' <= End(Len(ffi_values))'
        <5>. SUFFICES ASSUME AllCountable', NEW m \in Nat, m = Len(ffi_values) + 1
                      PROVE  \A k \in 1 .. m : End(k)' <= End(m)'
          BY <2>2, <4>1
        <5>1. \A k \in 0 .. Len(ffi_values) : End(k)' = End(k)
          BY <2>2, <4>1 DEF End
        <5>2. \A k \in 1 .. Len(ffi_values) : Header(k)' = Header(k)
          BY <2>4, <2>7 DEF Header
        <5>3. AllCountable
          <6>1. ASSUME NEW k \in 1 .. Len(ffi_values)
                PROVE  Countable(k)
            <7>1. k \in 1 .. Len(ffi_values') /\ k - 1 \in 0 .. Len(ffi_values)
              BY <2>2, <4>1
            <7>2. End(k - 1)' = End(k - 1) /\ ffi_values'[k] = ffi_values[k]
              BY <4>1, <5>1, <7>1
            <7>3. Countable(k)'
              BY <7>1 DEF AllCountable
            <7>4. QED
              BY <5>2, <7>2, <7>3 DEF Countable
          <6>2. QED
            BY <6>1 DEF AllCountable
        <5>4. End(Len(ffi_values)) <= End(m)'
          <6>1. m \in 1 .. Len(ffi_values') /\ m - 1 = Len(ffi_values) /\ m # 0
            BY <2>2, <4>1
          <6>2. Header(m)' \in Nat
            BY SMTT(30) DEF Header
          <6>3. ffi_values'[m].at = Wrap(Wrap(End(m - 1)') + Header(m)') /\ ffi_values'[m].size = size'
            BY <4>1, <4>2, <6>1
          <6>4. End(m - 1)' = End(Len(ffi_values))
            BY <2>2, <5>1, <6>1
          <6>5. End(Len(ffi_values)) + Header(m)' + size' < SizeTValues
            BY <6>1, <6>3, <6>4 DEF AllCountable, Countable
          <6>7. size' \in Nat
            BY <2>3
          <6>6. /\ Wrap(End(Len(ffi_values))) = End(Len(ffi_values))
                /\ Wrap(End(Len(ffi_values)) + Header(m)') = End(Len(ffi_values)) + Header(m)'
            BY <4>6, <6>2, <6>5, <6>7, Uncut
          <6>8. End(m)' = End(Len(ffi_values)) + Header(m)' + size'
            BY <6>1, <6>3, <6>4, <6>6 DEF End
          <6>9. QED
            BY <2>3, <4>6, <6>2, <6>8
        <5>5. \A k \in 1 .. Len(ffi_values) : End(k) <= End(Len(ffi_values))
          BY <5>3 DEF IInv, Tiling
        <5>6. ASSUME NEW k \in 1 .. m
              PROVE  End(k)' <= End(m)'
          <6>1. CASE k = m
            <7>1. m \in 1 .. Len(ffi_values') /\ m # 0
              BY <2>2, <4>1
            <7>2. ffi_values'[m] \in Value
              BY <2>3, <4>1 DEF Value
            <7>3. End(m)' \in Nat
              BY <7>1, <7>2 DEF End, Value
            <7>4. QED
              BY <6>1, <7>3
          <6>2. CASE k # m
            <7>1. k \in 1 .. Len(ffi_values) /\ k \in 0 .. Len(ffi_values) /\ k # 0
              BY <2>2, <6>2
            <7>2. End(k) \in Nat
              <8>1. ffi_values[k] \in Value
                BY <2>2, <7>1, ElementOfSeq DEF IInv, TypeOK
              <8>2. QED
                BY <7>1, <8>1 DEF End, Value
            <7>3. End(m)' \in Nat
              <8>1. m \in 1 .. Len(ffi_values') /\ m # 0 /\ ffi_values'[m] \in Value
                BY <2>2, <2>3, <4>1 DEF Value
              <8>2. QED
                BY <8>1 DEF End, Value
            <7>4. QED
              BY <4>6, <5>1, <5>4, <5>5, <7>1, <7>2, <7>3
          <6>3. QED
            BY <6>1, <6>2
        <5>7. QED
          BY <5>6
      <4>7. QED
        BY <2>1, <2>2, <2>4, <2>7, <3>1, <4>1, <4>2, <4>3, <4>4, <4>5, SMTT(60) DEF Tiling, RetvalSized
    <3>4. QED
      BY <3>2, <3>3
  <2>12. QED
    BY <2>8, <2>9, <2>10, <2>11 DEF IInv
<1>3. QED
  BY <1>1, <1>2

(* An element of the topmost structure of stack has been read. *)
LEMMA ElementKeeps ==
    ASSUME IInv, Reading,
           NEW t \in FfiType, NEW stack \in Seq(Frame), stack # <<>>,
           t.last >= i - 1, t.last < Len(argtypes),
           t.last >= NextByte + 1,
           frames # <<>>, stack[1].first = NextByte,
           \A k \in 1 .. Len(stack) : HasMore(stack[k]),
           Element(t, stack)
    PROVE  IInv'
<1>. DEFINE top == stack[Len(stack)]
            grown == [first |-> top.first, n |-> top.n, j |-> top.j + 1,
                      sized |-> top.sized /\ t.sized]
<1>1. CASE BadElement(t)
  BY <1>1, FailKeeps DEF Element
<1>2. CASE ~BadElement(t)
  <2>1. /\ frames' = [stack EXCEPT ![Len(stack)] = grown]
        /\ i' = t.last + 1 /\ pc' = "elements"
        /\ UNCHANGED <<argtypes, argsLen, ffi_types, ffi_values, fullsize, size, retlen,
                       phase, live, result, calls, failures, abandoned>>
    BY <1>2 DEF Element, After, input, arrays, arena, history
  <2>2. /\ Len(stack) \in Nat \ {0} /\ top \in Frame
        /\ t.last \in Nat /\ Len(argtypes) \in Nat /\ i \in Nat
    <3>1. Len(stack) \in Nat \ {0}
      BY EmptySeq
    <3>2. QED
      BY <3>1, ElementOfSeq DEF IInv, TypeOK, FfiType
  <2>3. top.j < top.n
    BY <2>2 DEF HasMore
  <2>4. /\ grown \in Frame /\ grown.j <= grown.n /\ grown.first = top.first
    <3>1. /\ top.first \in Nat /\ top.n \in 0 .. 255 /\ top.j \in Nat
      BY <2>2 DEF Frame
    <3>2. (top.sized /\ t.sized) \in BOOLEAN
      BY Zenon
    <3>. HIDE DEF top
    <3>3. top.j + 1 \in Nat /\ top.j + 1 <= top.n
      BY <2>3, <3>1, OneMore, Zenon
    <3>4. QED
      BY <3>1, <3>2, <3>3 DEF Frame
  <2>5. /\ frames' \in Seq(Frame)
        /\ Len(frames') = Len(stack)
        /\ \A k \in 1 .. Len(stack) : frames'[k] = IF k = Len(stack) THEN grown ELSE stack[k]
    <3>. HIDE DEF grown
    <3>1. Len(stack) \in 1 .. Len(stack)
      BY <2>2
    <3>2. QED
      BY <2>1, <2>4, <3>1, ExceptSeq
  <2>. HIDE DEF grown, top
  <2>6. frames'[1].first = NextByte /\ frames' # <<>>
    BY <2>2, <2>4, <2>5, EmptySeq DEF top
  <2>7. NextByte' = NextByte /\ NextByte \in Nat
    <3>1. NextByte' = NextByte
      BY <2>1 DEF NextByte, ReturnType
    <3>2. ASSUME ffi_types # <<>>
          PROVE  ReturnType.last + 1 \in Nat
      <4>1. ReturnType \in FfiType
        BY <3>2, EmptySeq, ElementOfSeq, SMTT(60) DEF ReturnType, IInv, TypeOK
      <4>2. QED
        BY <4>1 DEF FfiType
    <3>3. QED
      BY <3>1, <3>2 DEF NextByte
  <2>8. TypeOK'
    <3>1. \A k \in 1 .. Len(frames') : frames'[k].j <= frames'[k].n
      <4>1. ASSUME NEW k \in 1 .. Len(stack)
            PROVE  frames'[k].j <= frames'[k].n
        <5>1. stack[k] \in Frame
          BY ElementOfSeq
        <5>2. stack[k].j \in Nat /\ stack[k].n \in 0 .. 255 /\ stack[k].j < stack[k].n
          BY <5>1 DEF HasMore, Frame
        <5>3. frames'[k] = grown \/ frames'[k] = stack[k]
          BY <2>5
        <5>4. CASE frames'[k] = grown
          BY <2>4, <5>4, Zenon
        <5>5. CASE frames'[k] = stack[k]
          <6>1. stack[k].j <= stack[k].n
            BY <5>2, OneMore, Zenon
          <6>2. QED
            BY <5>5, <6>1, Zenon
        <5>6. QED
          BY <5>3, <5>4, <5>5
      <4>2. QED
        BY <2>5, <4>1
    <3>2. i' \in Nat
      BY <2>1, <2>2
    <3>3. argtypes' # <<>>
      BY <2>1 DEF IInv, TypeOK, Reading
    <3>4. QED
      BY <2>1, <2>5, <3>1, <3>2, <3>3, ZenonT(60) DEF IInv, TypeOK
  <2>9. Bookkeeping'
    BY <2>1 DEF IInv, Bookkeeping, OnlyFailuresLeak, Reading
  <2>10. Cursor'
    <3>1. ParserInBounds' /\ TypesTile'
      BY <2>1, <2>2, SMTT(60) DEF IInv, Cursor, ParserInBounds, TypesTile, Reading
    <3>2. /\ NextByte' < Len(argtypes')
          /\ size' = get_size(Code(NextByte))'
          /\ Code(NextByte)' = CNA_STRUCT
          /\ i' >= NextByte' + 2
      <4>1. Code(NextByte)' = Code(NextByte)
        BY <2>1, <2>7 DEF Code
      <4>2. QED
        BY <2>1, <2>2, <2>7, <4>1 DEF IInv, Cursor, get_size
    <3>3. \A k \in 1 .. Len(frames') : k < Len(frames') => HasMore(frames[k])'
      BY <2>2, <2>5 DEF HasMore
    <3>4. Len(ffi_types') <= NextByte' /\ NextByte' <= Len(argtypes')
      BY <2>1, <2>7 DEF IInv, Cursor
    <3>5. QED
      BY <2>1, <2>6, <2>7, <3>1, <3>2, <3>3, <3>4 DEF Cursor, Reading
  <2>11. Tiling'
    <3>1. /\ \A k : End(k)' = End(k) /\ Header(k)' = Header(k)
          /\ Consumed' = Consumed /\ AllCountable' = AllCountable
      BY <2>1 DEF End, Header, Countable, Consumed, AllCountable
    <3>2. ReturnType' = ReturnType
      BY <2>1 DEF ReturnType
    <3>3. pc # "idle" /\ pc' \notin {"idle", "prep", "invoke"}
      BY <2>1 DEF Reading
    <3>4. QED
      BY <2>1, <2>7, <3>1, <3>2, <3>3, SMTT(60) DEF IInv, Tiling, RetvalSized, get_size
  <2>12. QED
    BY <2>8, <2>9, <2>10, <2>11 DEF IInv
<1>3. QED
  BY <1>1, <1>2

(* A type has been read, by call_function or by create_ffi_struct. *)
LEMMA DeliverKeeps ==
    ASSUME IInv, Reading,
           NEW t \in FfiType, NEW stack \in Seq(Frame),
           t.code \in Scalar \cup {CNA_VOID, CNA_STRUCT},
           t.last >= i - 1, t.last < Len(argtypes), t.last >= NextByte,
           stack = <<>> => t.first = NextByte /\ size = get_size(t.code),
           stack # <<>> => /\ frames # <<>>
                           /\ t.last >= NextByte + 1
                           /\ stack[1].first = NextByte
                           /\ \A k \in 1 .. Len(stack) : HasMore(stack[k]),
           Deliver(t, stack)
    PROVE  IInv'
<1>1. CASE stack = <<>>
  BY <1>1, ArgumentKeeps DEF Deliver
<1>2. CASE stack # <<>>
  BY <1>2, ElementKeeps DEF Deliver
<1>3. QED
  BY <1>1, <1>2

-----------------------------------------------------------------------------
(* The facts about the control state that nearly every step needs. *)
LEMMA Facts ==
    ASSUME IInv
    PROVE  /\ NextByte \in Nat /\ i \in Nat /\ Len(argtypes) \in Nat
           /\ Len(frames) \in Nat /\ Len(ffi_types) \in Nat /\ Len(ffi_values) \in Nat
           /\ argsLen \in Nat /\ fullsize \in Nat /\ size \in Nat
           /\ \A k \in 0 .. Len(argtypes) - 1 : Code(k) \in 0 .. 255
<1>1. /\ i \in Nat /\ Len(argtypes) \in Nat /\ Len(frames) \in Nat
      /\ Len(ffi_types) \in Nat /\ Len(ffi_values) \in Nat
      /\ argsLen \in Nat /\ fullsize \in Nat /\ size \in Nat
  BY EmptySeq DEF IInv, TypeOK
<1>2. ASSUME ffi_types # <<>>
      PROVE  ReturnType.last + 1 \in Nat
  <2>1. ReturnType \in FfiType
    BY <1>2, EmptySeq, ElementOfSeq DEF ReturnType, IInv, TypeOK
  <2>2. QED
    BY <2>1 DEF FfiType
<1>3. ASSUME NEW k \in 0 .. Len(argtypes) - 1
      PROVE  Code(k) \in 0 .. 255
  <2>1. k + 1 \in 1 .. Len(argtypes)
    BY <1>1
  <2>2. QED
    BY <2>1, ElementOfSeq DEF Code, IInv, TypeOK
<1>4. QED
  BY <1>1, <1>2, <1>3 DEF NextByte

(* A step that only moves the cursor's control state, not what was read. *)
LEMMA SameTypes ==
    ASSUME UNCHANGED <<argtypes, ffi_types, ffi_values>>
    PROVE  /\ NextByte' = NextByte /\ ReturnType' = ReturnType
           /\ \A k : Code(k)' = Code(k) /\ End(k)' = End(k) /\ Header(k)' = Header(k)
           /\ \A c : get_size(c)' = get_size(c)
           /\ Consumed' = Consumed /\ AllCountable' = AllCountable
BY DEF NextByte, ReturnType, Code, End, Header, Countable, Consumed, AllCountable, get_size

LEMMA NextIInv == IInv /\ [Next]_vars => IInv'
<1>. SUFFICES ASSUME IInv, [Next]_vars
              PROVE  IInv'
  OBVIOUS
<1>. USE Facts
<1>1. CASE call_function
  <2>1. /\ pc = "idle" /\ pc' = "loop"
        /\ argtypes' \in Seq(0 .. 255) /\ argtypes' # <<>>
        /\ argsLen' \in Nat /\ argsLen' \in ArgsLengths
        /\ phase' = "open" /\ live' = {} /\ calls' = calls + 1
        /\ abandoned' = IF phase = "closed" THEN abandoned ELSE abandoned + 1
        /\ UNCHANGED <<i, frames, ffi_types, ffi_values, fullsize, size, retlen, failures>>
    BY <1>1 DEF call_function, parser, arrays
  <2>2. /\ i = 0 /\ frames = <<>> /\ ffi_types = <<>> /\ ffi_values = <<>> /\ fullsize = 0
        /\ Len(argtypes') \in Nat \ {0}
    BY <2>1, EmptySeq DEF IInv, Cursor
  <2>3. NextByte' = 0
    BY <2>1, <2>2 DEF NextByte
  <2>4. TypeOK'
    <3>1. /\ pc' \in {"idle", "loop", "type", "struct", "elements", "prep", "invoke",
                     "release", "dead"}
          /\ phase' \in {"closed", "open", "draining", "lost"} /\ live' \subseteq Block
      BY <2>1
    <3>2. calls' \in Nat /\ failures' \in Nat /\ abandoned' \in Nat
      BY <2>1 DEF IInv, TypeOK
    <3>3. /\ i' \in Nat /\ frames' \in Seq(Frame) /\ ffi_types' \in Seq(FfiType)
          /\ ffi_values' \in Seq(Value) /\ fullsize' \in Nat /\ size' \in Nat /\ retlen' \in Nat
          /\ \A k \in 1 .. Len(frames') : frames'[k].j <= frames'[k].n
      BY <2>1 DEF IInv, TypeOK
    <3>4. QED
      BY <2>1, <3>1, <3>2, <3>3 DEF TypeOK
  <2>5. Bookkeeping'
    BY <2>1 DEF IInv, TypeOK, Bookkeeping, OnlyFailuresLeak, Reading
  <2>6. Cursor'
    BY <2>1, <2>2, <2>3, EmptySeq DEF Cursor, ParserInBounds, TypesTile, Reading
  <2>7. Tiling'
    <3>1. End(0)' = 0 /\ Consumed' = 0 /\ Len(ffi_values') = 0
      BY <2>1, <2>2, EmptySeq, Wrapping DEF End, Consumed
    <3>2. QED
      <4>1. 1 .. Len(ffi_values') = {} /\ 1 .. Len(ffi_types') = {}
        BY <2>1, <2>2, EmptySeq
      <4>2. NextByte' < Len(argtypes') /\ Len(ffi_types') = Len(ffi_values')
        BY <2>1, <2>2, <2>3, EmptySeq
      <4>3. fullsize' = Consumed' /\ Len(ffi_values') <= Len(ffi_types')
        BY <2>1, <2>2, <3>1, <4>2
      <4>4. QED
        BY <2>1, <4>1, <4>2, <4>3 DEF Tiling, RetvalSized
  <2>8. QED
    BY <2>4, <2>5, <2>6, <2>7 DEF IInv
<1>2. CASE next_type
  <2>1. /\ pc = "loop" /\ pc' = "type" /\ i < Len(argtypes) /\ size' = get_size(Code(i))
        /\ UNCHANGED <<argtypes, argsLen, i, frames, ffi_types, ffi_values, fullsize, retlen,
                       phase, live, result, calls, failures, abandoned>>
    BY <1>2 DEF next_type, maxargs, input, parser, arena, history
  <2>2. frames = <<>> /\ i = NextByte
    BY <2>1 DEF IInv, Cursor, TypesTile, NextByte
  <2>3. size' \in Nat
    BY <2>1 DEF get_size
  <2>4. TypeOK'
    BY <2>1, <2>3 DEF IInv, TypeOK
  <2>5. Bookkeeping'
    BY <2>1 DEF IInv, Bookkeeping, OnlyFailuresLeak, Reading
  <2>6. Cursor'
    BY <2>1, <2>2, SameTypes, EmptySeq DEF IInv, Cursor, ParserInBounds, TypesTile, Reading
  <2>7. Tiling'
    BY <2>1, <2>2, SameTypes DEF IInv, Tiling, RetvalSized
  <2>8. QED
    BY <2>4, <2>5, <2>6, <2>7 DEF IInv
<1>3. CASE get_ffi_type
  <2>1. pc = "type" /\ Reading
    BY <1>3 DEF get_ffi_type, Reading
  <2>2. CASE Fail("bad_type")
    BY <2>1, <2>2, FailKeeps
  <2>3. ASSUME i < Len(argtypes), Code(i) \in Scalar \cup {CNA_VOID},
               Deliver([code |-> Code(i), first |-> i, last |-> i, sized |-> TRUE], frames)
        PROVE  IInv'
    <3>. DEFINE t == [code |-> Code(i), first |-> i, last |-> i, sized |-> TRUE]
    <3>1. t \in FfiType
      <4>1. i \in 0 .. Len(argtypes) - 1
        BY <2>3
      <4>2. Code(i) \in 0 .. 255
        BY <4>1
      <4>3. QED
        BY <4>2 DEF FfiType
    <3>2. frames \in Seq(Frame)
      BY DEF IInv, TypeOK
    <3>3. frames = <<>> => i = NextByte /\ size = get_size(Code(i))
      BY <2>1 DEF IInv, Cursor
    <3>4. frames # <<>> => /\ i >= NextByte + 2
                           /\ frames[1].first = NextByte
                           /\ \A k \in 1 .. Len(frames) : HasMore(frames[k])
      BY <2>1 DEF IInv, Cursor
    <3>5. i >= NextByte
      BY <3>3, <3>4
    <3>6. /\ t.code = Code(i) /\ t.first = i /\ t.last = i
      OBVIOUS
    <3>7. Deliver(t, frames)
      BY <2>3
    <3>. HIDE DEF t
    <3>8. QED
      BY <2>1, <2>3, <3>1, <3>2, <3>3, <3>4, <3>5, <3>6, <3>7, DeliverKeeps
  <2>4. ASSUME i < Len(argtypes), Code(i) = CNA_STRUCT, Alloc, pc' = "struct",
               UNCHANGED <<input, parser, arrays, retlen, history>>
        PROVE  IInv'
    <3>1. /\ phase' = "open" /\ live' \subseteq Block
          /\ UNCHANGED <<argtypes, argsLen, i, frames, ffi_types, ffi_values, fullsize, size,
                         retlen, result, calls, failures, abandoned>>
      BY <2>4 DEF Alloc, Mem!HandOut, input, parser, arrays, history, IInv, TypeOK
    <3>2. TypeOK'
      BY <2>1, <2>4, <3>1 DEF IInv, TypeOK
    <3>3. Bookkeeping'
      BY <2>1, <2>4, <3>1 DEF IInv, Bookkeeping, OnlyFailuresLeak, Reading
    <3>4. Cursor'
      BY <2>1, <2>4, <3>1, SameTypes DEF IInv, Cursor, ParserInBounds, TypesTile, Reading, HasMore
    <3>5. Tiling'
      BY <2>1, <2>4, <3>1, SameTypes, SMTT(60) DEF IInv, Tiling, RetvalSized
    <3>6. QED
      BY <3>2, <3>3, <3>4, <3>5 DEF IInv
  <2>5. QED
    BY <1>3, <2>2, <2>3, <2>4 DEF get_ffi_type
<1>4. CASE create_ffi_struct
  <2>1. pc = "struct" /\ Reading
    BY <1>4 DEF create_ffi_struct, Reading
  <2>2. CASE Fail("bad_type")
    BY <2>1, <2>2, FailKeeps
  <2>3. ASSUME i < Len(argtypes) - 1, Alloc, pc' = "elements", i' = i + 2,
               frames' = Append(frames, [first |-> i, n |-> Code(i + 1), j |-> 0, sized |-> TRUE]),
               UNCHANGED <<input, arrays, retlen, history>>
        PROVE  IInv'
    <3>. DEFINE f == [first |-> i, n |-> Code(i + 1), j |-> 0, sized |-> TRUE]
    <3>1. /\ phase' = "open" /\ live' \subseteq Block
          /\ UNCHANGED <<argtypes, argsLen, ffi_types, ffi_values, fullsize, size,
                         retlen, result, calls, failures, abandoned>>
      BY <2>3 DEF Alloc, Mem!HandOut, input, arrays, history, IInv, TypeOK
    <3>2. f \in Frame /\ f.j <= f.n /\ f.first = i
      <4>1. Code(i + 1) \in 0 .. 255 /\ 0 <= Code(i + 1)
        <5>1. i + 1 \in 0 .. Len(argtypes) - 1
          BY <2>3, SMTT(60)
        <5>2. Code(i + 1) \in 0 .. 255
          BY <5>1
        <5>3. \A c \in 0 .. 255 : 0 <= c
          OBVIOUS
        <5>4. QED
          BY <5>2, <5>3, ZenonT(60)
      <4>2. f.j = 0 /\ f.n = Code(i + 1) /\ f.first = i
        OBVIOUS
      <4>3. f \in Frame
        BY <4>1 DEF Frame
      <4>4. QED
        BY <4>1, <4>2, <4>3, Zenon
    <3>. HIDE DEF f
    <3>3. /\ frames' \in Seq(Frame)
          /\ Len(frames') = Len(frames) + 1
          /\ \A k \in 1 .. Len(frames) : frames'[k] = frames[k]
          /\ frames'[Len(frames) + 1] = f
          /\ frames' # <<>>
      <4>1. frames \in Seq(Frame) /\ frames' = Append(frames, f)
        BY <2>3 DEF IInv, TypeOK, f
      <4>2. QED
        BY <3>2, <4>1, AppendProperties
    <3>4. TypeOK'
      <4>1. ASSUME NEW k \in 1 .. Len(frames')
            PROVE  frames'[k].j <= frames'[k].n
        <5>1. CASE k = Len(frames) + 1
          BY <3>2, <3>3, <5>1, Zenon
        <5>2. CASE k # Len(frames) + 1
          <6>1. k \in 1 .. Len(frames)
            BY <3>3, <5>2
          <6>2. frames[k].j <= frames[k].n /\ frames'[k] = frames[k]
            BY <3>3, <6>1 DEF IInv, TypeOK
          <6>3. QED
            BY <6>2, Zenon
        <5>3. QED
          BY <5>1, <5>2
      <4>2. argtypes' # <<>> /\ i' \in Nat
        BY <2>1, <2>3, <3>1 DEF IInv, TypeOK
      <4>3. QED
        BY <2>3, <3>1, <3>3, <4>1, <4>2 DEF IInv, TypeOK
    <3>5. Bookkeeping'
      BY <2>1, <2>3, <3>1 DEF IInv, Bookkeeping, OnlyFailuresLeak, Reading
    <3>6. Cursor'
      <4>1. ParserInBounds' /\ TypesTile'
        BY <2>1, <2>3, <3>1 DEF IInv, Cursor, ParserInBounds, TypesTile
      <4>2. /\ frames'[1].first = NextByte
            /\ Code(NextByte) = CNA_STRUCT
            /\ i' >= NextByte + 2
        <5>1. CASE frames = <<>>
          <6>1. i = NextByte /\ Len(frames) = 0 /\ Code(i) = CNA_STRUCT
            BY <2>1, <5>1, EmptySeq DEF IInv, Cursor
          <6>2. frames'[1] = f
            BY <3>3, <6>1
          <6>3. frames'[1].first = i
            BY <3>2, <6>2, Zenon
          <6>4. QED
            BY <2>3, <6>1, <6>3
        <5>2. CASE frames # <<>>
          <6>1. 1 \in 1 .. Len(frames)
            BY <5>2, EmptySeq DEF IInv, TypeOK
          <6>2. QED
            BY <2>1, <2>3, <3>3, <5>2, <6>1, SMTT(60) DEF IInv, Cursor
        <5>3. QED
          BY <5>1, <5>2
      <4>3. \A k \in 1 .. Len(frames') : k < Len(frames') => HasMore(frames[k])'
        <5>1. ASSUME NEW k \in 1 .. Len(frames'), k < Len(frames')
              PROVE  HasMore(frames[k])'
          <6>1. k \in 1 .. Len(frames)
            BY <3>3, <5>1
          <6>2. HasMore(frames[k]) /\ frames'[k] = frames[k]
            BY <2>1, <3>3, <6>1, SMTT(60) DEF IInv, Cursor
          <6>3. QED
            BY <6>2, Zenon DEF HasMore
        <5>2. QED
          BY <5>1
      <4>4. QED
        BY <2>1, <2>3, <3>1, <3>3, <4>1, <4>2, <4>3, SameTypes, ZenonT(60) DEF IInv, Cursor, Reading
    <3>7. Tiling'
      BY <2>1, <2>3, <3>1, SameTypes, SMTT(60) DEF IInv, Tiling, RetvalSized
    <3>8. QED
      BY <3>4, <3>5, <3>6, <3>7 DEF IInv
  <2>4. QED
    BY <1>4, <2>2, <2>3, SMTT(60) DEF create_ffi_struct
<1>5. CASE out_of_memory
  <2>1. /\ Reading /\ pc' = "dead" /\ phase' = "lost"
        /\ UNCHANGED <<argtypes, argsLen, i, frames, ffi_types, ffi_values, fullsize, size,
                       retlen, live, result, calls, failures, abandoned>>
    BY <1>5 DEF out_of_memory, Mem!Die, input, parser, arrays, history, Reading
  <2>2. TypeOK'
    BY <2>1 DEF IInv, TypeOK, Reading
  <2>3. Bookkeeping'
    BY <2>1 DEF IInv, Bookkeeping, OnlyFailuresLeak, Reading
  <2>4. Cursor'
    BY <2>1, SameTypes DEF IInv, Cursor, ParserInBounds, TypesTile, Reading, HasMore
  <2>5. Tiling'
    BY <2>1, SameTypes DEF IInv, Tiling, RetvalSized, Reading
  <2>6. QED
    BY <2>2, <2>3, <2>4, <2>5 DEF IInv
<1>6. CASE next_element
  <2>1. /\ pc = "elements" /\ Reading /\ pc' = "type" /\ HasMore(frames[Len(frames)])
        /\ UNCHANGED <<argtypes, argsLen, i, frames, ffi_types, ffi_values, fullsize, size,
                       retlen, phase, live, result, calls, failures, abandoned>>
    BY <1>6 DEF next_element, input, parser, arrays, arena, history, Reading
  <2>2. TypeOK'
    BY <2>1 DEF IInv, TypeOK
  <2>3. Bookkeeping'
    BY <2>1 DEF IInv, Bookkeeping, OnlyFailuresLeak, Reading
  <2>4. Cursor'
    <3>1. frames # <<>>
      BY <2>1 DEF IInv, Cursor
    <3>2. \A k \in 1 .. Len(frames) : HasMore(frames[k])
      BY <2>1, SMTT(60) DEF IInv, Cursor
    <3>3. \A k \in 1 .. Len(frames') : HasMore(frames[k])'
      BY <2>1, <3>2 DEF HasMore
    <3>4. QED
      BY <2>1, <3>1, <3>3, SameTypes DEF IInv, Cursor, ParserInBounds, TypesTile, Reading
  <2>5. Tiling'
    BY <2>1, SameTypes DEF IInv, Tiling, RetvalSized, Reading
  <2>6. QED
    BY <2>2, <2>3, <2>4, <2>5 DEF IInv
<1>7. CASE end_struct
  <2>. DEFINE top == frames[Len(frames)]
              t == [code |-> CNA_STRUCT, first |-> top.first, last |-> LastByte,
                    sized |-> top.sized /\ top.n > 0]
              stack == SubSeq(frames, 1, Len(frames) - 1)
  <2>1. pc = "elements" /\ Reading /\ frames # <<>> /\ Deliver(t, stack)
    BY <1>7 DEF end_struct, Reading, IInv, Cursor
  <2>2. /\ frames[1].first = NextByte /\ Code(NextByte) = CNA_STRUCT
        /\ i >= NextByte + 2 /\ i <= Len(argtypes)
        /\ size = get_size(Code(NextByte))
        /\ \A k \in 1 .. Len(frames) : k < Len(frames) => HasMore(frames[k])
    BY <2>1 DEF IInv, Cursor, ParserInBounds
  <2>3. /\ Len(frames) \in Nat \ {0}
        /\ stack \in Seq(Frame)
        /\ Len(stack) = Len(frames) - 1
        /\ \A k \in 1 .. Len(frames) - 1 : stack[k] = frames[k]
    BY <2>1, Shorter DEF IInv, TypeOK
  <2>4. t \in FfiType /\ t.code = CNA_STRUCT /\ t.last = i - 1 /\ t.first = top.first
    <3>1. top.first \in Nat
      <4>1. Len(frames) \in 1 .. Len(frames) /\ frames \in Seq(Frame)
        BY <2>3 DEF IInv, TypeOK
      <4>2. top \in Frame
        BY <4>1, ElementOfSeq
      <4>3. QED
        BY <4>2 DEF Frame
    <3>2. (top.sized /\ top.n > 0) \in BOOLEAN
      BY Zenon
    <3>3. LastByte = i - 1 /\ i - 1 \in Nat
      BY <2>2 DEF LastByte
    <3>. HIDE DEF top
    <3>4. QED
      BY <3>1, <3>2, <3>3 DEF FfiType, CNA_STRUCT
  <2>. HIDE DEF t
  <2>5. stack = <<>> => t.first = NextByte /\ size = get_size(t.code)
    <3>. HIDE DEF stack
    <3>1. ASSUME stack = <<>>
          PROVE  Len(frames) = 1
      BY <2>3, <3>1, EmptySeq
    <3>2. QED
      BY <2>2, <2>4, <3>1
  <2>6. stack # <<>> => /\ stack[1].first = NextByte
                        /\ \A k \in 1 .. Len(stack) : HasMore(stack[k])
    <3>. HIDE DEF stack
    <3>1. ASSUME stack # <<>>
          PROVE  1 \in 1 .. Len(frames) - 1
      BY <2>3, <3>1, EmptySeq
    <3>2. QED
      BY <2>2, <2>3, <3>1, SMTT(60)
  <2>7. /\ t.last >= i - 1 /\ t.last < Len(argtypes)
        /\ t.last >= NextByte /\ t.last >= NextByte + 1
    BY <2>2, <2>4
  <2>. HIDE DEF stack, top
  <2>8. QED
    BY <2>1, <2>3, <2>4, <2>5, <2>6, <2>7, DeliverKeeps
<1>8. CASE check_sizes
  <2>1. pc = "loop" /\ NextByte = Len(argtypes)
    BY <1>8 DEF check_sizes, maxargs, IInv, Cursor, TypesTile, NextByte
  <2>2. CASE Fail("bad_size") \/ Fail("bad_libid")
    BY <2>1, <2>2, FailKeeps
  <2>3. ASSUME fullsize = argsLen + size, retlen' = size, pc' = "prep",
               UNCHANGED <<input, parser, arrays, arena, history>>
        PROVE  IInv'
    <3>1. UNCHANGED <<argtypes, argsLen, i, frames, ffi_types, ffi_values, fullsize, size,
                      phase, live, result, calls, failures, abandoned>>
      BY <2>3 DEF input, parser, arrays, arena, history
    <3>2. TypeOK'
      BY <2>1, <2>3, <3>1 DEF IInv, TypeOK
    <3>3. Bookkeeping'
      BY <2>1, <2>3, <3>1 DEF IInv, Bookkeeping, OnlyFailuresLeak, Reading
    <3>4. Cursor'
      BY <2>1, <2>3, <3>1, SameTypes, EmptySeq DEF IInv, Cursor, ParserInBounds, TypesTile, Reading
    <3>5. Tiling'
      BY <2>1, <2>3, <3>1, SameTypes DEF IInv, Tiling, RetvalSized
    <3>6. QED
      BY <3>2, <3>3, <3>4, <3>5 DEF IInv
  <2>4. QED
    BY <1>8, <2>2, <2>3 DEF check_sizes
<1>9. CASE prepare_call
  <2>1. pc = "prep" /\ NextByte = Len(argtypes) /\ retlen = size
    BY <1>9 DEF prepare_call, IInv, Cursor, Tiling
  <2>2. CASE Fail("bad_cif") \/ Fail("no_entry")
    BY <2>1, <2>2, FailKeeps
  <2>3. ASSUME retlen' \in IF SizeUnknown THEN HeaderSizes \ {0} ELSE {retlen},
               pc' = "invoke",
               UNCHANGED <<input, parser, arrays, arena, history>>
        PROVE  IInv'
    <3>1. UNCHANGED <<argtypes, argsLen, i, frames, ffi_types, ffi_values, fullsize, size,
                      phase, live, result, calls, failures, abandoned>>
      BY <2>3 DEF input, parser, arrays, arena, history
    <3>2. retlen' \in Nat /\ (SizeUnknown => retlen' > 0) /\ (~SizeUnknown => retlen' = size)
      BY <2>1, <2>3
    <3>3. TypeOK'
      BY <2>1, <2>3, <3>1, <3>2 DEF IInv, TypeOK
    <3>4. Bookkeeping'
      BY <2>1, <2>3, <3>1 DEF IInv, Bookkeeping, OnlyFailuresLeak, Reading
    <3>5. Cursor'
      BY <2>1, <2>3, <3>1, SameTypes DEF IInv, Cursor, ParserInBounds, TypesTile, Reading
    <3>6. RetvalSized'
      <4>1. /\ argtypes # <<>>
            /\ ffi_types # <<>>
            /\ ReturnType.code \in Scalar \cup {CNA_VOID, CNA_STRUCT}
            /\ size = get_size(ReturnType.code)
        <5>1. argtypes # <<>> /\ Len(argtypes) \in Nat \ {0}
          BY <2>1, EmptySeq DEF IInv, TypeOK
        <5>2. ffi_types # <<>>
          BY <2>1, <5>1 DEF NextByte
        <5>3. Len(ffi_types) \in 1 .. Len(ffi_types)
          BY <5>2, EmptySeq DEF IInv, TypeOK
        <5>4. QED
          BY <2>1, <5>1, <5>2, <5>3 DEF IInv, Tiling, ReturnType
      <4>2. ReturnType.code \in Scalar =>
                /\ get_size(ReturnType.code) > 0
                /\ ReturnType.code # CNA_STRUCT
        <5>1. ASSUME ReturnType.code \in Scalar
              PROVE  /\ get_size(ReturnType.code) = SizeOf[ReturnType.code]
                     /\ SizeOf[ReturnType.code] \in Nat \ {0}
                     /\ ReturnType.code \in 1 .. 15
          BY <5>1 DEF get_size
        <5>2. QED
          BY <5>1 DEF CNA_STRUCT
      <4>3. ReturnType.code \in {CNA_VOID, CNA_STRUCT} => get_size(ReturnType.code) = 0
        BY DEF get_size, CNA_STRUCT, CNA_VOID
      <4>4. SizeUnknown <=> ReturnType.code = CNA_STRUCT
        BY <2>1, <4>1, <4>2, <4>3 DEF SizeUnknown, CNA_STRUCT, CNA_VOID
      <4>5. QED
        BY <3>1, <3>2, <4>1, <4>4, SameTypes DEF RetvalSized
    <3>7. Tiling'
      BY <2>1, <2>3, <3>1, <3>6, SameTypes DEF IInv, Tiling
    <3>8. QED
      BY <3>3, <3>4, <3>5, <3>7 DEF IInv
  <2>4. QED
    BY <1>9, <2>2, <2>3 DEF prepare_call
<1>10. CASE ffi_call
  <2>1. /\ pc = "invoke" /\ pc' = "release" /\ phase' = "draining"
        /\ UNCHANGED <<argtypes, argsLen, i, frames, ffi_types, ffi_values, fullsize, size,
                       retlen, live, result, calls, failures, abandoned>>
    BY <1>10 DEF ffi_call, Mem!Drain, input, parser, arrays, history
  <2>2. TypeOK'
    BY <2>1 DEF IInv, TypeOK
  <2>3. Bookkeeping'
    BY <2>1 DEF IInv, Bookkeeping, OnlyFailuresLeak, Reading
  <2>4. Cursor'
    BY <2>1, SameTypes DEF IInv, Cursor, ParserInBounds, TypesTile, Reading, HasMore
  <2>5. Tiling'
    BY <2>1, SameTypes DEF IInv, Tiling, RetvalSized
  <2>6. QED
    BY <2>2, <2>3, <2>4, <2>5 DEF IInv
<1>11. CASE free_storage
  <2>1. pc = "release"
    BY <1>11 DEF free_storage
  <2>2. ASSUME NEW b \in Block, Mem!Release(b),
               UNCHANGED <<pc, input, parser, arrays, retlen, history>>
        PROVE  IInv'
    <3>1. /\ live' \subseteq Block /\ pc' = "release"
          /\ UNCHANGED <<pc, argtypes, argsLen, i, frames, ffi_types, ffi_values, fullsize, size,
                         retlen, phase, result, calls, failures, abandoned>>
      BY <2>1, <2>2 DEF Mem!Release, input, parser, arrays, history, IInv, TypeOK
    <3>2. TypeOK'
      BY <3>1 DEF IInv, TypeOK
    <3>3. Bookkeeping'
      BY <3>1 DEF IInv, Bookkeeping, OnlyFailuresLeak, Reading
    <3>4. Cursor'
      BY <2>1, <3>1, SameTypes, SMTT(60) DEF IInv, Cursor, ParserInBounds, TypesTile, Reading, HasMore
    <3>5. Tiling'
      BY <2>1, <3>1, SameTypes, SMTT(60) DEF IInv, Tiling, RetvalSized
    <3>6. QED
      BY <3>2, <3>3, <3>4, <3>5 DEF IInv
  <2>3. ASSUME Mem!Close, Return("success")
        PROVE  IInv'
    <3>1. phase' = "closed" /\ live' \subseteq Block
      BY <2>3 DEF Mem!Close, IInv, TypeOK
    <3>2. QED
      BY <2>1, <2>3, <3>1, ReturnKeeps
  <2>4. QED
    BY <1>11, <2>2, <2>3 DEF free_storage
<1>12. CASE UNCHANGED vars
  <2>1. UNCHANGED <<pc, argtypes, argsLen, i, frames, ffi_types, ffi_values, fullsize, size,
                    retlen, phase, live, result, calls, failures, abandoned>>
    BY <1>12 DEF vars, input, parser, arrays, arena, history
  <2>2. TypeOK'
    BY <2>1 DEF IInv, TypeOK
  <2>3. Bookkeeping'
    BY <2>1 DEF IInv, Bookkeeping, OnlyFailuresLeak, Reading
  <2>4. Cursor'
    <3>1. \A k : HasMore(frames[k])' <=> HasMore(frames[k])
      BY <2>1 DEF HasMore
    <3>2. ParserInBounds' /\ TypesTile'
      <4>1. ParserInBounds'
        BY <2>1 DEF IInv, Cursor, ParserInBounds
      <4>2. TypesTile'
        BY <2>1, SameTypes, ZenonT(60) DEF IInv, Cursor, TypesTile
      <4>3. QED
        BY <4>1, <4>2
    <3>3. Reading' <=> Reading
      BY <2>1 DEF Reading
    <3>4. QED
      BY <2>1, <3>1, <3>2, <3>3, SameTypes DEF IInv, Cursor
  <2>5. Tiling'
    BY <2>1, SameTypes, SMTT(60) DEF IInv, Tiling, RetvalSized
  <2>6. QED
    BY <2>2, <2>3, <2>4, <2>5 DEF IInv
<1>13. QED
  BY <1>1, <1>2, <1>3, <1>4, <1>5, <1>6, <1>7, <1>8, <1>9, <1>10, <1>11, <1>12
  DEF Next, Step

LEMMA Invariance == Spec => []IInv
<1>1. Init => IInv
  BY InitIInv
<1>2. IInv /\ [Next]_vars => IInv'
  BY NextIInv
<1>3. QED
  BY <1>1, <1>2, PTL DEF Spec

-----------------------------------------------------------------------------
(* No call, whatever it is given, puts a variable outside its type. *)
THEOREM TypeCorrect == Spec => []TypeOK
BY Invariance, PTL DEF IInv

(* The cursor and the local arrays of cna.c:301-330 stay in bounds. *)
THEOREM NoOverrun == Spec => []ParserInBounds
BY Invariance, PTL DEF IInv, Cursor

(* However structures nest, the types the loop reads tile the type string. *)
THEOREM ParsesInOrder == Spec => []TypesTile
BY Invariance, PTL DEF IInv, Cursor

(* Every argument libffi is given is behind the one before it and its header, *)
(* as size_t counts, and has the size of its type if that is a scalar; unless *)
(* a sum of header and length has wrapped, arguments and headers tile the     *)
(* buffer exactly and none lies outside of it (cna.c:307, 322-338).           *)
THEOREM ArgumentsInBuffer == Spec => []ArgsTile
<1>1. IInv => ArgsTile
  <2>1. SUFFICES ASSUME IInv, pc \in {"prep", "invoke"}
                 PROVE  ArgsTile
    BY DEF ArgsTile
  <2>. DEFINE m == Len(ffi_values)
  <2>2. NextByte = Len(argtypes) /\ fullsize = argsLen + size /\ argsLen \in ArgsLengths
    BY <2>1 DEF IInv, Cursor, Tiling
  <2>3. /\ Len(ffi_types) = m + 1
        /\ fullsize = Wrap(Consumed + size)
        /\ size = get_size(ReturnType.code)
    BY <2>1, <2>2, Facts DEF IInv, Tiling
  <2>4. ASSUME NEW k \in 1 .. m
        PROVE  ffi_values[k] \in Value /\ End(k) \in Nat
    <3>1. ffi_values[k] \in Value
      BY <2>1, <2>4, Facts, ElementOfSeq DEF IInv, TypeOK
    <3>2. k # 0
      BY <2>1, <2>4, Facts
    <3>3. QED
      BY <3>1, <3>2 DEF End, Value
  <2>5. \A k \in 0 .. m : End(k) \in Nat
    <3>1. End(0) = 0
      BY DEF End
    <3>2. \A k \in 0 .. m : k = 0 \/ k \in 1 .. m
      BY <2>1, Facts
    <3>3. QED
      BY <2>4, <3>1, <3>2
  <2>6. Consumed = argsLen
    <3>1. Consumed \in 0 .. SizeTValues - 1
      <4>1. m \in 0 .. m
        BY <2>1, Facts
      <4>2. End(m) \in Nat
        BY <2>5, <4>1
      <4>3. QED
        BY <4>2, Wrapping DEF Consumed
    <3>2. size \in Nat /\ argsLen \in Nat /\ argsLen + size < SizeTValues
      <4>1. CASE ReturnType.code \in Scalar
        <5>1. size = SizeOf[ReturnType.code] /\ SizeOf[ReturnType.code] \in Nat
          BY <2>3, <4>1 DEF get_size
        <5>2. QED
          BY <2>2, <4>1, <5>1, SizeTAssumption
      <4>2. CASE ReturnType.code \notin Scalar
        <5>1. size = 0
          BY <2>3, <4>2 DEF get_size
        <5>2. QED
          BY <2>2, <5>1, SizeTAssumption
      <4>3. QED
        BY <4>1, <4>2
    <3>3. Wrap(Consumed + size) = argsLen + size
      BY <2>2, <2>3
    <3>4. QED
      BY <3>1, <3>2, <3>3, SameSum
  <2>7. ASSUME AllCountable
        PROVE  /\ \A k \in 1 .. m : ffi_values[k].at = End(k - 1) + Header(k) /\ End(k) <= argsLen
               /\ End(m) = argsLen
    <3>1. ASSUME NEW k \in 1 .. m
          PROVE  /\ ffi_values[k].at = End(k - 1) + Header(k)
                 /\ End(k) < SizeTValues
      <4>1. Header(k) \in Nat
        BY DEF Header
      <4>2. End(k - 1) \in Nat /\ ffi_values[k].size \in Nat
        <5>1. k - 1 \in 0 .. m
          BY <2>1, <3>1, Facts
        <5>2. QED
          BY <2>4, <2>5, <5>1 DEF Value
      <4>3. End(k - 1) + Header(k) + ffi_values[k].size < SizeTValues
        BY <2>7 DEF AllCountable, Countable
      <4>4. Wrap(End(k - 1)) = End(k - 1) /\ Wrap(End(k - 1) + Header(k)) = End(k - 1) + Header(k)
        BY <4>1, <4>2, <4>3, Uncut
      <4>5. ffi_values[k].at = End(k - 1) + Header(k)
        BY <2>1, <4>4 DEF IInv, Tiling
      <4>6. End(k) = ffi_values[k].at + ffi_values[k].size
        BY <2>1, Facts DEF End
      <4>7. QED
        BY <4>3, <4>5, <4>6
    <3>2. End(m) < SizeTValues
      <4>1. CASE m = 0
        BY <4>1, Wrapping DEF End
      <4>2. CASE m # 0
        <5>1. m \in 1 .. m
          BY <2>1, <4>2, Facts
        <5>2. QED
          BY <3>1, <5>1
      <4>3. QED
        BY <4>1, <4>2
    <3>3. End(m) = argsLen
      <4>1. m \in 0 .. m
        BY <2>1, Facts
      <4>2. QED
        BY <2>5, <2>6, <3>2, <4>1, Wrapping DEF Consumed
    <3>4. \A k \in 1 .. m : End(k) <= End(m)
      BY <2>1, <2>7 DEF IInv, Tiling
    <3>5. QED
      BY <3>1, <3>3, <3>4
  <2>8. QED
    BY <2>1, <2>3, <2>6, <2>7 DEF ArgsTile, IInv, Tiling, Consumed, AllCountable
<1>2. QED
  BY <1>1, Invariance, PTL

(* The buffer of the result has the size of its type when the call is made. *)
THEOREM ResultHasRoom == Spec => []RetvalSized
BY Invariance, PTL DEF IInv, Tiling

(* Exactly the calls that fail leak their storage. *)
THEOREM LeaksAreFailures == Spec => []OnlyFailuresLeak
BY Invariance, PTL DEF IInv, Bookkeeping

-----------------------------------------------------------------------------
(* S[k]: the types still to be read in the structures frames[1], ..., frames[k], the one that is *)
(* being read in each of them but the last left out.                                             *)
Balanced(stack, S) ==
    /\ S \in [1 .. Len(stack) -> Nat]
    /\ \A k \in 1 .. Len(stack) :
        /\ S[k] = (IF k = 1 THEN 0 ELSE S[k - 1] - 1) + (stack[k].n - stack[k].j)
        /\ k < Len(stack) => S[k] >= 1

(* What is left of w from a on is what has to be, with these structures being read. *)
Left(w, stack, S, a) == IF stack = <<>> THEN Ends(w, a) ELSE Follows(w, a, S[Len(stack)])

(* The invariant: what has been read is right, and all depends on the rest. *)
ReadsOn ==
    /\ Len(argtypes) <= MaxLength
    /\ Reading \/ pc = "loop" =>
        \E S : Balanced(frames, S) /\ (argtypes \in WellFormed <=> Left(argtypes, frames, S, i))
    /\ pc \in {"prep", "invoke", "release"} => argtypes \in WellFormed

(* How this step answers, if it returns. *)
Answers ==
    pc # "idle" /\ pc' = "idle" => (result' = "bad_type" <=> argtypes \notin WellFormed)

LEMMA FailAnswers ==
    ASSUME NEW r, Fail(r) \/ Return(r), r = "bad_type" <=> argtypes \notin WellFormed
    PROVE  ReadsOn' /\ Answers
<1>1. pc' = "idle" /\ argtypes' = <<>> /\ result' = r
  BY DEF Fail, Return
<1> QED
  BY <1>1, EmptySeq, LengthsAssumption DEF ReadsOn, Answers, Reading

(* A step of the reader that goes on. *)
LEMMA GoesOn ==
    ASSUME ReadsOn, argtypes' = argtypes, Reading' \/ pc' = "loop",
           NEW S, Balanced(frames', S),
           argtypes \in WellFormed <=> Left(argtypes, frames', S, i')
    PROVE  ReadsOn' /\ Answers
BY DEF ReadsOn, Answers, Reading

(* The top structure of a stack counts one more element read. *)
LEMMA OneRead ==
    ASSUME NEW stack \in Seq(Frame), stack # <<>>, NEW S, Balanced(stack, S), S[Len(stack)] >= 1,
           NEW new \in Seq(Frame), Len(new) = Len(stack),
           \A k \in 1 .. Len(stack) :
                new[k].n = stack[k].n /\ new[k].j = stack[k].j + (IF k = Len(stack) THEN 1 ELSE 0)
    PROVE  \E T : Balanced(new, T) /\ T[Len(new)] = S[Len(stack)] - 1
<1>. DEFINE L == Len(stack)
            T == [k \in 1 .. L |-> IF k = L THEN S[k] - 1 ELSE S[k]]
<1>0. L \in Nat \ {0} /\ L \in 1 .. L
  BY EmptySeq
<1>1. \A k \in 1 .. L : S[k] \in Nat
  BY DEF Balanced
<1>2. \A k \in 1 .. L : stack[k].n \in Nat /\ stack[k].j \in Nat
  <2>1. \A k \in 1 .. L : stack[k] \in Frame
    BY ElementOfSeq
  <2>2. \A c \in 0 .. 255 : c \in Nat
    OBVIOUS
  <2> QED
    BY <2>1, <2>2 DEF Frame
<1>3. T \in [1 .. L -> Nat]
  BY <1>0, <1>1
<1>4. ASSUME NEW k \in 1 .. L
      PROVE  /\ T[k] = (IF k = 1 THEN 0 ELSE T[k - 1] - 1) + (new[k].n - new[k].j)
             /\ k < L => T[k] >= 1
  <2>0. k \in Nat /\ k - 1 # L /\ (k # 1 => k - 1 \in 1 .. L)
    BY <1>0
  <2>1. S[k] = (IF k = 1 THEN 0 ELSE S[k - 1] - 1) + (stack[k].n - stack[k].j) /\ (k < L => S[k] >= 1)
    BY DEF Balanced
  <2>2. k # 1 => T[k - 1] = S[k - 1] /\ S[k - 1] \in Nat
    BY <1>1, <2>0
  <2>3. T[k] = IF k = L THEN S[k] - 1 ELSE S[k]
    OBVIOUS
  <2>4. PICK n \in Nat, j \in Nat : n = stack[k].n /\ j = stack[k].j
    BY <1>2
  <2>5. new[k].n = n /\ new[k].j = j + (IF k = L THEN 1 ELSE 0)
    BY <2>4
  <2>6. PICK x \in Nat : x = S[k]
    BY <1>1
  <2>7. PICK z \in Int : z = IF k = 1 THEN 0 ELSE S[k - 1] - 1
    BY <2>2
  <2>8. z = IF k = 1 THEN 0 ELSE T[k - 1] - 1
    BY <2>2, <2>7
  <2>. HIDE DEF T, L
  <2>9. x = z + (n - j) /\ (k < L => x >= 1)
    BY <2>1, <2>4, <2>6, <2>7
  <2>10. T[k] = z + (new[k].n - new[k].j) /\ (k < L => T[k] >= 1)
    <3>1. CASE k = L
      <4>1. T[k] = x - 1 /\ new[k].n = n /\ new[k].j = j + 1
        BY <2>3, <2>5, <2>6, <3>1
      <4> QED
        BY <1>0, <2>0, <2>9, <3>1, <4>1
    <3>2. CASE k # L
      <4>1. T[k] = x /\ new[k].n = n /\ new[k].j = j
        BY <2>3, <2>5, <2>6, <3>2
      <4> QED
        BY <2>9, <4>1
    <3> QED
      BY <3>1, <3>2
  <2> QED
    BY <2>8, <2>10
<1>5. T[L] = S[L] - 1
  BY <1>0
<1>. HIDE DEF T
<1>6. Balanced(new, T)
  BY <1>3, <1>4 DEF Balanced
<1> QED
  BY <1>5, <1>6

(* A type t has been read for the structures of stack. *)
LEMMA DeliverReads ==
    ASSUME IInv, ReadsOn, NEW t \in FfiType, NEW stack \in Seq(Frame), NEW S, Balanced(stack, S),
           stack # <<>> => S[Len(stack)] >= 1,
           IF t.code = CNA_VOID /\ (stack # <<>> \/ ~isReturn(t))
           THEN argtypes \notin WellFormed
           ELSE argtypes \in WellFormed <=>
                    IF stack = <<>> THEN Ends(argtypes, t.last + 1)
                                    ELSE Follows(argtypes, t.last + 1, S[Len(stack)] - 1),
           Deliver(t, stack)
    PROVE  ReadsOn' /\ Answers
<1>1. CASE Fail("bad_type") /\ t.code = CNA_VOID /\ (stack # <<>> \/ ~isReturn(t))
  BY <1>1, FailAnswers
<1>2. CASE stack = <<>> /\ ~(t.code = CNA_VOID /\ ~isReturn(t))
  <2>1. argtypes' = argtypes /\ i' = t.last + 1 /\ frames' = <<>> /\ pc' = "loop"
    BY <1>2 DEF Deliver, Argument, After, input
  <2>2. Balanced(frames', [k \in 1 .. 0 |-> 0])
    BY <2>1, EmptySeq DEF Balanced
  <2>3. argtypes \in WellFormed <=> Ends(argtypes, i')
    BY <1>2, <2>1
  <2> QED
    BY <2>1, <2>2, <2>3, GoesOn DEF Left
<1>3. CASE stack # <<>> /\ t.code # CNA_VOID
  <2>. DEFINE top == stack[Len(stack)]
              grown == [first |-> top.first, n |-> top.n, j |-> top.j + 1,
                        sized |-> top.sized /\ t.sized]
  <2>1. /\ argtypes' = argtypes /\ i' = t.last + 1 /\ pc' = "elements"
        /\ frames' = [stack EXCEPT ![Len(stack)] = grown]
    BY <1>3 DEF Deliver, Element, BadElement, After, input
  <2>2. Len(stack) \in Nat \ {0} /\ Len(stack) \in 1 .. Len(stack)
    BY <1>3, EmptySeq
  <2>3. top \in Frame
    BY <2>2, ElementOfSeq
  <2>4. grown.n = top.n /\ grown.j = top.j + 1
    OBVIOUS
  <2>5. grown \in [first : Nat, n : 0 .. 255, j : Nat, sized : BOOLEAN]
    <3>1. (top.sized /\ t.sized) \in BOOLEAN
      BY Zenon
    <3>2. top.first \in Nat /\ top.n \in 0 .. 255 /\ top.j \in Nat
      BY <2>3 DEF Frame
    <3>. HIDE DEF top
    <3>3. top.j + 1 \in Nat
      BY <3>2
    <3> QED
      BY <3>1, <3>2, <3>3
  <2>. HIDE DEF grown
  <2>6. /\ frames' \in Seq(Frame)
        /\ Len(frames') = Len(stack)
        /\ \A k \in 1 .. Len(stack) : frames'[k] = IF k = Len(stack) THEN grown ELSE stack[k]
    BY <2>1, <2>2, <2>5, ExceptSeq DEF Frame
  <2>7. ASSUME NEW k \in 1 .. Len(stack)
        PROVE  frames'[k].n = stack[k].n /\ frames'[k].j = stack[k].j + (IF k = Len(stack) THEN 1 ELSE 0)
    <3>1. CASE k = Len(stack)
      BY <2>4, <2>6, <3>1
    <3>2. CASE k # Len(stack)
      <4>1. frames'[k] = stack[k]
        BY <2>6, <3>2
      <4>2. stack[k].j \in Nat
        <5>1. stack[k] \in Frame
          BY ElementOfSeq
        <5> QED
          BY <5>1 DEF Frame
      <4> QED
        BY <3>2, <4>1, <4>2
    <3> QED
      BY <3>1, <3>2
  <2>8. PICK T : Balanced(frames', T) /\ T[Len(frames')] = S[Len(stack)] - 1
    <3>1. S[Len(stack)] >= 1
      BY <1>3
    <3> QED
      BY <1>3, <2>6, <2>7, <3>1, OneRead
  <2>9. frames' # <<>>
    BY <2>2, <2>6, EmptySeq
  <2>10. argtypes \in WellFormed <=> Left(argtypes, frames', T, i')
    BY <1>3, <2>1, <2>8, <2>9 DEF Left
  <2> QED
    BY <2>1, <2>8, <2>10, GoesOn DEF Reading
<1> QED
  BY <1>1, <1>2, <1>3 DEF Deliver, Argument, Element, BadElement

LEMMA StepReads == IInv /\ ReadsOn /\ [Next]_vars => ReadsOn' /\ Answers
<1>. SUFFICES ASSUME IInv, ReadsOn, [Next]_vars
              PROVE  ReadsOn' /\ Answers
  OBVIOUS
<1>. DEFINE w == argtypes
            L == Len(argtypes)
            Sig == argtypes \in WellFormed
<1>0. /\ L \in Nat /\ w \in Word /\ i \in Nat /\ i <= L /\ (pc # "idle" => L # 0)
      /\ frames \in Seq(Frame) /\ Len(frames) \in Nat /\ (frames # <<>> => Len(frames) # 0)
  <2>1. w \in Seq(0 .. 255) /\ (pc = "idle" \/ w # <<>>) /\ frames \in Seq(Frame)
    BY DEF IInv, TypeOK
  <2>2. i <= L
    BY DEF IInv, Cursor, ParserInBounds
  <2> QED
    BY <2>1, <2>2, Facts, EmptySeq DEF Word, ReadsOn
<1>a. \A k \in 1 .. Len(frames) : frames[k].n \in Nat /\ frames[k].j \in Nat /\ frames[k].j <= frames[k].n
  <2>1. \A k \in 1 .. Len(frames) : frames[k] \in Frame /\ frames[k].j <= frames[k].n
    <3>1. \A k \in 1 .. Len(frames) : frames[k] \in Frame
      BY <1>0, ElementOfSeq
    <3> QED
      BY <3>1 DEF IInv, TypeOK
  <2>2. \A c \in 0 .. 255 : c \in Nat
    OBVIOUS
  <2> QED
    BY <2>1, <2>2 DEF Frame
<1>1. CASE call_function
  <2>1. /\ pc = "idle" /\ pc' = "loop" /\ argtypes' \in TypeStrings
        /\ UNCHANGED <<i, frames>>
    BY <1>1 DEF call_function, parser
  <2>2. i = 0 /\ frames = <<>>
    BY <2>1 DEF IInv, Cursor
  <2>3. argtypes' \in Word /\ argtypes' # <<>> /\ Len(argtypes') # 0 /\ Len(argtypes') <= MaxLength
    <3>1. argtypes' \in Seq(0 .. 255) /\ argtypes' # <<>>
      BY <2>1, InputsAssumption
    <3>2. Len(argtypes') <= MaxLength
      BY <2>1, LengthsAssumption
    <3>3. Len(argtypes') # 0
      BY <3>1, EmptySeq
    <3> QED
      BY <3>1, <3>2, <3>3 DEF Word
  <2>4. Balanced(frames', [k \in 1 .. 0 |-> 0])
    BY <2>1, <2>2, EmptySeq DEF Balanced
  <2>5. argtypes' \in WellFormed <=> Left(argtypes', frames', [k \in 1 .. 0 |-> 0], i')
    BY <2>1, <2>2, <2>3, WellFormedAre DEF Left, Ends
  <2> QED
    BY <2>1, <2>3, <2>4, <2>5 DEF ReadsOn, Answers, Reading
<1>. HIDE DEF w, L
<1>2. ASSUME argtypes' = argtypes, i' = i, frames' = frames,
             Reading \/ pc = "loop", Reading' \/ pc' = "loop"
      PROVE  ReadsOn' /\ Answers
  <2>1. PICK S : Balanced(frames, S) /\ (Sig <=> Left(argtypes, frames, S, i))
    BY <1>2 DEF ReadsOn
  <2>2. Balanced(frames', S) /\ (Sig <=> Left(argtypes, frames', S, i'))
    BY <1>2, <2>1
  <2> QED
    BY <1>2, <2>2, GoesOn
<1>3. CASE next_type
  BY <1>2, <1>3 DEF next_type, input, parser, Reading
<1>4. ASSUME Reading, pc # "elements"
      PROVE  \E S : /\ Balanced(frames, S)
                    /\ frames # <<>> => S[Len(frames)] - 1 \in Nat /\ S[Len(frames)] = (S[Len(frames)] - 1) + 1
                    /\ Sig <=> IF frames = <<>> THEN Ends(w, i) ELSE Follows(w, i, (S[Len(frames)] - 1) + 1)
                    /\ frames # <<>> => S[Len(frames)] >= 1
  <2>1. PICK S : Balanced(frames, S) /\ (Sig <=> Left(argtypes, frames, S, i))
    BY <1>4 DEF ReadsOn
  <2>2. ASSUME frames # <<>>
        PROVE  S[Len(frames)] \in Nat /\ S[Len(frames)] >= 1
    <3>1. PICK k \in 1 .. Len(frames) : k = Len(frames)
      BY <1>0, <2>2
    <3>2. frames[k].j < frames[k].n
      BY <1>4, <3>1 DEF IInv, Cursor, Reading, HasMore
    <3>3. k = 1 \/ (k - 1 \in 1 .. Len(frames) /\ k - 1 < Len(frames) /\ S[k - 1] \in Nat /\ S[k - 1] >= 1)
      <4>1. k = 1 \/ (k - 1 \in 1 .. Len(frames) /\ k - 1 < Len(frames))
        BY <1>0, <3>1
      <4> QED
        BY <2>1, <4>1 DEF Balanced
    <3>4. S[k] \in Nat /\ S[k] = (IF k = 1 THEN 0 ELSE S[k - 1] - 1) + (frames[k].n - frames[k].j)
      BY <2>1 DEF Balanced
    <3>5. PICK n \in Nat, j \in Nat : n = frames[k].n /\ j = frames[k].j
      BY <1>a
    <3>6. PICK z \in Nat : z = IF k = 1 THEN 0 ELSE S[k - 1] - 1
      BY <3>3
    <3>7. S[k] = z + (n - j) /\ j < n
      BY <3>2, <3>4, <3>5, <3>6
    <3> QED
      BY <3>1, <3>4, <3>7
  <2>3. frames # <<>> => S[Len(frames)] - 1 \in Nat /\ S[Len(frames)] = (S[Len(frames)] - 1) + 1
    BY <2>2
  <2> QED
    BY <2>1, <2>2, <2>3 DEF Left, w
<1>5. CASE get_ffi_type
  <2>1. pc = "type" /\ Reading
    BY <1>5 DEF get_ffi_type, Reading
  <2>2. PICK S : /\ Balanced(frames, S)
                 /\ frames # <<>> => S[Len(frames)] - 1 \in Nat /\ S[Len(frames)] = (S[Len(frames)] - 1) + 1
                 /\ Sig <=> IF frames = <<>> THEN Ends(w, i) ELSE Follows(w, i, (S[Len(frames)] - 1) + 1)
                 /\ frames # <<>> => S[Len(frames)] >= 1
    BY <1>4, <2>1
  <2>3. CASE i >= Len(argtypes)
    <3>1. i = Len(w) /\ Fail("bad_type")
      BY <1>0, <1>5, <2>3 DEF get_ffi_type, L, w
    <3>2. frames # <<>>
      BY <1>0, <2>1, <2>3, Facts DEF IInv, Cursor
    <3>3. ~Sig
      BY <1>0, <2>2, <3>1, <3>2, NothingFollowsTheEnd
    <3> QED
      BY <3>1, <3>3, FailAnswers
  <2>4. CASE ~(i >= Len(argtypes))
    <3>0. i \in 0 .. Len(w) - 1 /\ Code(i) = w[i + 1]
      BY <1>0, <2>4 DEF L, w, Code
    <3>1. CASE Code(i) \notin Scalar \cup {CNA_VOID, CNA_STRUCT} /\ Fail("bad_type")
      <4>1. ~Sig
        BY <1>0, <2>2, <3>0, <3>1, NoTypeHere
      <4> QED
        BY <3>1, <4>1, FailAnswers
    <3>2. CASE Code(i) = CNA_STRUCT /\ pc' = "struct" /\ UNCHANGED <<input, parser>>
      BY <1>2, <2>1, <3>2 DEF input, parser, Reading
    <3>3. ASSUME Code(i) \in Scalar \cup {CNA_VOID},
                 Deliver([code |-> Code(i), first |-> i, last |-> i, sized |-> TRUE], frames)
          PROVE  ReadsOn' /\ Answers
      <4>. DEFINE t == [code |-> Code(i), first |-> i, last |-> i, sized |-> TRUE]
      <4>1. t \in FfiType
        <5>1. Code(i) \in 0 .. 255
          BY <1>0, <3>0, Facts DEF w
        <5> QED
          BY <1>0, <5>1 DEF FfiType
      <4>2. t.code = Code(i) /\ t.last = i
        OBVIOUS
      <4>3. Deliver(t, frames)
        BY <3>3
      <4>. HIDE DEF t
      <4>4. isReturn(t) <=> i = Len(w) - 1
        BY <4>2 DEF isReturn, maxargs, w
      <4>5. CASE Code(i) = CNA_VOID
        <5>1. w[i + 1] \notin Scalar \cup {CNA_STRUCT}
          BY <3>0, <4>5, SizesAssumption DEF CNA_VOID, CNA_STRUCT
        <5>2. Sig <=> frames = <<>> /\ i = Len(w) - 1
          BY <1>0, <2>2, <3>0, <4>5, <5>1, NoTypeHere
        <5>3. i = Len(w) - 1 => Ends(w, i + 1)
          BY <1>0, <3>0 DEF Ends, L, w
        <5>4. IF t.code = CNA_VOID /\ (frames # <<>> \/ ~isReturn(t))
              THEN argtypes \notin WellFormed
              ELSE argtypes \in WellFormed <=>
                    IF frames = <<>> THEN Ends(argtypes, t.last + 1)
                                     ELSE Follows(argtypes, t.last + 1, S[Len(frames)] - 1)
          BY <4>2, <4>4, <4>5, <5>2, <5>3 DEF w
        <5> QED
          BY <1>0, <2>2, <4>1, <4>3, <5>4, DeliverReads
      <4>6. CASE Code(i) \in Scalar
        <5>1. Code(i) # CNA_VOID
          BY <4>6, SizesAssumption DEF CNA_VOID
        <5>2. Sig <=> IF frames = <<>> THEN Ends(w, i + 1) ELSE Follows(w, i + 1, S[Len(frames)] - 1)
          BY <1>0, <2>2, <3>0, <4>6, ScalarHere
        <5>3. IF t.code = CNA_VOID /\ (frames # <<>> \/ ~isReturn(t))
              THEN argtypes \notin WellFormed
              ELSE argtypes \in WellFormed <=>
                    IF frames = <<>> THEN Ends(argtypes, t.last + 1)
                                     ELSE Follows(argtypes, t.last + 1, S[Len(frames)] - 1)
          BY <4>2, <5>1, <5>2 DEF w
        <5> QED
          BY <1>0, <2>2, <4>1, <4>3, <5>3, DeliverReads
      <4> QED
        BY <3>3, <4>5, <4>6
    <3> QED
      BY <1>5, <2>4, <3>1, <3>2, <3>3 DEF get_ffi_type
  <2> QED
    BY <2>3, <2>4
<1>6. CASE create_ffi_struct
  <2>1. pc = "struct" /\ Reading /\ i < Len(argtypes) /\ Code(i) = CNA_STRUCT
    BY <1>6 DEF create_ffi_struct, Reading, IInv, Cursor
  <2>2. PICK S : /\ Balanced(frames, S)
                 /\ frames # <<>> => S[Len(frames)] - 1 \in Nat /\ S[Len(frames)] = (S[Len(frames)] - 1) + 1
                 /\ Sig <=> IF frames = <<>> THEN Ends(w, i) ELSE Follows(w, i, (S[Len(frames)] - 1) + 1)
                 /\ frames # <<>> => S[Len(frames)] >= 1
    BY <1>4, <2>1
  <2>3. i \in 0 .. Len(w) - 1 /\ w[i + 1] = CNA_STRUCT
    BY <1>0, <2>1 DEF L, w, Code
  <2>4. CASE i >= Len(argtypes) - 1
    <3>1. i = Len(w) - 1 /\ Fail("bad_type")
      BY <1>0, <1>6, <2>3, <2>4 DEF create_ffi_struct, L, w
    <3>2. ~Sig
      BY <1>0, <2>2, <2>3, <3>1, StructHere
    <3> QED
      BY <3>1, <3>2, FailAnswers
  <2>5. CASE ~(i >= Len(argtypes) - 1)
    <3>. DEFINE f == [first |-> i, n |-> Code(i + 1), j |-> 0, sized |-> TRUE]
                K == Len(frames)
                n == w[i + 2]
                T == [k \in 1 .. K + 1 |-> IF k = K + 1 THEN n + (IF K = 0 THEN 0 ELSE S[K] - 1) ELSE S[k]]
    <3>1. /\ argtypes' = argtypes /\ i' = i + 2 /\ pc' = "elements" /\ frames' = Append(frames, f)
      BY <1>6, <2>5 DEF create_ffi_struct, input
    <3>2. i # Len(w) - 1 /\ Code(i + 1) = n /\ n \in 0 .. 255 /\ n \in Nat
      <4>1. i + 2 \in 1 .. Len(w) /\ i # Len(w) - 1 /\ (i + 1) + 1 = i + 2
        BY <1>0, <2>5 DEF L, w
      <4> QED
        BY <1>0, <4>1, CodeIs DEF Code, w
    <3>3. f \in Frame /\ f.n = n /\ f.j = 0
      BY <1>0, <3>2 DEF Frame
    <3>4. K \in Nat /\ (K = 0 <=> frames = <<>>) /\ (K # 0 => K \in 1 .. K)
      BY <1>0, EmptySeq
    <3>. HIDE DEF f, n
    <3>5. /\ frames' \in Seq(Frame)
          /\ Len(frames') = K + 1
          /\ \A k \in 1 .. K : frames'[k] = frames[k]
          /\ frames'[K + 1] = f
      BY <1>0, <3>1, <3>3, AppendProperties
    <3>6. \A k \in 1 .. K : S[k] \in Nat
      BY <2>2 DEF Balanced
    <3>7. K # 0 => S[K] - 1 \in Nat
      BY <2>2, <3>4
    <3>8. Balanced(frames', T)
      <4>. HIDE DEF K
      <4>1. T \in [1 .. K + 1 -> Nat]
        BY <3>2, <3>4, <3>6, <3>7
      <4>2. ASSUME NEW k \in 1 .. K + 1
            PROVE  /\ T[k] = (IF k = 1 THEN 0 ELSE T[k - 1] - 1) + (frames'[k].n - frames'[k].j)
                   /\ k < K + 1 => T[k] >= 1
        <5>1. CASE k = K + 1
          <6>1. frames'[k].n = n /\ frames'[k].j = 0
            BY <3>3, <3>5, <5>1
          <6>2. k - 1 = K /\ (k = 1 <=> K = 0) /\ (K # 0 => K \in 1 .. K + 1 /\ K # K + 1)
            BY <3>4, <5>1
          <6>3. T[k] = n + (IF K = 0 THEN 0 ELSE S[K] - 1) /\ (K # 0 => T[K] = S[K])
            BY <5>1, <6>2
          <6>. HIDE DEF T
          <6>4. T[k] = (IF k = 1 THEN 0 ELSE T[k - 1] - 1) + (n - 0)
            <7>1. CASE K = 0
              BY <3>2, <6>2, <6>3, <7>1
            <7>2. CASE K # 0
              <8>1. PICK x \in Nat : x = S[K] - 1
                BY <3>7, <7>2
              <8>2. T[k] = n + x /\ T[k - 1] - 1 = x
                BY <6>2, <6>3, <7>2, <8>1
              <8> QED
                BY <3>2, <6>2, <7>2, <8>2
            <7> QED
              BY <7>1, <7>2
          <6> QED
            BY <3>4, <5>1, <6>1, <6>4
        <5>2. CASE k # K + 1
          <6>1. k \in 1 .. K /\ (k # 1 => k - 1 \in 1 .. K + 1 /\ k - 1 # K + 1) /\ (k < K \/ k = K)
            BY <3>4, <5>2
          <6>2. frames'[k] = frames[k] /\ T[k] = S[k] /\ (k # 1 => T[k - 1] = S[k - 1])
            BY <3>5, <5>2, <6>1
          <6>3. S[k] = (IF k = 1 THEN 0 ELSE S[k - 1] - 1) + (frames[k].n - frames[k].j) /\ (k < K => S[k] >= 1)
            BY <2>2, <6>1 DEF Balanced, K
          <6>4. k = K => S[k] >= 1
            BY <2>2, <3>4, <6>1 DEF K
          <6>. HIDE DEF T
          <6> QED
            BY <6>1, <6>2, <6>3, <6>4
        <5> QED
          BY <5>1, <5>2
      <4>. HIDE DEF T
      <4> QED
        BY <3>5, <4>1, <4>2 DEF Balanced
    <3>9. T[K + 1] = n + (IF K = 0 THEN 0 ELSE S[K] - 1) /\ frames' # <<>>
      BY <3>4, <3>5, EmptySeq
    <3>. HIDE DEF T
    <3>10. Sig <=> Follows(w, i + 2, T[K + 1])
      <4>1. /\ \A m \in Nat : Follows(w, i, m + 1) <=> Follows(w, i + 2, n + m)
            /\ Ends(w, i) <=> Follows(w, i + 2, n)
        BY <1>0, <2>3, <3>2, StructHere DEF n
      <4>2. n + 0 = n
        BY <3>2
      <4> QED
        BY <2>2, <3>4, <3>7, <3>9, <4>1, <4>2
    <3>11. Sig <=> Left(argtypes, frames', T, i')
      BY <3>1, <3>5, <3>9, <3>10 DEF Left, w
    <3> QED
      BY <3>1, <3>8, <3>11, GoesOn DEF Reading
  <2> QED
    BY <2>4, <2>5
<1>7. CASE out_of_memory
  <2>1. pc' = "dead" /\ argtypes' = argtypes
    BY <1>7 DEF out_of_memory, input
  <2> QED
    BY <2>1 DEF ReadsOn, Answers, Reading
<1>8. CASE next_element
  BY <1>2, <1>8 DEF next_element, input, parser, Reading
<1>9. CASE end_struct
  <2>. DEFINE top == frames[Len(frames)]
              t == [code |-> CNA_STRUCT, first |-> top.first, last |-> LastByte,
                    sized |-> top.sized /\ top.n > 0]
              stack == SubSeq(frames, 1, Len(frames) - 1)
              K == Len(frames)
  <2>1. pc = "elements" /\ Reading /\ frames # <<>> /\ Deliver(t, stack) /\ ~HasMore(top)
    BY <1>9 DEF end_struct, Reading, IInv, Cursor
  <2>2. PICK S : Balanced(frames, S) /\ (Sig <=> Left(argtypes, frames, S, i))
    BY <2>1 DEF ReadsOn
  <2>3. /\ K \in Nat \ {0} /\ K \in 1 .. K
        /\ stack \in Seq(Frame)
        /\ Len(stack) = K - 1
        /\ \A k \in 1 .. K - 1 : stack[k] = frames[k]
    BY <1>0, <2>1, Shorter
  <2>4. t \in FfiType /\ t.code = CNA_STRUCT /\ t.last + 1 = i /\ t.code # CNA_VOID
    <3>1. top.first \in Nat
      <4>1. top \in Frame
        BY <1>0, <2>3, ElementOfSeq
      <4> QED
        BY <4>1 DEF Frame
    <3>2. (top.sized /\ top.n > 0) \in BOOLEAN
      BY Zenon
    <3>3. LastByte = i - 1 /\ i - 1 \in Nat /\ (i - 1) + 1 = i
      <4>1. i >= NextByte + 2
        BY <2>1 DEF IInv, Cursor
      <4> QED
        BY <4>1, Facts DEF LastByte
    <3>. HIDE DEF top
    <3> QED
      BY <3>1, <3>2, <3>3 DEF FfiType, CNA_STRUCT, CNA_VOID
  <2>. HIDE DEF t, stack
  <2>5. top.n \in Nat /\ top.j \in Nat /\ top.n - top.j = 0
    BY <1>a, <2>1, <2>3 DEF HasMore
  <2>6. S[K] = IF K = 1 THEN 0 ELSE S[K - 1] - 1
    <3>1. S[K] = (IF K = 1 THEN 0 ELSE S[K - 1] - 1) + (top.n - top.j)
      BY <2>2, <2>3 DEF Balanced
    <3>2. K # 1 => S[K - 1] \in Nat
      <4>1. K # 1 => K - 1 \in 1 .. K
        BY <2>3
      <4> QED
        BY <2>2, <4>1 DEF Balanced
    <3>. HIDE DEF top, K
    <3> QED
      BY <2>5, <3>1, <3>2
  <2>. DEFINE T == [k \in 1 .. K - 1 |-> S[k]]
  <2>7. Balanced(stack, T)
    <3>1. ASSUME NEW k \in 1 .. K - 1
          PROVE  /\ k \in 1 .. K /\ k < K /\ T[k] = S[k] /\ (k # 1 => k - 1 \in 1 .. K - 1 /\ T[k - 1] = S[k - 1])
      <4>1. k \in 1 .. K /\ k < K /\ (k # 1 => k - 1 \in 1 .. K - 1)
        BY <2>3
      <4> QED
        BY <4>1
    <3>2. ASSUME NEW k \in 1 .. K - 1
          PROVE  /\ S[k] \in Nat /\ S[k] >= 1
                 /\ S[k] = (IF k = 1 THEN 0 ELSE S[k - 1] - 1) + (frames[k].n - frames[k].j)
      BY <2>2, <3>1 DEF Balanced
    <3>3. T \in [1 .. K - 1 -> Nat]
      BY <3>2
    <3>. HIDE DEF T, K
    <3> QED
      BY <2>3, <3>1, <3>2, <3>3 DEF Balanced
  <2>8. stack # <<>> => K # 1 /\ T[Len(stack)] = S[K - 1] /\ S[K - 1] >= 1
    <3>1. stack # <<>> => K - 1 \in 1 .. K - 1 /\ K # 1 /\ K - 1 \in 1 .. K /\ K - 1 < K
      BY <2>3, EmptySeq
    <3> QED
      BY <2>2, <2>3, <3>1 DEF Balanced
  <2>9. stack = <<>> => K = 1
    BY <2>3, EmptySeq
  <2>. HIDE DEF T
  <2>10. Sig <=> IF stack = <<>> THEN Ends(argtypes, i) ELSE Follows(argtypes, i, T[Len(stack)] - 1)
    <3>1. Sig <=> Follows(argtypes, i, S[K])
      BY <2>1, <2>2 DEF Left
    <3>2. Follows(argtypes, i, 0) <=> Ends(argtypes, i)
      <4>1. i \in 0 .. Len(argtypes)
        BY <1>0 DEF L
      <4> QED
        BY <1>0, <4>1, FollowsNone DEF w
    <3> QED
      BY <2>6, <2>8, <2>9, <3>1, <3>2
  <2> QED
    BY <2>1, <2>3, <2>4, <2>7, <2>8, <2>10, DeliverReads
<1>10. CASE check_sizes
  <2>1. pc = "loop" /\ i = Len(argtypes) /\ frames = <<>>
    BY <1>0, <1>10 DEF check_sizes, maxargs, IInv, Cursor, L
  <2>2. Sig
    BY <2>1 DEF ReadsOn, Left, Ends
  <2>3. CASE Fail("bad_size") \/ Fail("bad_libid")
    BY <2>2, <2>3, FailAnswers
  <2>4. CASE pc' = "prep" /\ argtypes' = argtypes
    BY <2>2, <2>4 DEF ReadsOn, Answers, Reading
  <2> QED
    BY <1>10, <2>3, <2>4 DEF check_sizes, input
<1>11. CASE prepare_call
  <2>1. Sig
    BY <1>11 DEF prepare_call, ReadsOn
  <2>2. CASE Fail("bad_cif") \/ Fail("no_entry")
    BY <2>1, <2>2, FailAnswers
  <2>3. CASE pc' = "invoke" /\ argtypes' = argtypes
    BY <2>1, <2>3 DEF ReadsOn, Answers, Reading
  <2> QED
    BY <1>11, <2>2, <2>3 DEF prepare_call, input
<1>12. CASE ffi_call
  <2>1. Sig /\ pc' = "release" /\ argtypes' = argtypes
    BY <1>12 DEF ffi_call, ReadsOn, input
  <2> QED
    BY <2>1 DEF ReadsOn, Answers, Reading
<1>13. CASE free_storage
  <2>1. Sig /\ pc = "release"
    BY <1>13 DEF free_storage, ReadsOn
  <2>2. CASE pc' = pc /\ argtypes' = argtypes
    BY <2>1, <2>2 DEF ReadsOn, Answers, Reading
  <2>3. CASE Return("success")
    BY <2>1, <2>3, FailAnswers
  <2> QED
    BY <1>13, <2>2, <2>3 DEF free_storage, input
<1>14. CASE UNCHANGED vars
  <2>1. UNCHANGED <<pc, argtypes, i, frames>>
    BY <1>14 DEF vars, input, parser
  <2> QED
    BY <2>1 DEF ReadsOn, Answers, Reading
<1> QED
  BY <1>1, <1>3, <1>5, <1>6, <1>7, <1>8, <1>9, <1>10, <1>11, <1>12, <1>13, <1>14 DEF Next, Step

(* The recursive descent of get_ffi_type and create_ffi_struct accepts the strings of          *)
(* well-formed lists of types, however long they are and however deeply they nest, and fails   *)
(* on every other one (cna.c:170-247).                                                         *)
THEOREM ReadsExactlyWellFormed == Spec => AcceptsExactlyWellFormed
<1>1. Init => ReadsOn
  BY EmptySeq, LengthsAssumption DEF Init, ReadsOn, Reading
<1>2. IInv /\ ReadsOn /\ [Next]_vars => ReadsOn' /\ Answers
  BY StepReads
<1>3. IInv /\ ReadsOn /\ [Next]_vars =>
        [pc # "idle" /\ pc' = "idle" => (result' = "bad_type" <=> argtypes \notin WellFormed)]_vars
  BY <1>2 DEF Answers
<1> QED
  BY <1>1, <1>2, <1>3, Invariance, PTL DEF Spec, AcceptsExactlyWellFormed

-----------------------------------------------------------------------------
(* How far a call is from its end: the bytes to be read and the structures to be completed, the  *)
(* blocks to be freed, and the steps that only lead from one to the next.                        *)
Rank ==
    CASE pc \in {"loop", "elements"}    -> 6
      [] pc = "type"                    -> 5
      [] pc \in {"struct", "prep"}      -> 3
      [] pc = "invoke"                  -> 2
      [] OTHER                          -> 1
ToRead == IF Reading \/ pc = "loop" THEN 10 * (Len(argtypes) - i) + 2 * Len(frames) ELSE 0
StepsLeft == IF pc \in {"idle", "dead"} THEN 0 ELSE ToRead + Rank + Cardinality(live)

Finite == IsFiniteSet(live)

(* From "elements" to what follows the last byte t of a type: one byte or more is read, or a *)
(* structure is completed.                                                                    *)
LEMMA DeliverNears ==
    ASSUME IInv, Finite, Reading, NEW t \in FfiType, NEW stack \in Seq(Frame), t.last + 1 <= Len(argtypes),
           \/ pc = "type" /\ t.last = i /\ Len(stack) = Len(frames)
           \/ pc = "elements" /\ t.last + 1 = i /\ Len(stack) + 1 = Len(frames),
           Deliver(t, stack)
    PROVE  Finite' /\ StepsLeft' \in Nat /\ StepsLeft \in Nat /\ StepsLeft' < StepsLeft
<1>0. /\ Len(argtypes) \in Nat /\ i \in Nat /\ Len(frames) \in Nat /\ Len(stack) \in Nat /\ t.last \in Nat
      /\ i <= Len(argtypes)
  BY Facts, EmptySeq DEF IInv, Cursor, ParserInBounds, FfiType
<1>1. PICK c \in Nat : c = Cardinality(live)
  BY FS_CardinalityType DEF Finite
<1>2. StepsLeft = (10 * (Len(argtypes) - i) + 2 * Len(frames)) + Rank + c /\ Rank = IF pc = "type" THEN 5 ELSE 6
  <2>1. pc \in {"type", "elements"} /\ pc \notin {"idle", "dead"}
    OBVIOUS
  <2> QED
    BY <1>1, <2>1 DEF StepsLeft, ToRead, Rank, Reading
<1>3. CASE Fail("bad_type")
  <2>1. pc' = "idle" /\ live' = live
    BY <1>3 DEF Fail, Return, arena
  <2>2. StepsLeft' = 0 /\ Finite'
    BY <2>1 DEF StepsLeft, Finite
  <2> QED
    BY <1>0, <1>1, <1>2, <2>2
<1>4. CASE /\ argtypes' = argtypes /\ i' = t.last + 1 /\ live' = live
           /\ pc' \in {"loop", "elements"} /\ Len(frames') = Len(stack)
  <2>1. StepsLeft' = (10 * (Len(argtypes) - (t.last + 1)) + 2 * Len(stack)) + 6 + c /\ Finite'
    <3>1. pc' \notin {"idle", "dead"} /\ (Reading' \/ pc' = "loop") /\ Rank' = 6
      BY <1>4 DEF Reading, Rank
    <3> QED
      BY <1>1, <1>4, <3>1 DEF StepsLeft, ToRead, Finite
  <2>2. PICK x \in Nat, y \in Nat, z \in Nat, u \in Nat, v \in Nat :
            x = Len(argtypes) /\ y = i /\ z = t.last /\ u = Len(stack) /\ v = Len(frames)
    BY <1>0
  <2>3. (z = y /\ u = v /\ Rank = 5) \/ (z + 1 = y /\ u + 1 = v /\ Rank = 6)
    BY <1>2, <2>2
  <2>4. StepsLeft = (10 * (x - y) + 2 * v) + Rank + c /\ StepsLeft' = (10 * (x - (z + 1)) + 2 * u) + 6 + c
        /\ z + 1 <= x /\ y <= x
    BY <1>0, <1>2, <2>1, <2>2
  <2> QED
    BY <2>1, <2>3, <2>4
<1>5. CASE stack = <<>> /\ ~Fail("bad_type")
  <2>1. argtypes' = argtypes /\ i' = t.last + 1 /\ frames' = <<>> /\ pc' = "loop" /\ live' = live
    BY <1>5 DEF Deliver, Argument, After, input, arena
  <2> QED
    BY <1>4, <1>5, <2>1
<1>6. CASE stack # <<>> /\ ~Fail("bad_type")
  <2>. DEFINE e == [first |-> stack[Len(stack)].first, n |-> stack[Len(stack)].n,
                    j |-> stack[Len(stack)].j + 1, sized |-> stack[Len(stack)].sized /\ t.sized]
  <2>1. /\ argtypes' = argtypes /\ i' = t.last + 1 /\ pc' = "elements" /\ live' = live
        /\ frames' = [stack EXCEPT ![Len(stack)] = e]
    BY <1>6 DEF Deliver, Element, After, input, arena
  <2>. HIDE DEF e
  <2>2. Len(frames') = Len(stack)
    BY <2>1
  <2> QED
    BY <1>4, <2>1, <2>2
<1> QED
  BY <1>3, <1>5, <1>6

LEMMA AllocAdds ==
    ASSUME Finite, Alloc
    PROVE  Finite' /\ Cardinality(live') = Cardinality(live) + 1 /\ Cardinality(live) \in Nat
<1>1. PICK b \in Block : b \notin live /\ live' = live \cup {b}
  BY DEF Alloc, Mem!HandOut
<1> QED
  BY <1>1, FS_AddElement, FS_CardinalityType DEF Finite

LEMMA StepNears ==
    ASSUME IInv, Finite, Step
    PROVE  Finite' /\ StepsLeft' \in Nat /\ StepsLeft \in Nat /\ StepsLeft' < StepsLeft
<1>. DEFINE L == Len(argtypes)
            K == Len(frames)
            c == Cardinality(live)
<1>0. /\ L \in Nat /\ i \in Nat /\ i <= L /\ K \in Nat /\ c \in Nat
      /\ (pc \in {"idle", "dead"} \/ Rank \in Nat \ {0})
  BY Facts, FS_CardinalityType DEF IInv, Cursor, ParserInBounds, Finite, Rank
<1>a. ToRead \in Nat
  BY <1>0 DEF ToRead
<1>b. pc \notin {"idle", "dead"} => StepsLeft \in Nat /\ StepsLeft = ToRead + Rank + c /\ StepsLeft > 0
  BY <1>0, <1>a DEF StepsLeft
<1>c. ASSUME pc \notin {"idle", "dead"}, pc' \in {"idle", "dead"}, Finite'
      PROVE  StepsLeft' \in Nat /\ StepsLeft \in Nat /\ StepsLeft' < StepsLeft
  <2>1. StepsLeft' = 0
    BY <1>c DEF StepsLeft
  <2> QED
    BY <1>b, <1>c, <2>1
<1>d. ASSUME NEW r, Fail(r)
      PROVE  pc' \in {"idle", "dead"} /\ Finite'
  BY <1>d DEF Fail, Return, arena, Finite
<1>. HIDE DEF L, K, c
<1>1. CASE next_type
  <2>1. pc = "loop" /\ pc' = "type" /\ UNCHANGED <<argtypes, i, frames, live>>
    BY <1>1 DEF next_type, input, parser, arena
  <2>2. ToRead' = ToRead /\ Rank = 6 /\ Rank' = 5 /\ Finite'
    BY <2>1 DEF ToRead, Rank, Reading, Finite
  <2>3. StepsLeft' = ToRead + 5 + c /\ StepsLeft = ToRead + 6 + c
    BY <2>1, <2>2 DEF StepsLeft, c
  <2> QED
    BY <1>0, <1>a, <2>2, <2>3
<1>2. CASE get_ffi_type
  <2>1. pc = "type" /\ Reading
    BY <1>2 DEF get_ffi_type, Reading
  <2>2. CASE Fail("bad_type")
    BY <1>c, <1>d, <2>1, <2>2
  <2>3. CASE Code(i) = CNA_STRUCT /\ Alloc /\ pc' = "struct" /\ UNCHANGED <<input, parser>>
    <3>1. UNCHANGED <<argtypes, i, frames>>
      BY <2>3 DEF input, parser
    <3>2. ToRead' = ToRead /\ Rank = 5 /\ Rank' = 3
      BY <2>1, <2>3, <3>1 DEF ToRead, Rank, Reading
    <3>3. StepsLeft' = ToRead + 3 + Cardinality(live') /\ StepsLeft = ToRead + 5 + c
      BY <2>1, <2>3, <3>2 DEF StepsLeft, c
    <3>4. Finite' /\ Cardinality(live') = c + 1
      BY <2>3, AllocAdds DEF c
    <3> QED
      BY <1>0, <1>a, <3>3, <3>4
  <2>4. ASSUME ~(i >= Len(argtypes)), Code(i) \in Scalar \cup {CNA_VOID},
               Deliver([code |-> Code(i), first |-> i, last |-> i, sized |-> TRUE], frames)
        PROVE  Finite' /\ StepsLeft' \in Nat /\ StepsLeft \in Nat /\ StepsLeft' < StepsLeft
    <3>. DEFINE t == [code |-> Code(i), first |-> i, last |-> i, sized |-> TRUE]
    <3>1. t \in FfiType /\ t.last = i
      <4>1. i \in 0 .. Len(argtypes) - 1
        BY <1>0, <2>4 DEF L
      <4>2. Code(i) \in 0 .. 255
        BY <4>1, Facts
      <4> QED
        BY <1>0, <4>2 DEF FfiType
    <3>2. Deliver(t, frames) /\ frames \in Seq(Frame) /\ i + 1 <= Len(argtypes)
      BY <1>0, <2>4 DEF IInv, TypeOK, L
    <3>. HIDE DEF t
    <3> QED
      BY <2>1, <3>1, <3>2, DeliverNears
  <2> QED
    BY <1>2, <2>2, <2>3, <2>4 DEF get_ffi_type
<1>3. CASE create_ffi_struct
  <2>1. pc = "struct" /\ Reading
    BY <1>3 DEF create_ffi_struct, Reading
  <2>2. CASE Fail("bad_type")
    BY <1>c, <1>d, <2>1, <2>2
  <2>3. ASSUME ~(i >= Len(argtypes) - 1), Alloc, pc' = "elements", i' = i + 2, argtypes' = argtypes,
               frames' = Append(frames, [first |-> i, n |-> Code(i + 1), j |-> 0, sized |-> TRUE])
        PROVE  Finite' /\ StepsLeft' \in Nat /\ StepsLeft \in Nat /\ StepsLeft' < StepsLeft
    <3>1. Len(frames') = K + 1
      <4>. DEFINE f == [first |-> i, n |-> Code(i + 1), j |-> 0, sized |-> TRUE]
      <4>1. frames \in Seq(Frame) /\ frames' = Append(frames, f)
        BY <2>3 DEF IInv, TypeOK
      <4>. HIDE DEF f
      <4> QED
        BY <4>1 DEF K
    <3>2. ToRead' = 10 * (L - (i + 2)) + 2 * (K + 1) /\ ToRead = 10 * (L - i) + 2 * K /\ Rank = 3 /\ Rank' = 6
      BY <2>1, <2>3, <3>1 DEF ToRead, Rank, Reading, L, K
    <3>3. StepsLeft' = ToRead' + 6 + Cardinality(live') /\ StepsLeft = ToRead + 3 + c
      BY <2>1, <2>3, <3>2 DEF StepsLeft, c
    <3>4. Finite' /\ Cardinality(live') = c + 1
      BY <2>3, AllocAdds DEF c
    <3>5. i + 2 <= L
      BY <1>0, <2>3 DEF L
    <3>6. StepsLeft' = (10 * (L - (i + 2)) + 2 * (K + 1)) + 6 + (c + 1) /\ StepsLeft = (10 * (L - i) + 2 * K) + 3 + c
      BY <3>2, <3>3, <3>4
    <3> QED
      BY <1>0, <3>4, <3>5, <3>6
  <2> QED
    BY <1>3, <2>2, <2>3 DEF create_ffi_struct, input
<1>4. CASE out_of_memory
  <2>1. pc \notin {"idle", "dead"} /\ pc' = "dead" /\ live' = live
    BY <1>4 DEF out_of_memory, Mem!Die
  <2> QED
    BY <1>c, <2>1 DEF Finite
<1>5. CASE next_element
  <2>1. pc = "elements" /\ pc' = "type" /\ UNCHANGED <<argtypes, i, frames, live>>
    BY <1>5 DEF next_element, input, parser, arena
  <2>2. ToRead' = ToRead /\ Rank = 6 /\ Rank' = 5 /\ Finite'
    BY <2>1 DEF ToRead, Rank, Reading, Finite
  <2>3. StepsLeft' = ToRead + 5 + c /\ StepsLeft = ToRead + 6 + c
    BY <2>1, <2>2 DEF StepsLeft, c
  <2> QED
    BY <1>0, <1>a, <2>2, <2>3
<1>6. CASE end_struct
  <2>. DEFINE top == frames[Len(frames)]
              t == [code |-> CNA_STRUCT, first |-> top.first, last |-> LastByte,
                    sized |-> top.sized /\ top.n > 0]
              stack == SubSeq(frames, 1, Len(frames) - 1)
  <2>1. pc = "elements" /\ Reading /\ frames # <<>> /\ Deliver(t, stack) /\ i >= NextByte + 2
        /\ frames \in Seq(Frame)
    BY <1>6 DEF end_struct, Reading, IInv, Cursor, TypeOK
  <2>2. Len(frames) \in Nat \ {0} /\ Len(frames) \in 1 .. Len(frames) /\ stack \in Seq(Frame)
        /\ Len(stack) = Len(frames) - 1
    BY <2>1, Shorter
  <2>3. t \in FfiType /\ t.last + 1 = i
    <3>1. top.first \in Nat
      <4>1. top \in Frame
        BY <2>1, <2>2, ElementOfSeq
      <4> QED
        BY <4>1 DEF Frame
    <3>2. (top.sized /\ top.n > 0) \in BOOLEAN
      BY Zenon
    <3>3. LastByte = i - 1 /\ i - 1 \in Nat /\ (i - 1) + 1 = i
      BY <2>1, Facts DEF LastByte
    <3>. HIDE DEF top
    <3> QED
      BY <3>1, <3>2, <3>3 DEF FfiType, CNA_STRUCT
  <2>. HIDE DEF t, stack
  <2>4. Len(stack) + 1 = Len(frames) /\ t.last + 1 <= Len(argtypes)
    BY <1>0, <2>2, <2>3 DEF L
  <2> QED
    BY <2>1, <2>2, <2>3, <2>4, DeliverNears
<1>7. CASE check_sizes
  <2>1. pc = "loop"
    BY <1>7 DEF check_sizes
  <2>2. CASE Fail("bad_size") \/ Fail("bad_libid")
    BY <1>c, <1>d, <2>1, <2>2
  <2>3. CASE pc' = "prep" /\ UNCHANGED <<parser, arena>>
    <3>1. Rank = 6 /\ Rank' = 3 /\ ToRead' = 0 /\ live' = live /\ Finite'
      BY <2>1, <2>3 DEF Rank, ToRead, Reading, arena, Finite
    <3>2. StepsLeft' = 0 + 3 + c /\ StepsLeft = ToRead + 6 + c
      BY <2>1, <2>3, <3>1 DEF StepsLeft, c
    <3> QED
      BY <1>0, <1>a, <3>1, <3>2
  <2> QED
    BY <1>7, <2>2, <2>3 DEF check_sizes
<1>8. CASE prepare_call
  <2>1. pc = "prep"
    BY <1>8 DEF prepare_call
  <2>2. CASE Fail("bad_cif") \/ Fail("no_entry")
    BY <1>c, <1>d, <2>1, <2>2
  <2>3. CASE pc' = "invoke" /\ UNCHANGED <<parser, arena>>
    <3>1. Rank = 3 /\ Rank' = 2 /\ ToRead = 0 /\ ToRead' = 0 /\ live' = live /\ Finite'
      BY <2>1, <2>3 DEF Rank, ToRead, Reading, arena, Finite
    <3>2. StepsLeft' = 0 + 2 + c /\ StepsLeft = 0 + 3 + c
      BY <2>1, <2>3, <3>1 DEF StepsLeft, c
    <3> QED
      BY <1>0, <3>1, <3>2
  <2> QED
    BY <1>8, <2>2, <2>3 DEF prepare_call
<1>9. CASE ffi_call
  <2>1. pc = "invoke" /\ pc' = "release" /\ live' = live
    BY <1>9 DEF ffi_call, Mem!Drain
  <2>2. Rank = 2 /\ Rank' = 1 /\ ToRead = 0 /\ ToRead' = 0 /\ Finite'
    BY <2>1 DEF Rank, ToRead, Reading, Finite
  <2>3. StepsLeft' = 0 + 1 + c /\ StepsLeft = 0 + 2 + c
    BY <2>1, <2>2 DEF StepsLeft, c
  <2> QED
    BY <1>0, <2>2, <2>3
<1>10. CASE free_storage
  <2>1. pc = "release"
    BY <1>10 DEF free_storage
  <2>2. ASSUME NEW b \in Block, Mem!Release(b), pc' = pc
        PROVE  Finite' /\ StepsLeft' \in Nat /\ StepsLeft \in Nat /\ StepsLeft' < StepsLeft
    <3>1. b \in live /\ live' = live \ {b}
      BY <2>2 DEF Mem!Release
    <3>2. Finite' /\ Cardinality(live') = c - 1 /\ Cardinality(live') \in Nat
      BY <3>1, FS_RemoveElement, FS_CardinalityType DEF Finite, c
    <3>3. StepsLeft' = 0 + 1 + Cardinality(live') /\ StepsLeft = 0 + 1 + c
      BY <2>1, <2>2 DEF StepsLeft, ToRead, Rank, Reading, c
    <3> QED
      BY <1>0, <3>2, <3>3
  <2>3. CASE Mem!Close /\ Return("success")
    <3>1. pc' = "idle" /\ live' = live
      BY <2>3 DEF Mem!Close, Return
    <3> QED
      BY <1>c, <2>1, <3>1 DEF Finite
  <2> QED
    BY <1>10, <2>2, <2>3 DEF free_storage
<1> QED
  BY <1>1, <1>2, <1>3, <1>4, <1>5, <1>6, <1>7, <1>8, <1>9, <1>10 DEF Step

(* Every step of a call is nearer to its end, whatever the type string and the sizes are and     *)
(* however many blocks there are to free: no loop of call_function, get_ffi_type,                *)
(* create_ffi_struct or free_storage can run for ever.                                           *)
THEOREM EveryStepCounts ==
    Spec => [][pc # "idle" => StepsLeft' \in Nat /\ StepsLeft \in Nat /\ StepsLeft' < StepsLeft]_vars
<1>1. Init => Finite
  BY FS_EmptySet DEF Init, Mem!Init, Finite
<1>2. IInv /\ Finite /\ [Next]_vars => Finite'
  <2>. SUFFICES ASSUME IInv, Finite, [Next]_vars PROVE Finite'
    OBVIOUS
  <2>1. CASE call_function
    BY <2>1, FS_EmptySet DEF call_function, Finite
  <2>2. CASE Step
    BY <2>2, StepNears
  <2>3. CASE UNCHANGED vars
    BY <2>3 DEF vars, arena, Finite
  <2> QED
    BY <2>1, <2>2, <2>3 DEF Next
<1>3. IInv /\ Finite /\ [Next]_vars =>
        [pc # "idle" => StepsLeft' \in Nat /\ StepsLeft \in Nat /\ StepsLeft' < StepsLeft]_vars
  <2>. SUFFICES ASSUME IInv, Finite, Next, pc # "idle"
                PROVE  StepsLeft' \in Nat /\ StepsLeft \in Nat /\ StepsLeft' < StepsLeft
    OBVIOUS
  <2>1. Step
    BY DEF Next, call_function
  <2> QED
    BY <2>1, StepNears
<1> QED
  BY <1>1, <1>2, <1>3, Invariance, PTL DEF Spec
=============================================================================
