---------------------------- MODULE LayoutProofs ----------------------------
(***************************************************************************)
(* Proofs about Layout: where the class has the compiler's alignments, its *)
(* three layouts of a structure are libffi's, for every list of types.     *)
(***************************************************************************)
EXTENDS Layout, TLAPS

\* The class has the alignments of the C compiler.
AlignmentsAgree ==
    \A p \in Platforms : \A t \in DOMAIN p.sizes : GetAlignments(p, t) = p.alignments[t]

-----------------------------------------------------------------------------
(* Arithmetic of alignment. *)

\* The padding of ApplyAlignment is that of libffi's macro (cna.xml:213).
LEMMA PaddingAligns ==
    ASSUME NEW o \in Nat, NEW a \in Power
    PROVE  /\ Padding(o, a) \in Nat
           /\ ALIGN(o, a) \in Nat
           /\ o + Padding(o, a) = ALIGN(o, a)
<1>1. CASE a = 1 BY <1>1 DEF Padding, ALIGN
<1>2. CASE a = 2 BY <1>2 DEF Padding, ALIGN
<1>3. CASE a = 4 BY <1>3 DEF Padding, ALIGN
<1>4. CASE a = 8 BY <1>4 DEF Padding, ALIGN
<1>5. CASE a = 16 BY <1>5 DEF Padding, ALIGN
<1> QED BY <1>1, <1>2, <1>3, <1>4, <1>5 DEF Power

\* A coarser alignment of a larger offset is no smaller.
LEMMA AlignMonotone ==
    ASSUME NEW o \in Nat, NEW s \in Nat, NEW m \in Power, NEW a \in Power,
           o <= s, m <= a
    PROVE  ALIGN(o, m) <= ALIGN(s, a)
<1>1. CASE a = 1 BY <1>1 DEF Power, ALIGN
<1>2. CASE a = 2 BY <1>2 DEF Power, ALIGN
<1>3. CASE a = 4 BY <1>3 DEF Power, ALIGN
<1>4. CASE a = 8 BY <1>4 DEF Power, ALIGN
<1>5. CASE a = 16 BY <1>5 DEF Power, ALIGN
<1> QED BY <1>1, <1>2, <1>3, <1>4, <1>5 DEF Power

-----------------------------------------------------------------------------
(* One structure. *)

\* What holds of every structure on the stack.  Only as long as values are given do the
\* offsets of ConvertStructFromCacheToCNA and GetSizeAndAlignment agree; the string
\* is as long as the offset only if no nested structure was short, and what was short
\* once stays short.
Agrees(s) ==
    /\ s \in Struct
    /\ s.giving => s.given
    /\ s.declared = s.ffi
    /\ s.converted.maxAlign \in {0} \cup Power
    /\ s.converted.maxAlign <= s.declared.alignment
    /\ s.converted.memory <= s.converted.offset
    /\ s.converted.offset <= s.declared.size
    /\ s.giving => /\ s.converted.offset = s.declared.size
                   /\ s.converted.maxAlign = s.declared.alignment
    /\ s.given /\ s.whole => s.giving /\ s.converted.memory = s.converted.offset
    /\ s.converted.memory = s.converted.offset => \A f \in s.fields : f.from = f.at

\* What holds of every element.
Fits(e) ==
    /\ e.declared \in [size : Nat, alignment : Power]
    /\ e.ffi = e.declared
    /\ e.converted.memory \in Nat
    /\ e.converted.memory <= e.declared.size
    /\ e.whole \in BOOLEAN
    /\ e.fields \subseteq [at : Nat, from : Nat]
    /\ e.converted.memory = e.declared.size => \A f \in e.fields : f.from = f.at

LEMMA EmptyAgrees ==
    ASSUME NEW given \in BOOLEAN
    PROVE  Agrees(Empty(given))
BY DEF Agrees, Empty, Struct, Power

\* The class computes what libffi computes, for one more element.
LEMMA DeclaredIsAggregate ==
    ASSUME NEW s \in [size : Nat, alignment : {0} \cup Power],
           NEW e \in [size : Nat, alignment : Power]
    PROVE  /\ GetSizeAndAlignment(s, e) = initialize_aggregate(s, e)
           /\ initialize_aggregate(s, e) \in [size : Nat, alignment : Power]
           /\ initialize_aggregate(s, e).alignment >= e.alignment
           /\ initialize_aggregate(s, e).alignment >= s.alignment
           /\ initialize_aggregate(s, e).size >= s.size
<1>1. /\ Padding(s.size, e.alignment) \in Nat
      /\ ALIGN(s.size, e.alignment) \in Nat
      /\ s.size + Padding(s.size, e.alignment) = ALIGN(s.size, e.alignment)
  BY PaddingAligns
<1>2. Larger(s.alignment, e.alignment) \in Power
  BY DEF Larger, Power
<1>3. /\ Larger(s.alignment, e.alignment) >= e.alignment
      /\ Larger(s.alignment, e.alignment) >= s.alignment
  BY DEF Larger, Power
<1>4. ALIGN(s.size, e.alignment) + e.size \in Nat
  BY <1>1
<1>5. ALIGN(s.size, e.alignment) + e.size >= s.size
  BY <1>1
<1> QED BY <1>1, <1>2, <1>3, <1>4, <1>5 DEF GetSizeAndAlignment, initialize_aggregate

\* One more element, with a value or without.
LEMMA WithAgrees ==
    ASSUME NEW s, Agrees(s), NEW e, Fits(e), NEW type \in 1 .. 16,
           NEW given \in BOOLEAN, given => s.giving,
           given /\ e.whole => e.converted.memory = e.declared.size
    PROVE  Agrees(With(s, type, e, given))
<1> DEFINE w == With(s, type, e, given)
           at == ALIGN(s.ffi.size, e.ffi.alignment)
           from == s.converted.memory + Padding(s.converted.offset, e.declared.alignment)
           agg == initialize_aggregate(s.ffi, e.ffi)
           conv == ConvertStructFromCacheToCNA(s.converted, e.declared, e.converted.memory)
<1>1. /\ s \in Struct
      /\ s.declared = s.ffi /\ s.ffi \in [size : Nat, alignment : {0} \cup Power]
      /\ s.converted \in [offset : Nat, maxAlign : Nat, memory : Nat]
      /\ s.given \in BOOLEAN /\ s.giving \in BOOLEAN /\ s.whole \in BOOLEAN
      /\ s.elements \in Seq([type : 1 .. 16, at : Nat])
      /\ s.fields \in SUBSET [at : Nat, from : Nat]
  BY DEF Agrees, Struct
<1>2. e.ffi = e.declared /\ e.ffi \in [size : Nat, alignment : Power]
  BY DEF Fits
<1>3. /\ GetSizeAndAlignment(s.declared, e.declared) = agg
      /\ agg \in [size : Nat, alignment : Power]
      /\ agg.alignment >= e.ffi.alignment /\ agg.alignment >= s.ffi.alignment
      /\ agg.size >= s.ffi.size
  BY <1>1, <1>2, DeclaredIsAggregate
<1>4. /\ at \in Nat
      /\ Padding(s.converted.offset, e.declared.alignment) \in Nat
      /\ s.converted.offset = s.ffi.size =>
            s.converted.offset + Padding(s.converted.offset, e.declared.alignment) = at
      /\ from \in Nat
  <2>1. /\ Padding(s.converted.offset, e.ffi.alignment) \in Nat
        /\ s.converted.offset + Padding(s.converted.offset, e.ffi.alignment)
            = ALIGN(s.converted.offset, e.ffi.alignment)
    BY <1>1, <1>2, PaddingAligns
  <2>2. at \in Nat
    BY <1>1, <1>2, PaddingAligns
  <2> QED BY <1>1, <1>2, <2>1, <2>2
<1>5. CASE ~given
  <2>1. /\ w.declared = agg /\ w.ffi = agg
        /\ w.converted = s.converted
        /\ w.given = s.given /\ w.giving = FALSE /\ w.whole = FALSE
        /\ w.fields = s.fields
        /\ w.elements \in Seq([type : 1 .. 16, at : Nat])
    BY <1>1, <1>3, <1>4, <1>5 DEF With
  <2>2. w \in Struct
    <3>1. w = [declared |-> agg, converted |-> s.converted, ffi |-> agg,
               given |-> s.given, giving |-> FALSE, whole |-> FALSE,
               elements |-> w.elements, fields |-> s.fields]
      BY <1>3, <1>5 DEF With
    <3> HIDE DEF w, agg
    <3>2. agg \in [size : Nat, alignment : Nat] /\ agg \in [size : Nat, alignment : {0} \cup Power]
      BY <1>3 DEF Power
    <3> QED BY <1>1, <2>1, <3>1, <3>2 DEF Struct
  <2>3. s.converted.maxAlign <= agg.alignment
    BY <1>1, <1>3, SMTT(60) DEF Agrees, Power
  <2>4. s.converted.offset <= agg.size
    BY <1>1, <1>3 DEF Agrees
  <2> HIDE DEF w, agg
  <2>5. Agrees(w)
    BY <1>1, <2>1, <2>2, <2>3, <2>4 DEF Agrees
  <2> QED BY <2>5 DEF w
<1>6. CASE given
  <2>1. /\ s.giving /\ s.given
        /\ s.converted.offset = s.ffi.size
        /\ s.converted.maxAlign = s.ffi.alignment
    BY <1>1, <1>6 DEF Agrees
  <2>2. /\ conv.offset = agg.size
        /\ conv.maxAlign = agg.alignment
        /\ conv.memory = from + e.converted.memory
        /\ conv \in [offset : Nat, maxAlign : Nat, memory : Nat]
    <3>1. conv.offset = agg.size
      BY <1>1, <1>2, <1>4, <2>1 DEF ConvertStructFromCacheToCNA, initialize_aggregate
    <3>2. conv.maxAlign = agg.alignment
      BY <1>1, <1>2, <2>1 DEF ConvertStructFromCacheToCNA, initialize_aggregate
    <3>3. conv.memory = from + e.converted.memory
      BY DEF ConvertStructFromCacheToCNA
    <3>4. agg.size \in Nat /\ agg.alignment \in Nat /\ from + e.converted.memory \in Nat
      BY <1>3, <1>4 DEF Fits, Power
    <3> QED BY <3>1, <3>2, <3>3, <3>4 DEF ConvertStructFromCacheToCNA
  <2>3. /\ conv.memory <= conv.offset
        /\ conv.memory = conv.offset =>
              /\ s.converted.memory = s.converted.offset
              /\ e.converted.memory = e.declared.size
        /\ s.converted.memory = s.converted.offset /\ e.converted.memory = e.declared.size
              => conv.memory = conv.offset
    <3>1. conv.offset = s.converted.offset + Padding(s.converted.offset, e.declared.alignment) + e.declared.size
      BY DEF ConvertStructFromCacheToCNA
    <3>2. s.converted.memory <= s.converted.offset /\ e.converted.memory <= e.declared.size
      BY DEF Agrees, Fits
    <3>3. e.declared.size \in Nat /\ e.converted.memory \in Nat
      BY DEF Fits
    <3> DEFINE pad == Padding(s.converted.offset, e.declared.alignment)
    <3>4. /\ conv.offset = s.converted.offset + pad + e.declared.size
          /\ conv.memory = s.converted.memory + pad + e.converted.memory
      BY <2>2, <3>1
    <3>5. pad \in Nat /\ s.converted.offset \in Nat /\ s.converted.memory \in Nat
      BY <1>1, <1>4
    <3> HIDE DEF pad, conv
    <3> QED BY <3>2, <3>3, <3>4, <3>5
  <2>4. /\ w.declared = agg /\ w.ffi = agg
        /\ w.converted = conv
        /\ w.given = s.given /\ w.giving = TRUE /\ w.whole = (s.whole /\ e.whole)
        /\ w.fields = s.fields \cup {[at |-> at + f.at, from |-> from + f.from] : f \in e.fields}
        /\ w.elements \in Seq([type : 1 .. 16, at : Nat])
    BY <1>1, <1>3, <1>4, <1>6 DEF With
  <2>5. w.fields \in SUBSET [at : Nat, from : Nat]
    BY <1>1, <1>4, <2>4, SMTT(60) DEF Fits
  <2>6. w \in Struct
    <3>1. w = [declared |-> agg, converted |-> conv, ffi |-> agg,
               given |-> s.given, giving |-> TRUE, whole |-> w.whole,
               elements |-> w.elements, fields |-> w.fields]
      BY <1>3, <1>6, <2>4 DEF With
    <3>2. w.whole \in BOOLEAN
      BY <1>1, <2>4 DEF Fits
    <3> HIDE DEF w, agg, conv
    <3>3. agg \in [size : Nat, alignment : Nat] /\ agg \in [size : Nat, alignment : {0} \cup Power]
      BY <1>3 DEF Power
    <3> QED BY <1>1, <2>2, <2>4, <2>5, <3>1, <3>2, <3>3 DEF Struct
  <2>7. conv.memory = conv.offset => \A f \in w.fields : f.from = f.at
    <3> SUFFICES ASSUME conv.memory = conv.offset, NEW f \in w.fields
                 PROVE  f.from = f.at
      OBVIOUS
    <3>1. s.converted.memory = s.converted.offset /\ e.converted.memory = e.declared.size
      BY <2>3
    <3>2. from = at
      BY <1>1, <1>4, <2>1, <3>1
    <3>3. \A g \in s.fields : g.from = g.at
      BY <3>1 DEF Agrees
    <3>4. \A g \in e.fields : g.from = g.at
      BY <3>1 DEF Fits
    <3> HIDE DEF at, from, w
    <3> QED BY <2>4, <3>2, <3>3, <3>4
  <2>8. s.whole /\ e.whole => conv.memory = conv.offset
    BY <1>6, <2>1, <2>3 DEF Agrees
  <2> HIDE DEF w, conv, agg
  <2>9. Agrees(w)
    <3>1. w.giving => w.given /\ w.declared = w.ffi
      BY <2>1, <2>4
    <3>2. /\ w.converted.maxAlign \in {0} \cup Power
          /\ w.converted.maxAlign <= w.declared.alignment
      BY <1>3, <2>2, <2>4 DEF Power
    <3>3. /\ w.converted.memory <= w.converted.offset
          /\ w.converted.offset <= w.declared.size
      BY <1>3, <2>2, <2>3, <2>4
    <3>4. /\ w.giving => /\ w.converted.offset = w.declared.size
                         /\ w.converted.maxAlign = w.declared.alignment
          /\ w.whole => w.giving /\ w.converted.memory = w.converted.offset
      BY <2>2, <2>4, <2>8
    <3>5. w.converted.memory = w.converted.offset => \A f \in w.fields : f.from = f.at
      BY <2>4, <2>7
    <3> QED BY <2>4, <2>6, <3>1, <3>2, <3>3, <3>4, <3>5 DEF Agrees
  <2> QED BY <2>9 DEF w
<1> QED BY <1>5, <1>6

\* The end of a structure.
LEMMA FinishAgrees ==
    ASSUME NEW s, Agrees(s), s.declared.alignment # 0,
           s.given => s.converted.maxAlign # 0
    PROVE  /\ Agrees(Finish(s))
           /\ Fits(Finish(s))
           /\ Finish(s).given = s.given
           /\ Finish(s).elements = s.elements
           /\ s.given /\ Finish(s).whole =>
                Finish(s).converted.memory = Finish(s).declared.size
<1> DEFINE w == Finish(s)
           pad == Padding(s.converted.offset, s.converted.maxAlign)
<1>1. /\ s \in Struct
      /\ s.declared = s.ffi /\ s.ffi \in [size : Nat, alignment : Power]
      /\ s.converted \in [offset : Nat, maxAlign : Nat, memory : Nat]
      /\ s.given \in BOOLEAN /\ s.giving \in BOOLEAN /\ s.whole \in BOOLEAN
      /\ s.fields \in SUBSET [at : Nat, from : Nat]
  BY DEF Agrees, Struct
<1>2. /\ ALIGN(s.ffi.size, s.ffi.alignment) \in Nat
      /\ Padding(s.ffi.size, s.ffi.alignment) \in Nat
      /\ s.ffi.size + Padding(s.ffi.size, s.ffi.alignment) = ALIGN(s.ffi.size, s.ffi.alignment)
  BY <1>1, PaddingAligns
<1>3. /\ w.ffi = [size |-> ALIGN(s.ffi.size, s.ffi.alignment), alignment |-> s.ffi.alignment]
      /\ w.declared = w.ffi
      /\ w.ffi \in [size : Nat, alignment : Power]
      /\ w.given = s.given /\ w.giving = s.giving /\ w.whole = s.whole
      /\ w.elements = s.elements /\ w.fields = s.fields
  BY <1>1, <1>2 DEF Finish, DeclaredEnd, AggregateEnd, Struct
<1>4. CASE ~s.given
  <2>1. w.converted = s.converted
    BY <1>1, <1>4 DEF Finish, Struct
  <2>2. w \in Struct
    <3>1. w = [s EXCEPT !.declared = w.declared, !.converted = w.converted, !.ffi = w.ffi]
      BY <1>1 DEF Finish, Struct
    <3> HIDE DEF w
    <3> QED BY <1>1, <1>3, <2>1, <3>1 DEF Struct, Power
  <2>3. w.converted.offset <= w.declared.size
    BY <1>1, <1>2, <1>3, <2>1 DEF Agrees
  <2> HIDE DEF w
  <2>4. Agrees(w)
    BY <1>1, <1>3, <1>4, <2>1, <2>2, <2>3 DEF Agrees
  <2>5. w.converted.memory = w.declared.size => w.converted.memory = w.converted.offset
    BY <1>1, <1>3, <2>1, <2>3, <2>4 DEF Agrees
  <2>6. Fits(w)
    BY <1>1, <1>3, <2>1, <2>3, <2>4, <2>5 DEF Agrees, Fits
  <2> QED BY <1>3, <1>4, <2>4, <2>6 DEF w
<1>5. CASE s.given
  <2>1. /\ s.converted.maxAlign \in Power
        /\ s.converted.maxAlign <= s.ffi.alignment
        /\ s.converted.offset <= s.ffi.size
    BY <1>1, <1>5 DEF Agrees
  <2>2. /\ pad \in Nat
        /\ s.converted.offset + pad = ALIGN(s.converted.offset, s.converted.maxAlign)
    BY <1>1, <2>1, PaddingAligns
  <2>3. s.converted.offset + pad <= w.ffi.size
    BY <1>1, <1>3, <2>1, <2>2, AlignMonotone
  <2>4. w.converted = [offset |-> s.converted.offset + pad, maxAlign |-> s.converted.maxAlign,
                       memory |-> s.converted.memory + pad]
    BY <1>1, <1>5 DEF Finish, ConvertedEnd, Struct
  <2>5. w \in Struct
    <3>1. w = [s EXCEPT !.declared = w.declared, !.converted = w.converted, !.ffi = w.ffi]
      BY <1>1 DEF Finish, Struct
    <3>2. w.converted \in [offset : Nat, maxAlign : Nat, memory : Nat]
      BY <1>1, <2>2, <2>4
    <3>3. w.declared \in [size : Nat, alignment : Nat]
      BY <1>3 DEF Power
    <3>4. w.ffi \in [size : Nat, alignment : {0} \cup Power]
      BY <1>3
    <3> HIDE DEF w
    <3> QED BY <1>1, <3>1, <3>2, <3>3, <3>4 DEF Struct
  <2>6. s.giving => w.converted.offset = w.ffi.size /\ w.converted.maxAlign = w.ffi.alignment
    BY <1>1, <1>3, <2>2, <2>4 DEF Agrees
  <2>7. /\ w.converted.memory <= w.converted.offset
        /\ w.converted.memory = w.converted.offset <=> s.converted.memory = s.converted.offset
    BY <1>1, <2>2, <2>4 DEF Agrees
  <2> HIDE DEF w, pad
  <2>8. Agrees(w)
    BY <1>1, <1>3, <1>5, <2>1, <2>3, <2>4, <2>5, <2>6, <2>7 DEF Agrees
  <2>9. /\ w.converted.memory = w.declared.size => w.converted.memory = w.converted.offset
        /\ w.converted.memory <= w.declared.size
    BY <1>1, <1>3, <2>2, <2>3, <2>4, <2>7
  <2>10. Fits(w)
    BY <1>1, <1>3, <2>2, <2>4, <2>8, <2>9 DEF Agrees, Fits
  <2>11. w.whole => w.converted.memory = w.declared.size
    BY <1>3, <1>5, <2>8 DEF Agrees
  <2> QED BY <1>3, <2>8, <2>10, <2>11 DEF w
<1> QED BY <1>4, <1>5

LEMMA PlatformTyped ==
    ASSUME NEW p \in Platforms, NEW t \in DOMAIN p.sizes
    PROVE  /\ t \in 1 .. 15
           /\ p.sizes[t] \in 1 .. 255 /\ p.sizes[t] \in Nat
           /\ p.alignments[t] \in Power
<1>1. /\ DOMAIN p.sizes \subseteq 1 .. 15
      /\ p.sizes \in [DOMAIN p.sizes -> 1 .. 255]
      /\ p.alignments \in [DOMAIN p.sizes -> Power]
  BY PlatformsAssumption
<1>2. p.sizes[t] \in 1 .. 255 /\ p.alignments[t] \in Power
  BY <1>1
<1> QED BY <1>1, <1>2

\* A scalar, where the class has the compiler's alignments.
LEMMA ScalarFits ==
    ASSUME AlignmentsAgree, platform \in Platforms, NEW t \in Scalar
    PROVE  /\ Fits(ScalarElement(t))
           /\ ScalarElement(t).converted.memory = ScalarElement(t).declared.size
           /\ ScalarElement(t).ffi =
                [size |-> platform.sizes[t], alignment |-> platform.alignments[t]]
           /\ TypeSizes(t) = platform.sizes[t] /\ Alignments(t) = platform.alignments[t]
           /\ t \in 1 .. 15
<1>1. t \in 1 .. 15 /\ platform.sizes[t] \in Nat /\ platform.alignments[t] \in Power
  BY PlatformTyped DEF Scalar
<1>2. TypeSizes(t) = platform.sizes[t]
  BY <1>1 DEF TypeSizes, get_sizes, VOID
<1>3. Alignments(t) = platform.alignments[t]
  BY DEF AlignmentsAgree, Alignments, Scalar
<1> QED BY <1>1, <1>2, <1>3 DEF ScalarElement, Fits

-----------------------------------------------------------------------------
(* Where libffi puts the elements. *)

\* On platform p: the first k elements of s are scalars, and where the last of them ends.
AllScalars(p, s, k) == \A j \in 1 .. k : s.elements[j].type \in DOMAIN p.sizes
EndAt(p, s, k) ==
    IF k = 0 THEN 0 ELSE s.elements[k].at + p.sizes[s.elements[k].type]

\* Scalars at the front of a structure follow one another, and nothing is outside.
Placed(p, s) ==
    \A k \in 1 .. Len(s.elements) :
        /\ s.elements[k].type \in DOMAIN p.sizes \cup {STRUCT}
        /\ s.elements[k].at <= s.ffi.size
        /\ AllScalars(p, s, k) =>
            s.elements[k].at =
                ALIGN(EndAt(p, s, k - 1), p.alignments[s.elements[k].type])

\* A structure that is not finished ends with its last element.
Open(p, s) == AllScalars(p, s, Len(s.elements)) => s.ffi.size = EndAt(p, s, Len(s.elements))

LEMMA ElementTyped ==
    ASSUME NEW S, NEW q \in Seq(S), NEW k \in 1 .. Len(q)
    PROVE  q[k] \in S
OBVIOUS

LEMMA EmptyPlaced ==
    ASSUME NEW p, NEW given \in BOOLEAN
    PROVE  Placed(p, Empty(given)) /\ Open(p, Empty(given))
BY DEF Placed, Open, AllScalars, EndAt, Empty

LEMMA WithPlaced ==
    ASSUME NEW p, NEW s, Agrees(s), Placed(p, s), Open(p, s), NEW e, Fits(e),
           NEW type \in DOMAIN p.sizes \cup {STRUCT}, NEW given \in BOOLEAN,
           type \in DOMAIN p.sizes =>
            e.ffi = [size |-> p.sizes[type], alignment |-> p.alignments[type]]
    PROVE  Placed(p, With(s, type, e, given)) /\ Open(p, With(s, type, e, given))
<1> DEFINE w == With(s, type, e, given)
           n == Len(s.elements)
           at == ALIGN(s.ffi.size, e.ffi.alignment)
<1>1. /\ s.elements \in Seq([type : 1 .. 16, at : Nat]) /\ n \in Nat
      /\ s.ffi.size \in Nat /\ s.ffi \in [size : Nat, alignment : {0} \cup Power]
      /\ e.ffi \in [size : Nat, alignment : Power] /\ e.ffi.size \in Nat
  BY DEF Agrees, Struct, Fits
<1>2. /\ w.elements = Append(s.elements, [type |-> type, at |-> at])
      /\ w.ffi = initialize_aggregate(s.ffi, e.ffi)
  BY DEF With
<1>3. /\ Len(w.elements) = n + 1
      /\ w.elements[n + 1] = [type |-> type, at |-> at]
      /\ \A k \in 1 .. n : w.elements[k] = s.elements[k]
  BY <1>1, <1>2
<1>4. /\ w.ffi.size = at + e.ffi.size
      /\ at \in Nat /\ s.ffi.size <= at
  <2>1. w.ffi.size = at + e.ffi.size
    BY <1>2 DEF initialize_aggregate
  <2>2. /\ Padding(s.ffi.size, e.ffi.alignment) \in Nat /\ at \in Nat
        /\ s.ffi.size + Padding(s.ffi.size, e.ffi.alignment) = at
    BY <1>1, PaddingAligns
  <2> QED BY <1>1, <2>1, <2>2
<1> HIDE DEF w, at
<1>5. \A k \in 0 .. n : EndAt(p, w, k) = EndAt(p, s, k) /\ (AllScalars(p, w, k) <=> AllScalars(p, s, k))
  <2> TAKE k \in 0 .. n
  <2>1. k \in 1 .. n => w.elements[k] = s.elements[k]
    BY <1>3
  <2>2. EndAt(p, w, k) = EndAt(p, s, k)
    BY <1>1, <2>1 DEF EndAt
  <2>3. \A j \in 1 .. k : w.elements[j] = s.elements[j]
    BY <1>1, <1>3
  <2>4. AllScalars(p, w, k) <=> AllScalars(p, s, k)
    BY <2>3 DEF AllScalars
  <2> QED BY <2>2, <2>4
<1>6. AllScalars(p, w, n + 1) => AllScalars(p, s, n) /\ type \in DOMAIN p.sizes
  <2> SUFFICES ASSUME AllScalars(p, w, n + 1)
               PROVE  AllScalars(p, s, n) /\ type \in DOMAIN p.sizes
    OBVIOUS
  <2>1. \A j \in 1 .. n : j \in 1 .. n + 1 /\ w.elements[j] = s.elements[j]
    BY <1>1, <1>3
  <2>2. n + 1 \in 1 .. n + 1
    BY <1>1
  <2>3. w.elements[n + 1].type = type
    BY <1>3
  <2> QED BY <2>1, <2>2, <2>3 DEF AllScalars
<1>7. EndAt(p, w, n + 1) = at + p.sizes[type]
  BY <1>1, <1>3 DEF EndAt
<1>8. Placed(p, w)
  <2> SUFFICES ASSUME NEW k \in 1 .. n + 1
               PROVE  /\ w.elements[k].type \in DOMAIN p.sizes \cup {STRUCT}
                      /\ w.elements[k].at <= w.ffi.size
                      /\ AllScalars(p, w, k) =>
                            w.elements[k].at =
                                ALIGN(EndAt(p, w, k - 1), p.alignments[w.elements[k].type])
    BY <1>3 DEF Placed
  <2>1. CASE k = n + 1
    <3>1. AllScalars(p, w, k) => at = ALIGN(EndAt(p, w, n), p.alignments[type])
      BY <1>1, <1>5, <1>6, <2>1 DEF Open, at
    <3> QED BY <1>1, <1>3, <1>4, <2>1, <3>1, SMTT(60)
  <2>2. CASE k # n + 1
    <3>1. k \in 1 .. n /\ k \in 0 .. n /\ k - 1 \in 0 .. n
      BY <1>1, <2>2
    <3>2. w.elements[k] = s.elements[k] /\ s.elements[k] \in [type : 1 .. 16, at : Nat]
      BY <1>1, <1>3, <3>1, ElementTyped
    <3>3. s.elements[k].at <= s.ffi.size /\ s.elements[k].at \in Nat
      BY <3>1, <3>2 DEF Placed
    <3>4. s.elements[k].at <= w.ffi.size
      BY <1>1, <1>4, <3>3, SMTT(60)
    <3> QED BY <1>5, <3>1, <3>2, <3>4 DEF Placed
  <2> QED BY <2>1, <2>2
<1>9. Open(p, w)
  BY <1>3, <1>4, <1>6, <1>7 DEF Open
<1> QED BY <1>8, <1>9 DEF w

LEMMA FinishPlaced ==
    ASSUME NEW p, NEW s, Agrees(s), Placed(p, s), s.declared.alignment # 0,
           s.given => s.converted.maxAlign # 0
    PROVE  Placed(p, Finish(s))
<1>1. /\ s.elements \in Seq([type : 1 .. 16, at : Nat])
      /\ s.ffi \in [size : Nat, alignment : Power]
      /\ s \in Struct
  BY DEF Agrees, Struct
<1>2. /\ Finish(s).elements = s.elements
      /\ Finish(s).ffi.size = ALIGN(s.ffi.size, s.ffi.alignment)
  BY <1>1 DEF Finish, AggregateEnd, Struct
<1>3. s.ffi.size <= ALIGN(s.ffi.size, s.ffi.alignment) /\ ALIGN(s.ffi.size, s.ffi.alignment) \in Nat
  <2>1. s.ffi.size \in Nat /\ s.ffi.alignment \in Power
    BY <1>1
  <2>2. /\ Padding(s.ffi.size, s.ffi.alignment) \in Nat
        /\ ALIGN(s.ffi.size, s.ffi.alignment) \in Nat
        /\ s.ffi.size + Padding(s.ffi.size, s.ffi.alignment) = ALIGN(s.ffi.size, s.ffi.alignment)
    BY <2>1, PaddingAligns
  <2> QED BY <2>1, <2>2
<1>4. \A k \in 1 .. Len(s.elements) : s.elements[k].at \in Nat /\ s.ffi.size \in Nat
  <2> TAKE k \in 1 .. Len(s.elements)
  <2>1. s.elements[k] \in [type : 1 .. 16, at : Nat]
    BY <1>1, ElementTyped
  <2> QED BY <1>1, <2>1
<1>5. \A k : EndAt(p, Finish(s), k) = EndAt(p, s, k) /\ (AllScalars(p, Finish(s), k) <=> AllScalars(p, s, k))
  BY <1>2 DEF EndAt, AllScalars
<1> QED BY <1>1, <1>2, <1>3, <1>4, <1>5, SMTT(60) DEF Placed

-----------------------------------------------------------------------------
(* The inductive invariant. *)

Returned == {"return", "client", "failed"}

Layered ==
    \A k \in 1 .. Len(stack) :
        /\ Agrees(stack[k])
        /\ Placed(platform, stack[k])
        /\ pc = "type" => Open(platform, stack[k])

\* Values are given for the outermost structure, and for a nested one only as long as
\* the one around it has any; once the outermost is finished it is alone.
Rooted ==
    /\ stack # <<>> => stack[1].given
    /\ \A k \in 2 .. Len(stack) : stack[k].given => stack[k - 1].giving
    /\ pc \in {"argument"} \cup Returned =>
        /\ Len(stack) = 1
        /\ Fits(stack[1])
        /\ stack[1].whole => stack[1].converted.memory = stack[1].declared.size
    /\ pc \in Returned => stack[1].converted.memory = stack[1].declared.size

\* ConvertStructFromCNAToCache is where libffi was after the same element.
Returning ==
    /\ pc \notin Returned => i = 0 /\ offset = 0 /\ values = <<>>
    /\ pc \in Returned =>
        /\ i <= Len(stack[1].elements)
        /\ AllScalars(platform, stack[1], i)
        /\ offset = EndAt(platform, stack[1], i)
        /\ \A k \in 1 .. i : values[k].at = stack[1].elements[k].at

IInv == TypeOK /\ Layered /\ Rooted /\ Returning

LEMMA InitIInv == Init => IInv
BY DEF Init, IInv, TypeOK, Layered, Rooted, Returning, Returned

\* The topmost structure.
LEMMA TopTyped ==
    ASSUME IInv, stack # <<>>
    PROVE  /\ Len(stack) \in 1 .. Len(stack)
           /\ top \in Struct /\ Agrees(top) /\ Placed(platform, top)
           /\ pc = "type" => Open(platform, top)
<1>1. stack \in Seq(Struct)
  BY DEF IInv, TypeOK
<1>2. Len(stack) \in 1 .. Len(stack)
  BY <1>1
<1> QED BY <1>2 DEF IInv, Layered, Agrees, top

LEMMA RefuseIInv ==
    ASSUME IInv, Refuse, pc \notin Returned
    PROVE  IInv'
<1>1. TypeOK'
  BY DEF IInv, TypeOK, Refuse, result
<1>2. Layered'
  BY DEF IInv, Layered, Refuse
<1>3. Rooted' /\ Returning'
  BY DEF IInv, Rooted, Returning, Returned, Refuse, result
<1> QED BY <1>1, <1>2, <1>3 DEF IInv

\* A step that changes the topmost structure of an argument.
LEMMA TopIInv ==
    ASSUME IInv, pc = "type", NEW n \in 1 .. Len(stack), NEW s,
           Agrees(s), Placed(platform, s), Open(platform, s),
           s.given = stack[n].given,
           stack' = [SubSeq(stack, 1, n) EXCEPT ![n] = s],
           UNCHANGED <<platform, pc, result>>
    PROVE  IInv'
<1>1. stack \in Seq(Struct) /\ s \in Struct /\ n \in Nat \ {0}
  BY DEF IInv, TypeOK, Agrees
<1>2. /\ stack' \in Seq(Struct)
      /\ Len(stack') = n
      /\ stack'[n] = s
      /\ \A k \in 1 .. n - 1 : stack'[k] = stack[k]
  <2> DEFINE q == SubSeq(stack, 1, n)
  <2>1. q \in Seq(Struct) /\ Len(q) = n /\ \A k \in 1 .. n : q[k] = stack[k]
    BY <1>1
  <2>2. stack' = [q EXCEPT ![n] = s]
    OBVIOUS
  <2> HIDE DEF q
  <2> QED BY <1>1, <2>1, <2>2, SMTT(60)
<1>3. stack' # <<>>
  BY <1>1, <1>2
<1>4. TypeOK'
  <2>1. \A k \in 1 .. Len(stack') : stack'[k].giving => stack'[k].given
    BY <1>1, <1>2 DEF IInv, Layered, Agrees
  <2> QED BY <1>2, <1>3, <2>1 DEF IInv, TypeOK, result
<1>5. Layered'
  BY <1>1, <1>2 DEF IInv, Layered
<1>6. Rooted'
  <2>1. stack'[1].given
    <3>1. stack[1].given /\ 1 \in 1 .. n
      BY <1>1, <1>3 DEF IInv, Rooted, TypeOK
    <3> QED BY <1>1, <1>2, <3>1
  <2>2. \A k \in 2 .. Len(stack') : stack'[k].given => stack'[k - 1].giving
    <3> SUFFICES ASSUME NEW k \in 2 .. n, stack'[k].given
                 PROVE  stack'[k - 1].giving
      BY <1>2
    <3>1. stack[k].given
      BY <1>1, <1>2
    <3>2. stack[k - 1].giving
      BY <1>1, <3>1 DEF IInv, Rooted
    <3>3. stack'[k - 1] = stack[k - 1]
      BY <1>1, <1>2
    <3> QED BY <3>2, <3>3
  <2> QED BY <2>1, <2>2 DEF Rooted, Returned
<1>7. Returning'
  BY DEF IInv, Returning, Returned, result
<1> QED BY <1>4, <1>5, <1>6, <1>7 DEF IInv

LEMMA CheckIInv ==
    ASSUME IInv, CheckStructSupport
    PROVE  IInv'
<1>1. CASE Refuse
  BY <1>1, RefuseIInv DEF CheckStructSupport, Returned
<1>2. CASE ~Refuse
  <2> DEFINE e == Empty(TRUE)
  <2>1. /\ pc' = "type" /\ stack' = <<e>>
        /\ UNCHANGED <<platform, result>> /\ pc = "begin"
    BY <1>2 DEF CheckStructSupport
  <2>2. /\ Agrees(e) /\ Placed(platform, e) /\ Open(platform, e)
        /\ e.given
    BY EmptyAgrees, EmptyPlaced DEF Empty
  <2>3. e \in Struct
    BY <2>2 DEF Agrees
  <2> HIDE DEF e
  <2>4. /\ stack' \in Seq(Struct) /\ Len(stack') = 1 /\ stack'[1] = e
        /\ stack' # <<>>
    BY <2>1, <2>3
  <2>5. TypeOK'
    BY <2>1, <2>2, <2>4 DEF IInv, TypeOK, result
  <2>6. Layered'
    BY <2>1, <2>2, <2>4 DEF Layered
  <2>7. Rooted'
    BY <2>1, <2>2, <2>4 DEF Rooted, Returned
  <2>8. Returning'
    BY <2>1 DEF IInv, Returning, Returned, result
  <2> QED BY <2>5, <2>6, <2>7, <2>8 DEF IInv
<1> QED BY <1>1, <1>2

LEMMA ScalarIInv ==
    ASSUME AlignmentsAgree, IInv, scalar_element
    PROVE  IInv'
<1>1. pc = "type" /\ stack # <<>>
  BY DEF scalar_element, HasMore, IInv, TypeOK
<1>2. PICK t \in Scalar \cup {VOID} :
        IF Alignments(t) = 0
        THEN Refuse
        ELSE \E given \in BOOLEAN :
                /\ given => top.giving
                /\ stack' = [stack EXCEPT ![Len(stack)] = With(top, t, ScalarElement(t), given)]
                /\ UNCHANGED <<platform, pc, result>>
  BY DEF scalar_element
<1>3. CASE Alignments(t) = 0
  BY <1>1, <1>2, <1>3, RefuseIInv DEF Returned
<1>4. CASE Alignments(t) # 0
  <2>1. PICK given \in BOOLEAN :
            /\ given => top.giving
            /\ stack' = [stack EXCEPT ![Len(stack)] = With(top, t, ScalarElement(t), given)]
            /\ UNCHANGED <<platform, pc, result>>
    BY <1>2, <1>4
  <2>2. t \in Scalar
    BY <1>4 DEF Alignments, GetAlignments, get_sizes
  <2>3. platform \in Platforms
    BY DEF IInv, TypeOK
  <2> DEFINE e == ScalarElement(t)
             w == With(top, t, e, given)
  <2>4. /\ Fits(e) /\ e.converted.memory = e.declared.size
        /\ e.ffi = [size |-> platform.sizes[t], alignment |-> platform.alignments[t]]
        /\ t \in 1 .. 16
    BY <2>2, <2>3, ScalarFits
  <2> HIDE DEF e
  <2>5. /\ Len(stack) \in 1 .. Len(stack) /\ Agrees(top)
        /\ Placed(platform, top) /\ Open(platform, top)
    BY <1>1, TopTyped
  <2>6. Agrees(w)
    BY <2>1, <2>4, <2>5, WithAgrees
  <2>7. Placed(platform, w) /\ Open(platform, w)
    BY <2>2, <2>4, <2>5, WithPlaced DEF Scalar
  <2>8. w.given = top.given
    BY DEF With
  <2>9. SubSeq(stack, 1, Len(stack)) = stack
    BY DEF IInv, TypeOK
  <2>10. stack' = [SubSeq(stack, 1, Len(stack)) EXCEPT ![Len(stack)] = w]
    BY <2>1, <2>9 DEF e
  <2> HIDE DEF w
  <2> QED BY <1>1, <2>1, <2>5, <2>6, <2>7, <2>8, <2>10, TopIInv DEF top
<1> QED BY <1>3, <1>4

LEMMA BeginIInv ==
    ASSUME IInv, begin_struct
    PROVE  IInv'
<1>1. PICK given \in BOOLEAN :
        /\ given => top.giving
        /\ stack' = Append(stack, Empty(given))
  BY DEF begin_struct
<1>2. pc = "type" /\ stack # <<>> /\ UNCHANGED <<platform, pc, result>>
  BY DEF begin_struct, HasMore, IInv, TypeOK
<1> DEFINE s == Empty(given)
           n == Len(stack)
<1>3. Agrees(s) /\ Placed(platform, s) /\ Open(platform, s) /\ s \in Struct /\ s.given = given
  BY EmptyAgrees, EmptyPlaced DEF Empty, Agrees
<1>4. stack \in Seq(Struct) /\ n \in Nat \ {0}
  BY <1>2 DEF IInv, TypeOK
<1> HIDE DEF s
<1>5. /\ stack' \in Seq(Struct) /\ Len(stack') = n + 1 /\ stack'[n + 1] = s
      /\ \A k \in 1 .. n : stack'[k] = stack[k]
      /\ stack' # <<>>
  BY <1>1, <1>3, <1>4 DEF s
<1>6. \A k \in 1 .. n + 1 : k \in 1 .. n \/ k = n + 1
  BY <1>4
<1>7. TypeOK'
  <2>1. \A k \in 1 .. Len(stack') : stack'[k].giving => stack'[k].given
    BY <1>3, <1>5, <1>6 DEF IInv, Layered, Agrees
  <2> QED BY <1>2, <1>5, <2>1 DEF IInv, TypeOK, result
<1>8. Layered'
  BY <1>2, <1>3, <1>5, <1>6 DEF IInv, Layered
<1>9. Rooted'
  <2>1. stack'[1].given
    BY <1>2, <1>4, <1>5 DEF IInv, Rooted
  <2>2. \A k \in 2 .. Len(stack') : stack'[k].given => stack'[k - 1].giving
    <3> SUFFICES ASSUME NEW k \in 2 .. n + 1, stack'[k].given
                 PROVE  stack'[k - 1].giving
      BY <1>5
    <3>1. CASE k = n + 1
      BY <1>1, <1>3, <1>4, <1>5, <3>1 DEF top
    <3>2. CASE k # n + 1
      BY <1>4, <1>5, <3>2 DEF IInv, Rooted
    <3> QED BY <3>1, <3>2
  <2> QED BY <1>2, <2>1, <2>2 DEF Rooted, Returned
<1>10. Returning'
  BY <1>2 DEF IInv, Returning, Returned, result
<1> QED BY <1>7, <1>8, <1>9, <1>10 DEF IInv

LEMMA EndIInv ==
    ASSUME IInv, end_struct
    PROVE  IInv'
<1> DEFINE w == Finish(top)
           n == Len(stack)
<1>1. pc = "type" /\ stack # <<>> /\ stack \in Seq(Struct)
  BY DEF end_struct, IInv, TypeOK
<1>2. CASE Refuse
  BY <1>1, <1>2, RefuseIInv DEF Returned
<1>3. CASE ~Refuse
  <2>1. top.declared.alignment # 0 /\ (top.given => top.converted.maxAlign # 0)
    BY <1>3 DEF end_struct
  <2>2. /\ n \in 1 .. n /\ Agrees(top) /\ Placed(platform, top)
        /\ top = stack[n]
    BY <1>1, TopTyped DEF top
  <2>3. /\ Agrees(w) /\ Fits(w) /\ w.given = top.given
        /\ w.given /\ w.whole => w.converted.memory = w.declared.size
        /\ w \in Struct
    BY <2>1, <2>2, FinishAgrees DEF Agrees
  <2>4. Placed(platform, w)
    BY <2>1, <2>2, FinishPlaced
  <2>5. CASE n = 1
    <3>1. stack' = <<w>> /\ pc' = "argument" /\ UNCHANGED <<platform, result>>
      BY <1>3, <2>1, <2>5 DEF end_struct
    <3> HIDE DEF w
    <3>2. /\ stack' \in Seq(Struct) /\ Len(stack') = 1 /\ stack'[1] = w
          /\ stack' # <<>>
      BY <2>3, <3>1
    <3>3. w.given
      BY <1>1, <2>2, <2>3, <2>5 DEF IInv, Rooted
    <3>4. TypeOK'
      BY <2>3, <3>1, <3>2, <3>3 DEF IInv, TypeOK, result
    <3>5. Layered'
      BY <2>3, <2>4, <3>1, <3>2 DEF Layered
    <3>6. Rooted'
      BY <2>3, <3>1, <3>2, <3>3 DEF Rooted, Returned
    <3>7. Returning'
      BY <1>1, <3>1 DEF IInv, Returning, Returned, result
    <3> QED BY <3>4, <3>5, <3>6, <3>7 DEF IInv
  <2>6. CASE n # 1
    <3> DEFINE s == stack[n - 1]
               x == With(s, STRUCT, w, top.given)
    <3>1. n - 1 \in 1 .. n /\ n \in 2 .. n
      <4>1. n \in Nat
        BY <1>1
      <4> HIDE DEF n
      <4> QED BY <2>2, <2>6, <4>1
    <3>2. /\ SubSeq(stack, 1, n - 1) \in Seq(Struct)
          /\ Len(SubSeq(stack, 1, n - 1)) = n - 1
          /\ SubSeq(stack, 1, n - 1)[n - 1] = s
      BY <1>1, <3>1
    <3>3. /\ stack' = [SubSeq(stack, 1, n - 1) EXCEPT ![n - 1] =
                        With(SubSeq(stack, 1, n - 1)[n - 1], STRUCT, w, top.given)]
          /\ UNCHANGED <<platform, pc, result>>
      BY <1>3, <2>1, <2>6, <3>2 DEF end_struct
    <3>4. stack' = [SubSeq(stack, 1, n - 1) EXCEPT ![n - 1] = x]
      BY <3>2, <3>3
    <3>5. Agrees(s) /\ Placed(platform, s) /\ Open(platform, s)
      BY <1>1, <3>1 DEF IInv, Layered
    <3>6. top.given \in BOOLEAN /\ (top.given => s.giving)
      BY <2>2, <3>1 DEF IInv, Rooted, Agrees, Struct
    <3>7. STRUCT \in 1 .. 16 /\ STRUCT \notin DOMAIN platform.sizes
      <4>1. platform \in Platforms
        BY DEF IInv, TypeOK
      <4>2. DOMAIN platform.sizes \subseteq 1 .. 15
        BY <4>1, PlatformsAssumption
      <4> QED BY <4>2 DEF STRUCT
    <3> HIDE DEF w, s
    <3>8. Agrees(x)
      BY <2>3, <3>5, <3>6, <3>7, WithAgrees
    <3>9. Placed(platform, x) /\ Open(platform, x)
      BY <2>3, <3>5, <3>6, <3>7, WithPlaced
    <3>10. x.given = stack[n - 1].given
      BY DEF With, s
    <3> HIDE DEF x
    <3> QED BY <1>1, <3>1, <3>3, <3>4, <3>8, <3>9, <3>10, TopIInv
  <2> QED BY <2>5, <2>6
<1> QED BY <1>2, <1>3

LEMMA CallIInv ==
    ASSUME IInv, call_function
    PROVE  IInv'
<1>1. CASE Refuse
  BY <1>1, RefuseIInv DEF call_function, Returned
<1>2. CASE ~Refuse
  <2>1. /\ pc = "argument" /\ pc' = "return" /\ UNCHANGED <<platform, stack, result>>
        /\ top.declared.size = top.converted.memory
    BY <1>2 DEF call_function
  <2>2. /\ Len(stack) = 1 /\ stack # <<>> /\ i = 0 /\ offset = 0
        /\ stack[1].elements \in Seq([type : 1 .. 16, at : Nat])
    BY <2>1, TopTyped DEF IInv, Rooted, Returning, Returned, TypeOK, Struct, top
  <2>3. TypeOK'
    BY <2>1, <2>2 DEF IInv, TypeOK, result
  <2>4. Layered'
    BY <2>1 DEF IInv, Layered
  <2>5. Rooted'
    BY <2>1, <2>2 DEF IInv, Rooted, Returned, top
  <2>6. Returning'
    BY <2>1, <2>2 DEF Returning, Returned, AllScalars, EndAt, result
  <2> QED BY <2>3, <2>4, <2>5, <2>6 DEF IInv
<1> QED BY <1>1, <1>2

\* The state of the way back.
LEMMA ReturnTyped ==
    ASSUME IInv, pc = "return"
    PROVE  /\ Len(stack) = 1 /\ top = stack[1] /\ stack # <<>>
           /\ top.elements \in Seq([type : 1 .. 16, at : Nat])
           /\ top.ffi.size \in Nat
           /\ Agrees(top) /\ Placed(platform, top)
           /\ i \in Nat /\ i <= Len(top.elements) /\ offset \in Nat
           /\ AllScalars(platform, top, i) /\ offset = EndAt(platform, top, i)
           /\ Len(values) = i /\ values \in Seq([at : Nat, length : Nat])
           /\ \A k \in 1 .. i : values[k].at = top.elements[k].at
<1>1. Len(stack) = 1 /\ stack # <<>> /\ top = stack[1]
  BY DEF IInv, TypeOK, Rooted, Returned, top
<1>2. top \in Struct /\ Agrees(top) /\ Placed(platform, top)
  BY <1>1, TopTyped
<1> QED BY <1>1, <1>2 DEF IInv, TypeOK, Returning, Returned, Struct

LEMMA ConvertIInv ==
    ASSUME AlignmentsAgree, IInv, ConvertStructFromCNAToCache
    PROVE  IInv'
<1> DEFINE end == ElementEnd(TypeSizes(Element), Alignments(Element))
           value == Extract(end, TypeSizes(Element))
<1>1. /\ pc = "return" /\ i < Len(top.elements) /\ UNCHANGED <<platform, stack>>
  BY DEF ConvertStructFromCNAToCache
<1>2. /\ Len(stack) = 1 /\ top = stack[1] /\ stack # <<>>
      /\ top.elements \in Seq([type : 1 .. 16, at : Nat])
      /\ top.ffi.size \in Nat
      /\ Agrees(top) /\ Placed(platform, top)
      /\ i \in Nat /\ offset \in Nat
      /\ AllScalars(platform, top, i) /\ offset = EndAt(platform, top, i)
      /\ Len(values) = i /\ values \in Seq([at : Nat, length : Nat])
      /\ \A k \in 1 .. i : values[k].at = top.elements[k].at
  BY <1>1, ReturnTyped
<1>3. CASE pc' = "failed" /\ UNCHANGED result
  <2>1. TypeOK'
    BY <1>1, <1>2, <1>3 DEF IInv, TypeOK, result
  <2>2. Layered'
    BY <1>1, <1>3 DEF IInv, Layered
  <2>3. Rooted'
    BY <1>1, <1>3 DEF IInv, Rooted, Returned
  <2>4. Returning'
    BY <1>1, <1>2, <1>3 DEF IInv, Returning, Returned, result
  <2> QED BY <2>1, <2>2, <2>3, <2>4 DEF IInv
<1>4. CASE ~(pc' = "failed" /\ UNCHANGED result)
  <2>1. /\ Element # STRUCT
        /\ i' = i + 1 /\ offset' = end /\ values' = Append(values, value)
        /\ UNCHANGED pc
    BY <1>4 DEF ConvertStructFromCNAToCache
  <2>2. /\ i + 1 \in 1 .. Len(top.elements)
        /\ top.elements[i + 1] \in [type : 1 .. 16, at : Nat]
    <3>1. Len(top.elements) \in Nat
      BY <1>2
    <3>2. i + 1 \in 1 .. Len(top.elements)
      BY <1>1, <1>2, <3>1
    <3> QED BY <1>2, <3>2, ElementTyped
  <2>3. Element \in Scalar /\ top.elements[i + 1].at <= top.ffi.size
    BY <1>2, <2>1, <2>2 DEF Placed, Element, Scalar
  <2>4. AllScalars(platform, top, i + 1)
    <3> SUFFICES ASSUME NEW j \in 1 .. i + 1
                 PROVE  top.elements[j].type \in DOMAIN platform.sizes
      BY DEF AllScalars
    <3>1. CASE j = i + 1
      BY <2>3, <3>1 DEF Element, Scalar
    <3>2. CASE j # i + 1
      BY <1>2, <3>2 DEF AllScalars
    <3> QED BY <3>1, <3>2
  <2>5. /\ platform.sizes[Element] \in Nat /\ platform.alignments[Element] \in Power
        /\ TypeSizes(Element) = platform.sizes[Element]
        /\ Alignments(Element) = platform.alignments[Element]
    <3>1. platform \in Platforms
      BY DEF IInv, TypeOK
    <3>2. platform.sizes[Element] \in Nat /\ platform.alignments[Element] \in Power
      BY <2>3, <3>1, PlatformTyped DEF Scalar
    <3> QED BY <2>3, <3>1, <3>2, ScalarFits
  <2>6. top.elements[i + 1].at = ALIGN(offset, platform.alignments[Element])
    BY <1>2, <2>2, <2>4, SMTT(60) DEF Placed, Element
  <2>7. end = top.elements[i + 1].at + platform.sizes[Element]
    <3>1. offset + Padding(offset, platform.alignments[Element])
            = ALIGN(offset, platform.alignments[Element])
      BY <1>2, <2>5, PaddingAligns
    <3> QED BY <2>5, <2>6, <3>1 DEF ElementEnd
  <2>8. end \in Nat /\ end = EndAt(platform, top, i + 1)
    BY <1>2, <2>2, <2>5, <2>7, SMTT(60) DEF EndAt, Element
  <2>9. value.at = top.elements[i + 1].at
    BY <2>2, <2>5, <2>7 DEF Extract
  <2>10. value \in [at : Nat, length : Nat]
    <3>1. end - TypeSizes(Element) = top.elements[i + 1].at
      BY <2>2, <2>5, <2>7
    <3>2. top.elements[i + 1].at \in Nat /\ top.ffi.size - top.elements[i + 1].at \in Nat
      BY <1>2, <2>2, <2>3, SMTT(60)
    <3>3. TypeSizes(Element) + 1 \in Nat
      BY <2>5
    <3> HIDE DEF end
    <3> QED BY <3>1, <3>2, <3>3 DEF Extract
  <2> HIDE DEF end, value
  <2>11. /\ values' \in Seq([at : Nat, length : Nat]) /\ Len(values') = i + 1
         /\ values'[i + 1] = value
         /\ \A k \in 1 .. i : values'[k] = values[k]
    BY <1>2, <2>1, <2>10
  <2>12. TypeOK'
    BY <1>1, <1>2, <2>1, <2>8, <2>11 DEF IInv, TypeOK
  <2>13. Layered' /\ Rooted'
    BY <1>1, <2>1 DEF IInv, Layered, Rooted
  <2>14. \A k \in 1 .. i + 1 : values'[k].at = top.elements[k].at
    <3> TAKE k \in 1 .. i + 1
    <3>1. CASE k = i + 1
      BY <2>9, <2>11, <3>1
    <3>2. CASE k # i + 1
      <4>1. k \in 1 .. i
        BY <1>2, <3>2
      <4> QED BY <1>2, <2>11, <4>1
    <3> QED BY <3>1, <3>2
  <2>15. Returning'
    <3>1. pc' = "return" /\ stack'[1] = top /\ platform' = platform
      BY <1>1, <1>2, <2>1
    <3>2. i' <= Len(top.elements)
      BY <2>1, <2>2
    <3>3. AllScalars(platform, top, i') /\ offset' = EndAt(platform, top, i')
      BY <2>1, <2>4, <2>8
    <3> HIDE DEF end, value
    <3> QED BY <2>1, <2>14, <3>1, <3>2, <3>3 DEF Returning, Returned
  <2> QED BY <2>12, <2>13, <2>15 DEF IInv
<1> QED BY <1>3, <1>4

LEMMA ReturnIInv ==
    ASSUME IInv, CallFunction_return
    PROVE  IInv'
<1>1. pc = "return" /\ pc' = "client" /\ UNCHANGED <<platform, stack, result>>
  BY DEF CallFunction_return
<1>2. TypeOK'
  BY <1>1 DEF IInv, TypeOK, result
<1>3. Layered' /\ Rooted'
  BY <1>1 DEF IInv, Layered, Rooted, Returned
<1>4. Returning'
  BY <1>1 DEF IInv, Returning, Returned, result
<1> QED BY <1>2, <1>3, <1>4 DEF IInv

\* The invariant, where the class has the compiler's alignments: what all the
\* theorems below follow from.
THEOREM Invariance ==
    ASSUME AlignmentsAgree
    PROVE  Spec => []IInv
<1>1. Init => IInv
  BY InitIInv
<1>2. IInv /\ [Next]_vars => IInv'
  <2> SUFFICES ASSUME IInv, [Next]_vars
               PROVE  IInv'
    OBVIOUS
  <2>1. CASE CheckStructSupport
    BY <2>1, CheckIInv
  <2>2. CASE scalar_element
    BY <2>2, ScalarIInv
  <2>3. CASE begin_struct
    BY <2>3, BeginIInv
  <2>4. CASE end_struct
    BY <2>4, EndIInv
  <2>5. CASE call_function
    BY <2>5, CallIInv
  <2>6. CASE ConvertStructFromCNAToCache
    BY <2>6, ConvertIInv
  <2>7. CASE CallFunction_return
    BY <2>7, ReturnIInv
  <2>8. CASE UNCHANGED vars
    BY <2>8 DEF IInv, TypeOK, Layered, Rooted, Returning, vars, result
  <2> QED BY <2>1, <2>2, <2>3, <2>4, <2>5, <2>6, <2>7, <2>8 DEF Next
<1> QED BY <1>1, <1>2, PTL DEF Spec

-----------------------------------------------------------------------------
(* The type invariant of the layouts (cna.xml:189-311). *)
THEOREM TypeCorrect ==
    ASSUME AlignmentsAgree
    PROVE  Spec => []TypeOK
<1>1. IInv => TypeOK
  BY DEF IInv
<1> QED BY <1>1, Invariance, PTL

(* The class and libffi give every structure the same size and alignment,     *)
(* at any depth and for any list of types (cna.xml:222-246).                  *)
THEOREM LayoutsAgree ==
    ASSUME AlignmentsAgree
    PROVE  Spec => []SizesAgree
<1>1. IInv => SizesAgree
  BY DEF IInv, Layered, Agrees, SizesAgree
<1> QED BY <1>1, Invariance, PTL

(* A structure never has more bytes than its header says, whichever values    *)
(* are missing (cna.xml:271-287).                                             *)
THEOREM HeadersSuffice ==
    ASSUME AlignmentsAgree
    PROVE  Spec => []NeverLonger
<1>1. IInv => NeverLonger
  <2> SUFFICES ASSUME IInv, NEW k \in 1 .. Len(stack)
               PROVE  stack[k].converted.memory <= stack[k].declared.size
    BY DEF NeverLonger
  <2>1. Agrees(stack[k])
    BY DEF IInv, Layered
  <2> QED BY <2>1 DEF Agrees, Struct
<1> QED BY <1>1, Invariance, PTL

(* What call_function accepts has every value where the native function       *)
(* looks for it (cna.xml:260-288; cna.c:335).                                 *)
THEOREM AcceptedInPlace ==
    ASSUME AlignmentsAgree
    PROVE  Spec => []FieldsInPlace
<1>1. IInv => FieldsInPlace
  <2> SUFFICES ASSUME IInv, pc \in Returned
               PROVE  \A f \in top.fields : f.from = f.at
    BY DEF FieldsInPlace, Returned
  <2>1. /\ top = stack[1]
        /\ Fits(top)
        /\ top.converted.memory = top.declared.size
    BY DEF IInv, Rooted, top
  <2> QED BY <2>1 DEF Fits
<1> QED BY <1>1, Invariance, PTL

(* No structure with all its values is refused (cna.c:335).                   *)
THEOREM WholeIsAccepted ==
    ASSUME AlignmentsAgree
    PROVE  Spec => []WholeAccepted
<1>1. IInv => WholeAccepted
  BY DEF IInv, Rooted, WholeAccepted, top
<1> QED BY <1>1, Invariance, PTL

(* The fields of a structure that is returned are extracted from where libffi *)
(* put them (cna.xml:299-306).                                                *)
THEOREM ResultsFound ==
    ASSUME AlignmentsAgree
    PROVE  Spec => []ValuesFound
<1>1. IInv => ValuesFound
  <2> SUFFICES ASSUME IInv, NEW k \in 1 .. Len(values)
               PROVE  values[k].at = top.elements[k].at
    BY DEF ValuesFound
  <2>1. pc \in Returned /\ k \in 1 .. i
    BY DEF IInv, TypeOK, Returning
  <2>2. top = stack[1]
    BY <2>1 DEF IInv, Rooted, top
  <2> QED BY <2>1, <2>2 DEF IInv, Returning
<1> QED BY <1>1, Invariance, PTL
=============================================================================
