--------------------------- MODULE PointersProofs ---------------------------
(***************************************************************************)
(* Proofs about Pointers, for any number of objects, addresses, arrays and *)
(* nested conversions, and texts of any length.  Who owns which array is   *)
(* stated once, as a set of claims: an entry of a list or a conversion in  *)
(* progress claims an address.  Accounted says that claims and live blocks *)
(* correspond, and every step of the code is one of five changes of claims *)
(* and blocks that keep it.                                                *)
(***************************************************************************)
EXTENDS Pointers, FiniteSetTheorems, TLAPS

-----------------------------------------------------------------------------
(* The length of C strings.                                                    *)

(* A set of natural numbers that is not empty has a least element.             *)
LEMMA LeastNatural ==
    ASSUME NEW S \in SUBSET Nat, S # {}
    PROVE  \E m \in S : \A k \in S : m <= k
<1>. DEFINE R == StrictSubsetOrdering(Nat)
            T == {0 .. k : k \in S}
<1>1. IsWellFoundedOn(R, FiniteSubsetsOf(Nat))
  BY FS_StrictSubsetOrderingWellFounded
<1>2. T \subseteq FiniteSubsetsOf(Nat) /\ T # {}
  <2>1. ASSUME NEW k \in S
        PROVE  0 .. k \in FiniteSubsetsOf(Nat)
    <3>1. k \in Int /\ 0 .. k \in SUBSET Nat
      OBVIOUS
    <3>2. IsFiniteSet(0 .. k)
      BY <3>1, FS_Interval
    <3>3. QED
      BY <3>1, <3>2 DEF FiniteSubsetsOf
  <2>2. QED
    BY <2>1
<1>. HIDE DEF R, T
<1>3. PICK x \in T : \A y \in T : ~ (<<y, x>> \in R)
  BY <1>1, <1>2, WFMin
<1>4. PICK m \in S : x = 0 .. m
  BY DEF T
<1>5. ASSUME NEW k \in S, k < m
      PROVE  FALSE
  <2>1. 0 .. k \in T /\ 0 .. k \subseteq x /\ 0 .. k # x
    BY <1>4, <1>5 DEF T
  <2>2. <<0 .. k, x>> \in R
    BY <1>2, <1>4, <2>1 DEF R, StrictSubsetOrdering
  <2>3. QED
    BY <1>3, <2>1, <2>2
<1>6. QED
  BY <1>5

(* strlen is the number of bytes before the first NUL.                         *)
LEMMA StrlenIs ==
    ASSUME NEW s \in Seq(Nat)
    PROVE  /\ strlen(s) \in 0 .. Len(s)
           /\ strlen(s) = Len(s) \/ s[strlen(s) + 1] = NUL
           /\ \A k \in 1 .. strlen(s) : s[k] # NUL
<1>. DEFINE P(l) == /\ l = Len(s) \/ s[l + 1] = NUL
                    /\ \A k \in 1 .. l : s[k] # NUL
            Stops == {l \in 0 .. Len(s) : l = Len(s) \/ s[l + 1] = NUL}
<1>1. Len(s) \in Nat /\ Stops \in SUBSET Nat /\ Len(s) \in Stops
  OBVIOUS
<1>2. PICK m \in Stops : \A l \in Stops : m <= l
  BY <1>1, LeastNatural
<1>3. m \in 0 .. Len(s) /\ (m = Len(s) \/ s[m + 1] = NUL)
  OBVIOUS
<1>4. ASSUME NEW k \in 1 .. m, s[k] = NUL
      PROVE  FALSE
  <2>1. k - 1 \in 0 .. Len(s) /\ k - 1 + 1 = k /\ k - 1 < m
    BY <1>1, <1>3
  <2>2. k - 1 \in Stops
    BY <1>4, <2>1
  <2>. HIDE DEF Stops
  <2>3. m <= k - 1
    BY <1>2, <2>2
  <2>4. QED
    BY <1>3, <2>1, <2>3
<1>5. P(m)
  BY <1>3, <1>4
<1>. HIDE DEF P, Stops
<1>6. \E l \in 0 .. Len(s) : P(l)
  BY <1>3, <1>5
<1>7. strlen(s) = CHOOSE l \in 0 .. Len(s) : P(l)
  BY DEF strlen, P
<1>8. strlen(s) \in 0 .. Len(s) /\ P(strlen(s))
  BY <1>6, <1>7
<1>9. QED
  BY <1>8 DEF P

LEMMA StrlenWithoutNul ==
    ASSUME NEW s \in Seq(Nat), HasNoNul(s)
    PROVE  strlen(s) = Len(s)
<1>1. /\ strlen(s) \in 0 .. Len(s)
      /\ strlen(s) = Len(s) \/ s[strlen(s) + 1] = NUL
  BY StrlenIs
<1>2. CASE strlen(s) # Len(s)
  <2>1. strlen(s) + 1 \in 1 .. Len(s) /\ s[strlen(s) + 1] = NUL
    BY <1>1, <1>2
  <2>2. QED
    BY <2>1 DEF HasNoNul
<1>3. QED
  BY <1>2

-----------------------------------------------------------------------------
(* What the library writes.                                                    *)

Bytes == Characters \cup {NUL, Junk}

LEMMA CharactersAreBytes == Characters \subseteq Nat /\ NUL \in Bytes /\ Characters \subseteq Bytes
BY PointersAssumption DEF Bytes

LEMMA SeqMonotone ==
    ASSUME NEW S, NEW T, S \subseteq T, NEW s \in Seq(S)
    PROVE  s \in Seq(T)
<1>1. Len(s) \in Nat /\ DOMAIN s = 1 .. Len(s) /\ \A k \in 1 .. Len(s) : s[k] \in T
  OBVIOUS
<1>2. s = [k \in 1 .. Len(s) |-> s[k]]
  BY <1>1
<1>3. s \in [1 .. Len(s) -> T]
  BY <1>1, <1>2
<1>4. QED
  BY <1>1, <1>3

LEMMA CharacterSequences ==
    ASSUME NEW s \in Seq(Characters)
    PROVE  s \in Seq(Nat) /\ s \in Seq(Bytes)
BY CharactersAreBytes, SeqMonotone

(* string_to_pointer makes a C string; it holds the whole text if there is no  *)
(* NUL in it.                                                                  *)
LEMMA StringArray ==
    ASSUME NEW s \in Seq(Characters)
    PROVE  LET b == string_to_pointer(s)
           IN  /\ b \in Seq(Bytes) /\ b # <<>> /\ b[Len(b)] = NUL
               /\ HasNoNul(s) => b = s \o <<NUL>>
<1>. DEFINE l == strlen(s)
            t == SubSeq(s, 1, l)
            b == t \o <<NUL>>
<1>1. s \in Seq(Nat) /\ s \in Seq(Bytes)
  BY CharacterSequences
<1>2. l \in 0 .. Len(s)
  BY <1>1, StrlenIs
<1>. HIDE DEF l
<1>3. t \in Seq(Bytes) /\ Len(t) = l
  BY <1>1, <1>2
<1>4. <<NUL>> \in Seq(Bytes) /\ Len(<<NUL>>) = 1
  BY CharactersAreBytes
<1>. HIDE DEF t
<1>5. b \in Seq(Bytes) /\ Len(b) = l + 1 /\ b[l + 1] = NUL
  BY <1>2, <1>3, <1>4
<1>6. b # <<>>
  BY <1>2, <1>5
<1>7. ASSUME HasNoNul(s)
      PROVE  t = s
  <2>1. l = Len(s)
    BY <1>1, <1>7, StrlenWithoutNul DEF l
  <2>2. QED
    BY <1>1, <2>1 DEF t
<1>8. string_to_pointer(s) = b
  BY DEF string_to_pointer, t, l
<1>9. QED
  BY <1>2, <1>5, <1>6, <1>7, <1>8

(* append_to_pointer makes a C string, whatever was there.                     *)
LEMMA AppendedArray ==
    ASSUME NEW old \in Seq(Bytes), NEW n \in Nat, NEW s \in Seq(Characters)
    PROVE  LET b == append_to_pointer(old, n, s)
           IN  b \in Seq(Bytes) /\ b # <<>> /\ b[Len(b)] = NUL
<1>. DEFINE m == n + strlen(s) + 1
            b == append_to_pointer(old, n, s)
<1>1. s \in Seq(Nat) /\ s \in Seq(Bytes)
  BY CharacterSequences
<1>2. strlen(s) \in 0 .. Len(s)
  BY <1>1, StrlenIs
<1>3. b = [x \in 1 .. m |-> CASE x <= n -> IF x <= Len(old) THEN old[x] ELSE Junk
                               [] x = m  -> NUL
                               [] OTHER  -> s[x - n]]
  BY DEF append_to_pointer
<1>4. m \in Nat /\ m > n /\ m \in 1 .. m
  BY <1>2
<1>5. ASSUME NEW x \in 1 .. m
      PROVE  b[x] \in Bytes
  <2>1. CASE x <= n
    <3>1. CASE x <= Len(old)
      <4>1. b[x] = old[x]
        BY <1>3, <1>4, <2>1, <3>1
      <4>2. QED
        BY <2>1, <3>1, <4>1
    <3>2. CASE ~(x <= Len(old))
      <4>1. b[x] = Junk
        BY <1>3, <1>4, <2>1, <3>2
      <4>2. QED
        BY <4>1 DEF Bytes
    <3>3. QED
      BY <3>1, <3>2
  <2>2. CASE x = m
    <3>1. b[x] = NUL
      BY <1>3, <1>4, <2>2
    <3>2. QED
      BY <3>1, CharactersAreBytes
  <2>3. CASE x > n /\ x # m
    <3>1. b[x] = s[x - n]
      BY <1>3, <2>3
    <3>2. x - n \in 1 .. Len(s)
      BY <1>2, <2>3
    <3>3. QED
      BY <1>1, <3>1, <3>2
  <2>4. QED
    BY <1>4, <2>1, <2>2, <2>3
<1>6. b[m] = NUL
  BY <1>3, <1>4
<1>7. DOMAIN b = 1 .. m /\ b = [x \in 1 .. m |-> b[x]]
  BY <1>3
<1>. HIDE DEF b, m
<1>8. b \in [1 .. m -> Bytes]
  BY <1>5, <1>7
<1>9. b \in Seq(Bytes) /\ Len(b) = m
  BY <1>4, <1>8
<1>10. b # <<>>
  BY <1>4, <1>9
<1>11. QED
  BY <1>6, <1>9, <1>10 DEF b

(* Appended to the text so far, a string without NUL continues it.             *)
LEMMA AppendedText ==
    ASSUME NEW old \in Seq(Bytes), NEW text \in Seq(Characters), NEW s \in Seq(Characters),
           HasNoNul(s), text = <<>> \/ old = text \o <<NUL>>
    PROVE  append_to_pointer(old, Len(text), s) = (text \o s) \o <<NUL>>
<1>. DEFINE n == Len(text)
            m == n + Len(s) + 1
            b == append_to_pointer(old, n, s)
            c == (text \o s) \o <<NUL>>
<1>1. s \in Seq(Nat) /\ strlen(s) = Len(s)
  BY CharacterSequences, StrlenWithoutNul
<1>2. b = [x \in 1 .. m |-> CASE x <= n -> IF x <= Len(old) THEN old[x] ELSE Junk
                               [] x = m  -> NUL
                               [] OTHER  -> s[x - n]]
  BY <1>1 DEF append_to_pointer
<1>3. n \in Nat /\ Len(s) \in Nat /\ m \in Nat /\ m = n + Len(s) + 1
  OBVIOUS
<1>4. c \in Seq(Bytes) /\ Len(c) = m /\ DOMAIN c = 1 .. m
  BY <1>1, CharactersAreBytes, SMTT(30)
<1>5. ASSUME NEW x \in 1 .. m
      PROVE  b[x] = c[x]
  <2>1. CASE x <= n
    <3>1. text # <<>> /\ old = text \o <<NUL>>
      BY <2>1
    <3>2. Len(old) = n + 1 /\ old[x] = text[x]
      BY <2>1, <3>1
    <3>3. b[x] = old[x]
      BY <1>2, <2>1, <3>2
    <3>4. c[x] = text[x]
      BY <2>1
    <3>5. QED
      BY <3>2, <3>3, <3>4
  <2>2. CASE x = m
    <3>1. b[x] = NUL
      BY <1>2, <1>3, <2>2
    <3>2. c[x] = NUL
      BY <1>3, <2>2
    <3>3. QED
      BY <3>1, <3>2
  <2>3. CASE x > n /\ x # m
    <3>1. b[x] = s[x - n]
      BY <1>2, <2>3
    <3>2. x - n \in 1 .. Len(s) /\ x \in 1 .. n + Len(s)
      <4>. HIDE DEF n, m
      <4>1. QED
        BY <1>3, <2>3
    <3>3. (text \o s)[x] = s[x - n] /\ Len(text \o s) = n + Len(s)
      BY <2>3, <3>2
    <3>4. c[x] = (text \o s)[x]
      BY <3>2, <3>3
    <3>5. QED
      BY <3>1, <3>3, <3>4
  <2>4. QED
    BY <2>1, <2>2, <2>3
<1>6. b = [x \in 1 .. m |-> b[x]] /\ c = [x \in 1 .. m |-> c[x]]
  BY <1>2, <1>4
<1>7. b = c
  <2>. HIDE DEF b, c, m
  <2>1. QED
    BY <1>5, <1>6
<1>8. QED
  BY <1>7

-----------------------------------------------------------------------------
(* Claims: who owns which array, and which text it is the array of.            *)

Frame == [object : Object, pointer : Addr \cup {NULL}, fullLen : Nat, text : Seq(Characters)]

ListClaims(lists, texts, done) ==
    UNION {{<<lists[o][k], texts[o][k], "list", o, k>> :
                k \in {l \in done[o] + 1 .. Len(lists[o]) : lists[o][l] # NULL}} : o \in Object}
StackClaims(s) ==
    {<<s[k].pointer, s[k].text, "stack", k>> : k \in {l \in 1 .. Len(s) : s[l].pointer # NULL}}
Claims == ListClaims(AllocatedMemory, origin, freed) \cup StackClaims(stack)

IsArrayOf(bytes, text) == HasNoNul(text) => bytes = text \o <<NUL>>
IsTerminated(bytes) == bytes # <<>> /\ bytes[Len(bytes)] = NUL

\* Every live block that is not lost has one claim, which says what it holds.
Accounted(C, h, L) ==
    /\ L \subseteq DOMAIN h
    /\ \A c \in C : c[1] \in DOMAIN h \ L /\ IsArrayOf(h[c[1]], c[2])
    /\ \A c, d \in C : c[1] = d[1] => c = d
    /\ \A a \in DOMAIN h \ L : \E c \in C : c[1] = a
    /\ \A a \in DOMAIN h : IsTerminated(h[a])

\* What the code relies on between its statements: which objects have a list, that
\* conversions belong to open objects, and that fullLen is the length of the text.
ObjectsOK ==
    /\ phase \in [Object -> {"closed", "open", "draining"}]
    /\ DOMAIN AllocatedMemory = Object /\ DOMAIN origin = Object
    /\ freed \in [Object -> Nat]
    /\ \A o \in Object :
        /\ AllocatedMemory[o] \in Seq(Addr \cup {NULL})
        /\ origin[o] \in Seq(Seq(Characters))
        /\ Len(origin[o]) = Len(AllocatedMemory[o])
        /\ freed[o] <= Len(AllocatedMemory[o])
        /\ phase[o] = "closed" => AllocatedMemory[o] = <<>>
        /\ phase[o] # "draining" => freed[o] = 0
        /\ phase[o] = "draining" => alive
        /\ \A k \in 1 .. Len(AllocatedMemory[o]) :
            AllocatedMemory[o][k] = NULL => origin[o][k] = <<>>
FrameOK(f) ==
    /\ phase[f.object] = "open"
    /\ f.fullLen = Len(f.text)
    /\ f.pointer = NULL => f.text = <<>>
StackOK ==
    /\ stack \in Seq(Frame)
    /\ \A k \in 1 .. Len(stack) : FrameOK(stack[k])
BlocksOK ==
    /\ DOMAIN heap \subseteq Addr
    /\ \A a \in DOMAIN heap : heap[a] \in Seq(Bytes)

IInv ==
    /\ alive \in BOOLEAN
    /\ ObjectsOK
    /\ StackOK
    /\ BlocksOK
    /\ Accounted(Claims, heap, lost)

-----------------------------------------------------------------------------
(* The changes of claims and blocks that steps are made of.                    *)

(* A new block with its claim.                                                 *)
LEMMA Add ==
    ASSUME NEW C, NEW h, NEW L, Accounted(C, h, L),
           NEW q, NEW bytes, q[1] \notin DOMAIN h,
           IsTerminated(bytes), IsArrayOf(bytes, q[2])
    PROVE  Accounted(C \cup {q}, Put(h, q[1], bytes), L)
<1>. DEFINE g == Put(h, q[1], bytes)
<1>1. /\ DOMAIN g = DOMAIN h \cup {q[1]}
      /\ g[q[1]] = bytes
      /\ \A a \in DOMAIN h : g[a] = h[a]
  BY DEF Put
<1>. HIDE DEF g
<1>2. /\ L \subseteq DOMAIN g
      /\ \A c \in C \cup {q} : c[1] \in DOMAIN g \ L
  BY <1>1 DEF Accounted
<1>3. \A c \in C \cup {q} : IsArrayOf(g[c[1]], c[2])
  <2>1. ASSUME NEW c \in C
        PROVE  IsArrayOf(g[c[1]], c[2])
    <3>1. g[c[1]] = h[c[1]] /\ IsArrayOf(h[c[1]], c[2])
      BY <1>1 DEF Accounted
    <3>2. QED
      BY <3>1
  <2>2. IsArrayOf(g[q[1]], q[2])
    BY <1>1
  <2>3. QED
    BY <2>1, <2>2
<1>4. \A c, d \in C \cup {q} : c[1] = d[1] => c = d
  BY DEF Accounted
<1>5. \A a \in DOMAIN g \ L : \E c \in C \cup {q} : c[1] = a
  BY <1>1 DEF Accounted
<1>6. \A a \in DOMAIN g : IsTerminated(g[a])
  BY <1>1 DEF Accounted
<1>7. Accounted(C \cup {q}, g, L)
  BY <1>2, <1>3, <1>4, <1>5, <1>6 DEF Accounted
<1>8. QED
  BY <1>7 DEF g

(* A block freed with its claim; nothing is freed when there is no claim.      *)
LEMMA Remove ==
    ASSUME NEW C, NEW h, NEW L, Accounted(C, h, L),
           NEW p, NEW P, (p \notin DOMAIN h /\ P = {}) \/ \E c \in C : P = {c} /\ c[1] = p
    PROVE  Accounted(C \ P, Drop(h, p), L)
<1>. DEFINE g == Drop(h, p)
<1>1. DOMAIN g = DOMAIN h \ {p} /\ \A a \in DOMAIN g : g[a] = h[a]
  BY DEF Drop
<1>. HIDE DEF g
<1>2. p \notin L /\ \A c \in C \ P : c[1] \in C \/ c[1] # p
  BY DEF Accounted
<1>3. \A c \in C \ P : c[1] # p
  BY DEF Accounted
<1>4. L \subseteq DOMAIN g
  BY <1>1, <1>2 DEF Accounted
<1>5. \A c \in C \ P : c[1] \in DOMAIN g \ L /\ IsArrayOf(g[c[1]], c[2])
  <2>1. ASSUME NEW c \in C \ P
        PROVE  c[1] \in DOMAIN g \ L /\ IsArrayOf(g[c[1]], c[2])
    <3>1. c[1] \in DOMAIN h \ L /\ IsArrayOf(h[c[1]], c[2])
      BY DEF Accounted
    <3>2. c[1] \in DOMAIN g /\ g[c[1]] = h[c[1]]
      BY <1>1, <1>3, <3>1
    <3>3. QED
      BY <3>1, <3>2
  <2>2. QED
    BY <2>1
<1>6. \A c, d \in C \ P : c[1] = d[1] => c = d
  BY DEF Accounted
<1>7. \A a \in DOMAIN g \ L : \E c \in C \ P : c[1] = a
  BY <1>1 DEF Accounted
<1>8. \A a \in DOMAIN g : IsTerminated(g[a])
  BY <1>1 DEF Accounted
<1>9. Accounted(C \ P, g, L)
  BY <1>4, <1>5, <1>6, <1>7, <1>8 DEF Accounted
<1>10. QED
  BY <1>9 DEF g

(* A claim given up, its block lost.                                           *)
LEMMA Lose ==
    ASSUME NEW C, NEW h, NEW L, Accounted(C, h, L),
           NEW A, NEW P, (A = {} /\ P = {}) \/ \E c \in C : P = {c} /\ A = {c[1]}
    PROVE  Accounted(C \ P, h, L \cup A)
<1>1. L \cup A \subseteq DOMAIN h /\ \A a \in DOMAIN h : IsTerminated(h[a])
  BY DEF Accounted
<1>2. \A c \in C \ P : c[1] \in DOMAIN h \ (L \cup A) /\ IsArrayOf(h[c[1]], c[2])
  BY DEF Accounted
<1>3. \A c, d \in C \ P : c[1] = d[1] => c = d
  BY DEF Accounted
<1>4. \A a \in DOMAIN h \ (L \cup A) : \E c \in C \ P : c[1] = a
  BY DEF Accounted
<1>5. QED
  BY <1>1, <1>2, <1>3, <1>4 DEF Accounted

(* A claim handed over.                                                        *)
LEMMA HandOver ==
    ASSUME NEW C, NEW h, NEW L, Accounted(C, h, L),
           NEW P, NEW Q,
           \/ P = {} /\ Q = {}
           \/ \E c \in C : \E q \in Q : P = {c} /\ Q = {q} /\ c[1] = q[1] /\ c[2] = q[2]
    PROVE  Accounted((C \ P) \cup Q, h, L)
<1>1. L \subseteq DOMAIN h /\ \A a \in DOMAIN h : IsTerminated(h[a])
  BY DEF Accounted
<1>2. \A c \in (C \ P) \cup Q : \E d \in C : c[1] = d[1] /\ c[2] = d[2]
  OBVIOUS
<1>3. \A c \in (C \ P) \cup Q : c[1] \in DOMAIN h \ L /\ IsArrayOf(h[c[1]], c[2])
  BY <1>2 DEF Accounted
<1>4. \A c, d \in (C \ P) \cup Q : c[1] = d[1] => c = d
  BY DEF Accounted
<1>5. \A a \in DOMAIN h \ L : \E c \in (C \ P) \cup Q : c[1] = a
  BY DEF Accounted
<1>6. QED
  BY <1>1, <1>3, <1>4, <1>5 DEF Accounted

-----------------------------------------------------------------------------
(* The claims of the state after a step.                                       *)

ListClaim(o, p, text) ==
    IF p = NULL THEN {}
    ELSE {<<p, text, "list", o, Len(AllocatedMemory[o]) + 1>>}
StackClaim(f, k) ==
    IF f.pointer = NULL THEN {} ELSE {<<f.pointer, f.text, "stack", k>>}

(* An entry that is not NULL is a claim.                                       *)
LEMMA ListClaimsMembers ==
    ASSUME NEW lists, NEW texts, NEW done, NEW c
    PROVE  c \in ListClaims(lists, texts, done) <=>
             \E o \in Object : \E k \in done[o] + 1 .. Len(lists[o]) :
                lists[o][k] # NULL /\ c = <<lists[o][k], texts[o][k], "list", o, k>>
<1>. DEFINE Of(o) == {<<lists[o][k], texts[o][k], "list", o, k>> :
                        k \in {l \in done[o] + 1 .. Len(lists[o]) : lists[o][l] # NULL}}
<1>1. \A o : c \in Of(o) <=>
        \E k \in done[o] + 1 .. Len(lists[o]) :
            lists[o][k] # NULL /\ c = <<lists[o][k], texts[o][k], "list", o, k>>
  OBVIOUS
<1>2. ListClaims(lists, texts, done) = UNION {Of(o) : o \in Object}
  BY DEF ListClaims
<1>. HIDE DEF Of
<1>3. c \in UNION {Of(o) : o \in Object} <=> \E o \in Object : c \in Of(o)
  OBVIOUS
<1>4. QED
  BY <1>1, <1>2, <1>3

(* A conversion more has a claim more, unless it has no array yet.             *)
LEMMA StackPush ==
    ASSUME NEW s \in Seq(Frame), NEW f \in Frame
    PROVE  StackClaims(Append(s, f)) = StackClaims(s) \cup StackClaim(f, Len(s) + 1)
<1>. DEFINE t == Append(s, f)
            n == Len(s)
<1>1. n \in Nat /\ Len(t) = n + 1 /\ t[n + 1] = f /\ \A k \in 1 .. n : t[k] = s[k]
  OBVIOUS
<1>2. 1 .. n + 1 = (1 .. n) \cup {n + 1} /\ n + 1 \notin 1 .. n
  BY <1>1
<1>. HIDE DEF t, n
<1>3. ASSUME NEW c \in StackClaims(t)
      PROVE  c \in StackClaims(s) \cup StackClaim(f, n + 1)
  <2>1. PICK k \in 1 .. n + 1 : t[k].pointer # NULL /\ c = <<t[k].pointer, t[k].text, "stack", k>>
    BY <1>1 DEF StackClaims
  <2>2. CASE k = n + 1
    BY <1>1, <2>1, <2>2 DEF StackClaim
  <2>3. CASE k \in 1 .. n
    BY <1>1, <2>1, <2>3 DEF StackClaims, n
  <2>4. QED
    BY <1>2, <2>2, <2>3
<1>4. ASSUME NEW c \in StackClaims(s)
      PROVE  c \in StackClaims(t)
  <2>1. PICK k \in 1 .. n : s[k].pointer # NULL /\ c = <<s[k].pointer, s[k].text, "stack", k>>
    BY DEF StackClaims, n
  <2>2. k \in 1 .. Len(t) /\ t[k] = s[k]
    BY <1>1, <1>2
  <2>3. QED
    BY <2>1, <2>2 DEF StackClaims
<1>5. ASSUME NEW c \in StackClaim(f, n + 1)
      PROVE  c \in StackClaims(t)
  <2>1. f.pointer # NULL /\ c = <<f.pointer, f.text, "stack", n + 1>>
    BY DEF StackClaim
  <2>2. n + 1 \in 1 .. Len(t) /\ t[n + 1] = f
    BY <1>1, <1>2
  <2>3. QED
    BY <2>1, <2>2 DEF StackClaims
<1>6. QED
  BY <1>3, <1>4, <1>5 DEF t, n

(* The stack is its top on the conversions that called it.                     *)
LEMMA TopOfStack ==
    ASSUME StackOK, stack # <<>>
    PROVE  /\ top \in Frame /\ callers \in Seq(Frame)
           /\ Len(stack) \in Nat \ {0} /\ Len(callers) = Len(stack) - 1
           /\ stack = Append(callers, top)
           /\ \A k \in 1 .. Len(callers) : callers[k] = stack[k]
<1>. DEFINE n == Len(stack)
<1>1. stack \in Seq(Frame)
  BY DEF StackOK
<1>2. n \in Nat \ {0} /\ n - 1 \in Nat /\ n - 1 + 1 = n
  BY <1>1
<1>3. top \in Frame
  BY <1>1, <1>2 DEF top
<1>4. /\ callers \in Seq(Frame) /\ Len(callers) = n - 1
      /\ \A k \in 1 .. n - 1 : callers[k] = stack[k]
  BY <1>1, <1>2 DEF callers
<1>5. stack = Append(callers, top)
  <2>. DEFINE t == Append(callers, top)
  <2>. DEFINE s == callers
              f == top
  <2>0. s \in Seq(Frame) /\ f \in Frame /\ Len(s) = n - 1 /\ t = Append(s, f) /\ f = stack[n]
    BY <1>3, <1>4 DEF top
  <2>. HIDE DEF s, f, n, t
  <2>1. /\ t \in Seq(Frame) /\ Len(t) = n /\ t[n] = f
        /\ \A k \in 1 .. n - 1 : t[k] = s[k]
    BY <1>2, <2>0
  <2>2. ASSUME NEW k \in 1 .. n
        PROVE  t[k] = stack[k]
    <3>1. CASE k = n
      BY <2>0, <2>1, <3>1
    <3>2. CASE k \in 1 .. n - 1
      BY <1>4, <2>1, <3>2 DEF s
    <3>3. QED
      BY <1>2, <3>1, <3>2
  <2>3. QED
    <3>1. DOMAIN stack = 1 .. n /\ DOMAIN t = 1 .. n
      BY <1>1, <2>1 DEF n
    <3>2. stack = [k \in 1 .. n |-> stack[k]] /\ t = [k \in 1 .. n |-> t[k]]
      BY <1>1, <2>1, <3>1
    <3>3. stack = t
      BY <2>2, <3>2
    <3>4. QED
      BY <3>3 DEF t
<1>6. QED
  BY <1>2, <1>3, <1>4, <1>5

(* Without the top conversion its claim is gone, and no other.                 *)
TopClaim == StackClaim(top, Len(stack))

LEMMA CallersClaims ==
    ASSUME StackOK, stack # <<>>
    PROVE  /\ StackClaims(stack) = StackClaims(callers) \cup TopClaim
           /\ ListClaims(AllocatedMemory, origin, freed) \cup StackClaims(callers)
                = Claims \ TopClaim
<1>. DEFINE n == Len(stack)
<1>1. /\ top \in Frame /\ callers \in Seq(Frame) /\ Len(callers) + 1 = n
      /\ n \in Nat /\ Len(callers) = n - 1
      /\ stack = Append(callers, top)
  BY TopOfStack
<1>. HIDE DEF n
<1>2. StackClaims(stack) = StackClaims(callers) \cup StackClaim(top, n)
  BY <1>1, StackPush
<1>3. \A c \in StackClaims(callers) : c[4] \in 1 .. n - 1
  BY <1>1 DEF StackClaims
<1>4. \A c \in StackClaim(top, n) : c[3] = "stack" /\ c[4] = n
  BY DEF StackClaim
<1>5. \A c \in ListClaims(AllocatedMemory, origin, freed) : c[3] = "list"
  BY DEF ListClaims
<1>6. n \notin 1 .. n - 1
  BY <1>1
<1>7. QED
  BY <1>2, <1>3, <1>4, <1>5, <1>6 DEF Claims, TopClaim, n

(* Insert adds a claim of the object, unless the pointer is NULL.              *)
LEMMA InsertClaims ==
    ASSUME ObjectsOK, NEW o \in Object, NEW p \in Addr \cup {NULL}, NEW text \in Seq(Characters),
           AllocatedMemory' = [AllocatedMemory EXCEPT ![o] = Append(@, p)],
           origin' = [origin EXCEPT ![o] = Append(@, text)],
           freed' = freed
    PROVE  ListClaims(AllocatedMemory, origin, freed)'
             = ListClaims(AllocatedMemory, origin, freed) \cup ListClaim(o, p, text)
<1>. DEFINE n == Len(AllocatedMemory[o])
            A == AllocatedMemory
            B == AllocatedMemory'
            S == origin
            T == origin'
<1>1. /\ n \in Nat /\ Len(A[o]) = n /\ freed[o] \in Nat /\ freed[o] <= n
      /\ A[o] \in Seq(Addr \cup {NULL}) /\ S[o] \in Seq(Seq(Characters)) /\ Len(S[o]) = n
      /\ DOMAIN A = Object /\ DOMAIN S = Object
  BY DEF ObjectsOK
<1>2. /\ B[o] = Append(A[o], p) /\ T[o] = Append(S[o], text)
      /\ \A x \in Object \ {o} : B[x] = A[x] /\ T[x] = S[x]
  BY <1>1
<1>3. /\ Len(B[o]) = n + 1 /\ B[o][n + 1] = p /\ T[o][n + 1] = text
      /\ \A k \in 1 .. n : B[o][k] = A[o][k] /\ T[o][k] = S[o][k]
  BY <1>1, <1>2
<1>. DEFINE Old == freed[o] + 1 .. n
            New == freed[o] + 1 .. n + 1
<1>4. New = Old \cup {n + 1} /\ Old \subseteq 1 .. n
  BY <1>1
<1>. HIDE DEF Old, New, A, B, S, T
<1>5. ASSUME NEW c \in ListClaims(B, T, freed)
      PROVE  c \in ListClaims(A, S, freed) \cup ListClaim(o, p, text)
  <2>1. PICK x \in Object :
           \E k \in freed[x] + 1 .. Len(B[x]) :
             B[x][k] # NULL /\ c = <<B[x][k], T[x][k], "list", x, k>>
    BY <1>5, ListClaimsMembers
  <2>2. CASE x # o
    BY <1>2, <2>1, <2>2, ListClaimsMembers
  <2>3. CASE x = o
    <3>1. PICK k \in New : B[o][k] # NULL /\ c = <<B[o][k], T[o][k], "list", o, k>>
      BY <1>3, <2>1, <2>3 DEF New
    <3>2. CASE k = n + 1
      BY <1>3, <3>1, <3>2 DEF ListClaim
    <3>3. CASE k \in Old
      <4>1. B[o][k] = A[o][k] /\ T[o][k] = S[o][k]
        BY <1>3, <1>4, <3>3
      <4>2. QED
        BY <1>1, <3>1, <3>3, <4>1, ListClaimsMembers DEF Old
    <3>4. QED
      BY <1>4, <3>2, <3>3
  <2>4. QED
    BY <2>2, <2>3
<1>6. ASSUME NEW c \in ListClaims(A, S, freed)
      PROVE  c \in ListClaims(B, T, freed)
  <2>1. PICK x \in Object :
           \E k \in freed[x] + 1 .. Len(A[x]) :
             A[x][k] # NULL /\ c = <<A[x][k], S[x][k], "list", x, k>>
    BY <1>6, ListClaimsMembers
  <2>2. CASE x # o
    BY <1>2, <2>1, <2>2, ListClaimsMembers
  <2>3. CASE x = o
    <3>1. PICK k \in Old : A[o][k] # NULL /\ c = <<A[o][k], S[o][k], "list", o, k>>
      BY <1>1, <2>1, <2>3 DEF Old
    <3>2. B[o][k] = A[o][k] /\ T[o][k] = S[o][k] /\ k \in New
      BY <1>3, <1>4, <3>1
    <3>3. k \in freed[o] + 1 .. Len(B[o])
      BY <1>3, <3>2 DEF New
    <3>4. QED
      BY <3>1, <3>2, <3>3, ListClaimsMembers
  <2>4. QED
    BY <2>2, <2>3
<1>7. ASSUME NEW c \in ListClaim(o, p, text)
      PROVE  c \in ListClaims(B, T, freed)
  <2>1. p # NULL /\ c = <<p, text, "list", o, n + 1>>
    BY DEF ListClaim
  <2>2. n + 1 \in freed[o] + 1 .. Len(B[o]) /\ B[o][n + 1] = p /\ T[o][n + 1] = text
    BY <1>3, <1>4 DEF New
  <2>3. QED
    BY <2>1, <2>2, ListClaimsMembers
<1>8. ListClaims(B, T, freed) = ListClaims(A, S, freed) \cup ListClaim(o, p, text)
  BY <1>5, <1>6, <1>7
<1>9. ListClaims(AllocatedMemory, origin, freed)' = ListClaims(B, T, freed)
  BY DEF ListClaims, B, T
<1>10. QED
  BY <1>8, <1>9 DEF A, S
\* %OnClose frees the next entry: its claim is gone, and no other.
NextClaim(o) ==
    LET k == freed[o] + 1
    IN  IF AllocatedMemory[o][k] = NULL THEN {}
        ELSE {<<AllocatedMemory[o][k], origin[o][k], "list", o, k>>}

LEMMA FreedClaims ==
    ASSUME ObjectsOK, NEW o \in Object, freed[o] < Len(AllocatedMemory[o])
    PROVE  ListClaims(AllocatedMemory, origin, [freed EXCEPT ![o] = @ + 1])
             = ListClaims(AllocatedMemory, origin, freed) \ NextClaim(o)
<1>. DEFINE A == AllocatedMemory
            S == origin
            f == freed[o]
            n == Len(A[o])
            g == [freed EXCEPT ![o] = @ + 1]
            Before == f + 1 .. n
            After == f + 1 + 1 .. n
<1>1. f \in Nat /\ n \in Nat /\ f < n
  BY DEF ObjectsOK
<1>2. g[o] = f + 1 /\ \A x \in Object \ {o} : g[x] = freed[x]
  BY DEF ObjectsOK
<1>. HIDE DEF A, S, f, n, g
<1>3. After = Before \ {f + 1} /\ f + 1 \in Before
  BY <1>1
<1>4. NextClaim(o) = IF A[o][f + 1] = NULL THEN {}
                     ELSE {<<A[o][f + 1], S[o][f + 1], "list", o, f + 1>>}
  BY DEF NextClaim, A, S, f
<1>5. f + 1 .. Len(A[o]) = Before /\ f = freed[o] /\ g[o] + 1 .. Len(A[o]) = After
  BY <1>2 DEF f, n
<1>. HIDE DEF Before, After
<1>6. ASSUME NEW c \in ListClaims(A, S, g)
      PROVE  c \in ListClaims(A, S, freed) \ NextClaim(o)
  <2>1. PICK x \in Object :
           \E k \in g[x] + 1 .. Len(A[x]) :
             A[x][k] # NULL /\ c = <<A[x][k], S[x][k], "list", x, k>>
    BY <1>6, ListClaimsMembers
  <2>2. CASE x # o
    <3>1. c \in ListClaims(A, S, freed)
      BY <1>2, <2>1, <2>2, ListClaimsMembers
    <3>2. c[4] = x
      BY <2>1
    <3>3. \A d \in NextClaim(o) : d[4] = o
      BY <1>4
    <3>4. QED
      BY <2>2, <3>1, <3>2, <3>3
  <2>3. CASE x = o
    <3>1. PICK k \in After : A[o][k] # NULL /\ c = <<A[o][k], S[o][k], "list", o, k>>
      BY <1>5, <2>1, <2>3
    <3>2. k \in Before /\ k # f + 1
      BY <1>3, <3>1
    <3>3. c \in ListClaims(A, S, freed)
      BY <1>5, <3>1, <3>2, ListClaimsMembers
    <3>4. \A d \in NextClaim(o) : d[5] = f + 1
      BY <1>4
    <3>5. QED
      BY <3>1, <3>2, <3>3, <3>4
  <2>4. QED
    BY <2>2, <2>3
<1>7. ASSUME NEW c \in ListClaims(A, S, freed), c \notin NextClaim(o)
      PROVE  c \in ListClaims(A, S, g)
  <2>1. PICK x \in Object :
           \E k \in freed[x] + 1 .. Len(A[x]) :
             A[x][k] # NULL /\ c = <<A[x][k], S[x][k], "list", x, k>>
    BY <1>7, ListClaimsMembers
  <2>2. CASE x # o
    BY <1>2, <2>1, <2>2, ListClaimsMembers
  <2>3. CASE x = o
    <3>1. PICK k \in Before : A[o][k] # NULL /\ c = <<A[o][k], S[o][k], "list", o, k>>
      BY <1>5, <2>1, <2>3
    <3>2. k # f + 1
      BY <1>4, <1>7, <3>1
    <3>3. k \in After
      BY <1>3, <3>2
    <3>4. QED
      BY <1>5, <3>1, <3>3, ListClaimsMembers
  <2>4. QED
    BY <2>2, <2>3
<1>8. QED
  BY <1>6, <1>7 DEF A, S, g

(* Insert keeps the lists in order.                                            *)
LEMMA InsertObjects ==
    ASSUME ObjectsOK, NEW o \in Object, NEW p \in Addr \cup {NULL}, NEW text \in Seq(Characters),
           Insert(o, p, text), phase[o] = "open", p = NULL => text = <<>>,
           alive' = alive
    PROVE  ObjectsOK'
<1>. DEFINE n == Len(AllocatedMemory[o])
            A == AllocatedMemory[o]
            S == origin[o]
            B == Append(A, p)
            T == Append(S, text)
<1>1. /\ DOMAIN AllocatedMemory' = Object /\ DOMAIN origin' = Object
      /\ AllocatedMemory'[o] = B /\ origin'[o] = T
      /\ \A x \in Object \ {o} :
            AllocatedMemory'[x] = AllocatedMemory[x] /\ origin'[x] = origin[x]
      /\ phase' = phase /\ freed' = freed
  BY DEF ObjectsOK, Insert
<1>2. /\ A \in Seq(Addr \cup {NULL}) /\ S \in Seq(Seq(Characters)) /\ Len(A) = n /\ Len(S) = n
      /\ n \in Nat /\ freed[o] \in Nat /\ freed[o] <= n
      /\ \A k \in 1 .. n : A[k] = NULL => S[k] = <<>>
  BY DEF ObjectsOK
<1>. HIDE DEF A, S, n
<1>3. /\ B \in Seq(Addr \cup {NULL}) /\ T \in Seq(Seq(Characters))
      /\ Len(B) = n + 1 /\ Len(T) = n + 1 /\ B[n + 1] = p /\ T[n + 1] = text
      /\ \A k \in 1 .. n : B[k] = A[k] /\ T[k] = S[k]
  BY <1>2
<1>. HIDE DEF B, T
<1>4. Len(T) = Len(B) /\ freed[o] <= Len(B)
  BY <1>2, <1>3
<1>5. ASSUME NEW k \in 1 .. Len(B), B[k] = NULL
      PROVE  T[k] = <<>>
  <2>1. CASE k = n + 1
    BY <1>3, <1>5, <2>1
  <2>2. CASE k \in 1 .. n
    BY <1>2, <1>3, <1>5, <2>2
  <2>3. QED
    BY <1>2, <1>3, <2>1, <2>2
<1>6. /\ B \in Seq(Addr \cup {NULL}) /\ T \in Seq(Seq(Characters))
      /\ Len(T) = Len(B) /\ freed[o] <= Len(B)
      /\ \A k \in 1 .. Len(B) : B[k] = NULL => T[k] = <<>>
      /\ freed[o] = 0 /\ phase[o] = "open"
  BY <1>3, <1>4, <1>5 DEF ObjectsOK
<1>7. /\ phase' \in [Object -> {"closed", "open", "draining"}]
      /\ freed' \in [Object -> Nat]
  BY <1>1 DEF ObjectsOK
<1>8. ASSUME NEW x \in Object
      PROVE  /\ AllocatedMemory'[x] \in Seq(Addr \cup {NULL})
             /\ origin'[x] \in Seq(Seq(Characters))
             /\ Len(origin'[x]) = Len(AllocatedMemory'[x])
             /\ freed'[x] <= Len(AllocatedMemory'[x])
             /\ phase'[x] = "closed" => AllocatedMemory'[x] = <<>>
             /\ phase'[x] # "draining" => freed'[x] = 0
             /\ phase'[x] = "draining" => alive'
             /\ \A k \in 1 .. Len(AllocatedMemory'[x]) :
                    AllocatedMemory'[x][k] = NULL => origin'[x][k] = <<>>
  <2>1. CASE x = o
    BY <1>1, <1>6, <2>1
  <2>2. CASE x # o
    BY <1>1, <2>2 DEF ObjectsOK
  <2>3. QED
    BY <2>1, <2>2
<1>9. QED
  BY <1>1, <1>7, <1>8 DEF ObjectsOK

LEMMA PushFrame ==
    ASSUME NEW s \in Seq(Frame), \A k \in 1 .. Len(s) : FrameOK(s[k]),
           NEW f \in Frame, FrameOK(f),
           stack' = Append(s, f), phase' = phase
    PROVE  StackOK'
<1>. DEFINE n == Len(s)
            t == Append(s, f)
<1>1. /\ n \in Nat /\ t \in Seq(Frame) /\ Len(t) = n + 1 /\ t[n + 1] = f
      /\ \A k \in 1 .. n : t[k] = s[k]
  OBVIOUS
<1>2. 1 .. n + 1 = (1 .. n) \cup {n + 1}
  BY <1>1
<1>3. stack' = t
  OBVIOUS
<1>4. \A k \in 1 .. n : FrameOK(s[k])
  OBVIOUS
<1>. HIDE DEF n, t
<1>5. \A k \in 1 .. n + 1 : FrameOK(t[k])
  BY <1>1, <1>2, <1>4
<1>6. QED
  BY <1>1, <1>3, <1>5 DEF StackOK, FrameOK

LEMMA CallersOK ==
    ASSUME StackOK, stack # <<>>
    PROVE  FrameOK(top) /\ \A k \in 1 .. Len(callers) : FrameOK(callers[k])
<1>1. /\ Len(stack) \in Nat \ {0} /\ Len(callers) = Len(stack) - 1
      /\ \A k \in 1 .. Len(callers) : callers[k] = stack[k]
  BY TopOfStack
<1>2. Len(stack) \in 1 .. Len(stack) /\ \A k \in 1 .. Len(callers) : k \in 1 .. Len(stack)
  BY <1>1
<1>3. QED
  BY <1>1, <1>2 DEF StackOK, top

LEMMA PopFrame ==
    ASSUME StackOK, stack # <<>>, stack' = callers, phase' = phase
    PROVE  StackOK'
BY TopOfStack, CallersOK DEF StackOK, FrameOK

-----------------------------------------------------------------------------
(* One lemma per action: it keeps the invariant.                               *)

LEMMA OnNewStep ==
    ASSUME IInv, NEW o \in Object, OnNew(o)
    PROVE  IInv'
<1>1. /\ phase' = [phase EXCEPT ![o] = "open"] /\ phase[o] = "closed"
      /\ UNCHANGED <<alive, AllocatedMemory, origin, freed, heap, stack, lost>>
  BY DEF OnNew
<1>2. ObjectsOK'
  BY <1>1 DEF IInv, ObjectsOK
<1>3. StackOK'
  <2>1. \A k \in 1 .. Len(stack) : stack[k] \in Frame /\ FrameOK(stack[k])
    BY DEF IInv, StackOK
  <2>2. \A k \in 1 .. Len(stack) : stack[k].object \in Object
    BY <2>1 DEF Frame
  <2>3. \A k \in 1 .. Len(stack) : phase'[stack[k].object] = "open"
    BY <1>1, <2>1, <2>2 DEF FrameOK, IInv, ObjectsOK
  <2>4. QED
    BY <1>1, <2>1, <2>3 DEF IInv, StackOK, FrameOK
<1>4. BlocksOK' /\ Accounted(Claims, heap, lost)'
  BY <1>1 DEF IInv, BlocksOK, Accounted, Claims
<1>5. QED
  BY <1>1, <1>2, <1>3, <1>4 DEF IInv

LEMMA OnCloseStep ==
    ASSUME IInv, NEW o \in Object, OnClose(o)
    PROVE  IInv'
<1>1. /\ phase' = [phase EXCEPT ![o] = "draining"] /\ phase[o] = "open" /\ alive
      /\ \A k \in 1 .. Len(stack) : stack[k].object # o
      /\ UNCHANGED <<alive, AllocatedMemory, origin, freed, heap, stack, lost>>
  BY DEF OnClose, Running
<1>2. ObjectsOK'
  BY <1>1 DEF IInv, ObjectsOK
<1>3. StackOK'
  <2>1. \A k \in 1 .. Len(stack) : stack[k] \in Frame /\ FrameOK(stack[k])
    BY DEF IInv, StackOK
  <2>2. \A k \in 1 .. Len(stack) : stack[k].object \in Object \ {o}
    BY <1>1, <2>1 DEF Frame
  <2>3. \A k \in 1 .. Len(stack) : phase'[stack[k].object] = "open"
    BY <1>1, <2>1, <2>2 DEF FrameOK, IInv, ObjectsOK
  <2>4. QED
    BY <1>1, <2>1, <2>3 DEF IInv, StackOK, FrameOK
<1>4. BlocksOK' /\ Accounted(Claims, heap, lost)'
  BY <1>1 DEF IInv, BlocksOK, Accounted, Claims
<1>5. QED
  BY <1>1, <1>2, <1>3, <1>4 DEF IInv

\* A process that strcpy killed has no more steps, and nothing else changed.
LEMMA DeathStep ==
    ASSUME IInv, NEW o \in Object, MayConvert(o), alive' = FALSE,
           UNCHANGED <<objects, heap, stack, lost>>
    PROVE  IInv'
<1>1. \A x \in Object : phase[x] # "draining"
  BY DEF MayConvert, Running
<1>2. ObjectsOK'
  BY <1>1 DEF IInv, ObjectsOK, objects
<1>3. StackOK' /\ BlocksOK' /\ Accounted(Claims, heap, lost)'
  BY DEF IInv, StackOK, FrameOK, BlocksOK, Accounted, Claims, objects
<1>4. QED
  BY <1>2, <1>3 DEF IInv

LEMMA ConvertStringStep ==
    ASSUME IInv, NEW o \in Object, phase[o] = "open",
           NEW s \in Seq(Characters), NEW a \in Addr, a \notin DOMAIN heap,
           heap' = Put(heap, a, string_to_pointer(s)), Insert(o, a, s),
           UNCHANGED <<alive, stack, lost>>
    PROVE  IInv'
<1>. DEFINE b == string_to_pointer(s)
            q == <<a, s, "list", o, Len(AllocatedMemory[o]) + 1>>
<1>1. a # NULL
  BY PointersAssumption
<1>2. b \in Seq(Bytes) /\ IsTerminated(b) /\ IsArrayOf(b, s)
  BY StringArray DEF IsTerminated, IsArrayOf
<1>3. ObjectsOK'
  BY <1>1, InsertObjects DEF IInv
<1>4. StackOK'
  BY DEF IInv, StackOK, FrameOK, Insert
<1>. HIDE DEF b
<1>5. BlocksOK'
  BY <1>2 DEF IInv, BlocksOK, Put, b
<1>6. Claims' = Claims \cup {q}
  <2>1. ListClaims(AllocatedMemory, origin, freed)'
          = ListClaims(AllocatedMemory, origin, freed) \cup ListClaim(o, a, s)
    BY InsertClaims DEF IInv, Insert
  <2>2. ListClaim(o, a, s) = {q}
    BY <1>1 DEF ListClaim
  <2>3. StackClaims(stack)' = StackClaims(stack)
    BY DEF StackClaims
  <2>4. QED
    BY <2>1, <2>2, <2>3 DEF Claims
<1>7. q[1] = a /\ q[2] = s
  OBVIOUS
<1>. HIDE DEF q
<1>8. Accounted(Claims \cup {q}, Put(heap, q[1], b), lost)
  BY <1>2, <1>7, Add DEF IInv
<1>9. Accounted(Claims', heap', lost')
  BY <1>6, <1>7, <1>8 DEF b
<1>10. Accounted(Claims, heap, lost)'
  BY <1>9 DEF Accounted
<1>11. QED
  BY <1>3, <1>4, <1>5, <1>10 DEF IInv

LEMMA ConvertStreamStep ==
    ASSUME IInv, NEW o \in Object, phase[o] = "open", ConvertStreamToPointer(o)
    PROVE  IInv'
<1>. DEFINE f == [object |-> o, pointer |-> NULL, fullLen |-> 0, text |-> <<>>]
<1>1. stack' = Append(stack, f) /\ UNCHANGED <<alive, objects, heap, lost>>
  BY DEF ConvertStreamToPointer
<1>2. f \in Frame /\ FrameOK(f)
  BY DEF Frame, FrameOK
<1>3. StackOK'
  BY <1>1, <1>2, PushFrame DEF IInv, StackOK, objects
<1>4. ObjectsOK' /\ BlocksOK'
  BY <1>1 DEF IInv, ObjectsOK, BlocksOK, objects
<1>5. Claims' = Claims
  <2>1. StackClaim(f, Len(stack) + 1) = {}
    BY DEF StackClaim
  <2>. HIDE DEF f
  <2>2. StackClaims(stack') = StackClaims(stack)
    BY <1>1, <1>2, <2>1, StackPush DEF IInv, StackOK
  <2>3. QED
    BY <1>1, <2>2 DEF Claims, objects
<1>6. Accounted(Claims, heap, lost)'
  BY <1>1, <1>5 DEF IInv, Accounted
<1>7. QED
  BY <1>1, <1>3, <1>4, <1>6 DEF IInv
\* The top conversion's array, if it has one, is live and holds what was read so far.
LEMMA TopsArray ==
    ASSUME IInv, stack # <<>>
    PROVE  /\ top \in Frame
           /\ top.fullLen = Len(top.text)
           /\ IF top.pointer = NULL THEN top.text = <<>> /\ TopClaim = {}
              ELSE /\ <<top.pointer, top.text, "stack", Len(stack)>> \in Claims
                   /\ TopClaim = {<<top.pointer, top.text, "stack", Len(stack)>>}
                   /\ top.pointer \in DOMAIN heap \ lost
                   /\ IsArrayOf(heap[top.pointer], top.text)
           /\ NULL \notin DOMAIN heap
<1>. DEFINE c == <<top.pointer, top.text, "stack", Len(stack)>>
<1>1. top \in Frame /\ FrameOK(top)
  BY TopOfStack, CallersOK DEF IInv
<1>2. NULL \notin DOMAIN heap
  BY PointersAssumption DEF IInv, BlocksOK
<1>3. CASE top.pointer = NULL
  BY <1>1, <1>2, <1>3 DEF FrameOK, TopClaim, StackClaim
<1>4. CASE top.pointer # NULL
  <2>1. TopClaim = {c}
    BY <1>4 DEF TopClaim, StackClaim
  <2>2. c \in Claims
    BY <2>1, CallersClaims DEF IInv, Claims
  <2>3. c[1] = top.pointer /\ c[2] = top.text
    OBVIOUS
  <2>. HIDE DEF c
  <2>4. top.pointer \in DOMAIN heap \ lost /\ IsArrayOf(heap[top.pointer], top.text)
    BY <2>2, <2>3 DEF IInv, Accounted
  <2>5. QED
    BY <1>1, <1>2, <1>4, <2>1, <2>2, <2>4 DEF FrameOK, c
<1>5. QED
  BY <1>3, <1>4

LEMMA HasNoNulParts ==
    ASSUME NEW s \in Seq(Characters), NEW r \in Seq(Characters), HasNoNul(s \o r)
    PROVE  HasNoNul(s) /\ HasNoNul(r)
<1>. DEFINE n == Len(s)
            t == s \o r
<1>1. /\ n \in Nat /\ Len(r) \in Nat /\ Len(t) = n + Len(r)
      /\ \A k \in 1 .. n : t[k] = s[k]
      /\ \A k \in 1 .. Len(r) : t[n + k] = r[k]
  OBVIOUS
<1>2. \A k \in 1 .. Len(t) : t[k] # NUL
  BY DEF HasNoNul
<1>. HIDE DEF n, t
<1>3. /\ \A k \in 1 .. n : k \in 1 .. Len(t)
      /\ \A k \in 1 .. Len(r) : n + k \in 1 .. Len(t)
  BY <1>1
<1>4. QED
  BY <1>1, <1>2, <1>3 DEF HasNoNul, n

(* What realloc and strcpy do to the blocks: only the array of the innermost   *)
(* conversion changes, and its new claim holds.                                *)
LEMMA AppendedBlocks ==
    ASSUME IInv, stack # <<>>, NEW d \in Places, NEW s \in Seq(Characters), Appended(d, s)
    PROVE  /\ d \in Addr
           /\ BlocksOK'
           /\ \A q : q[1] = d /\ q[2] = top.text \o s =>
                Accounted((Claims \ TopClaim) \cup {q}, heap', lost)
           /\ \A a \in DOMAIN heap \ {top.pointer} : a \in DOMAIN heap' /\ heap'[a] = heap[a]
<1>. DEFINE p == top.pointer
            old == IF p = NULL THEN <<>> ELSE heap[p]
            b == append_to_pointer(old, top.fullLen, s)
            text == top.text
            h == Drop(heap, p)
<1>1. /\ top \in Frame /\ top.fullLen = Len(text)
      /\ IF p = NULL THEN text = <<>> /\ TopClaim = {}
         ELSE /\ TopClaim = {<<p, text, "stack", Len(stack)>>}
              /\ <<p, text, "stack", Len(stack)>> \in Claims
              /\ p \in DOMAIN heap \ lost
              /\ IsArrayOf(heap[p], text)
      /\ NULL \notin DOMAIN heap
  BY TopsArray
<1>2. heap' = Put(h, d, b)
  BY DEF Appended
<1>3. d \in Addr /\ (d \notin DOMAIN heap \/ d = p)
  BY <1>1 DEF Places, Frame
<1>4. text \in Seq(Characters) /\ Len(text) \in Nat
  BY <1>1 DEF Frame
<1>5. old \in Seq(Bytes)
  BY <1>1 DEF IInv, BlocksOK
<1>6. DOMAIN h = DOMAIN heap \ {p} /\ \A a \in DOMAIN h : h[a] = heap[a]
  BY DEF Drop
<1>7. d \notin DOMAIN h
  BY <1>3, <1>6
<1>8. b \in Seq(Bytes) /\ IsTerminated(b)
  BY <1>1, <1>4, <1>5, AppendedArray, ZenonT(40) DEF IsTerminated
<1>9. IsArrayOf(b, text \o s)
  <2>1. SUFFICES ASSUME HasNoNul(text \o s)
                 PROVE  b = (text \o s) \o <<NUL>>
    BY DEF IsArrayOf
  <2>2. HasNoNul(text) /\ HasNoNul(s)
    BY <1>4, <2>1, HasNoNulParts
  <2>3. text = <<>> \/ old = text \o <<NUL>>
    BY <1>1, <2>2 DEF IsArrayOf
  <2>. HIDE DEF old, text
  <2>4. append_to_pointer(old, Len(text), s) = (text \o s) \o <<NUL>>
    BY <1>4, <1>5, <2>2, <2>3, AppendedText
  <2>5. QED
    BY <1>1, <2>4
<1>. HIDE DEF b, h, p, text
<1>10. (p \notin DOMAIN heap /\ TopClaim = {}) \/ \E c \in Claims : TopClaim = {c} /\ c[1] = p
  BY <1>1
<1>11. Accounted(Claims \ TopClaim, h, lost)
  BY <1>10, Remove DEF IInv, h
<1>12. ASSUME NEW q, q[1] = d, q[2] = text \o s
       PROVE  Accounted((Claims \ TopClaim) \cup {q}, heap', lost)
  <2>1. Accounted((Claims \ TopClaim) \cup {q}, Put(h, q[1], b), lost)
    BY <1>7, <1>8, <1>9, <1>11, <1>12, Add
  <2>2. QED
    BY <1>2, <1>12, <2>1
<1>13. BlocksOK'
  BY <1>2, <1>3, <1>6, <1>8 DEF IInv, BlocksOK, Put
<1>14. \A a \in DOMAIN heap \ {p} : a \in DOMAIN heap' /\ heap'[a] = heap[a]
  BY <1>2, <1>6, <1>7 DEF Put
<1>15. QED
  BY <1>3, <1>12, <1>13, <1>14 DEF p, text

LEMMA ThrowStep ==
    ASSUME IInv, stack # <<>>, Throw
    PROVE  IInv'
<1>1. /\ stack' = callers /\ lost' = lost \cup ({top.pointer} \ {NULL})
      /\ UNCHANGED <<alive, objects, heap>>
  BY DEF Throw
<1>2. ObjectsOK' /\ BlocksOK'
  BY <1>1 DEF IInv, ObjectsOK, BlocksOK, objects
<1>3. StackOK'
  BY <1>1, PopFrame DEF IInv, objects
<1>4. Claims' = Claims \ TopClaim
  BY <1>1, CallersClaims DEF IInv, Claims, objects
<1>. DEFINE A == {top.pointer} \ {NULL}
<1>5. (A = {} /\ TopClaim = {}) \/ \E c \in Claims : TopClaim = {c} /\ A = {c[1]}
  BY TopsArray
<1>. HIDE DEF A
<1>6. Accounted(Claims \ TopClaim, heap, lost \cup A)
  BY <1>5, Lose DEF IInv
<1>7. Accounted(Claims, heap, lost)'
  BY <1>1, <1>4, <1>6 DEF Accounted, A
<1>8. QED
  BY <1>1, <1>2, <1>3, <1>7 DEF IInv

LEMMA ReadChunkStep ==
    ASSUME IInv, stack # <<>>, NEW s \in Seq(Characters), NEW d \in Places,
           Appended(d, s),
           stack' = Append(callers, [object |-> top.object, pointer |-> d,
                                     fullLen |-> FullLength(s), text |-> top.text \o s]),
           UNCHANGED <<alive, objects, lost>>
    PROVE  IInv'
<1>. DEFINE text == top.text \o s
            f == [object |-> top.object, pointer |-> d, fullLen |-> FullLength(s), text |-> text]
            n == Len(stack)
            q == <<d, text, "stack", n>>
<1>1. /\ d \in Addr /\ BlocksOK'
      /\ \A x : x[1] = d /\ x[2] = text =>
            Accounted((Claims \ TopClaim) \cup {x}, heap', lost)
  BY AppendedBlocks
<1>2. /\ top \in Frame /\ callers \in Seq(Frame) /\ n \in Nat \ {0} /\ Len(callers) = n - 1
      /\ FrameOK(top) /\ \A k \in 1 .. Len(callers) : FrameOK(callers[k])
  BY TopOfStack, CallersOK DEF IInv
<1>3. d # NULL
  BY <1>1, PointersAssumption
<1>4. /\ top.object \in Object /\ top.text \in Seq(Characters) /\ top.fullLen = Len(top.text)
      /\ phase[top.object] = "open"
  BY <1>2 DEF Frame, FrameOK
<1>5. text \in Seq(Characters) /\ Len(text) = top.fullLen + Len(s) /\ Len(text) \in Nat
  BY <1>4
<1>. HIDE DEF text
<1>6. f \in Frame /\ FrameOK(f)
  BY <1>1, <1>3, <1>4, <1>5 DEF Frame, FrameOK, FullLength
<1>7. stack' = Append(callers, f)
  BY DEF text
<1>8. StackOK'
  BY <1>2, <1>6, <1>7, PushFrame DEF objects
<1>9. ObjectsOK'
  BY DEF IInv, ObjectsOK, objects
<1>10. Claims' = (Claims \ TopClaim) \cup {q}
  <2>1. StackClaim(f, n) = {q}
    BY <1>3 DEF StackClaim
  <2>. HIDE DEF f
  <2>2. StackClaims(stack') = StackClaims(callers) \cup StackClaim(f, Len(callers) + 1)
    BY <1>2, <1>6, <1>7, StackPush
  <2>3. Len(callers) + 1 = n
    BY <1>2
  <2>4. ListClaims(AllocatedMemory, origin, freed) \cup StackClaims(callers) = Claims \ TopClaim
    BY CallersClaims DEF IInv
  <2>5. Claims' = ListClaims(AllocatedMemory, origin, freed) \cup StackClaims(stack')
    BY DEF Claims, objects
  <2>. HIDE DEF n, q
  <2>6. QED
    BY <2>1, <2>2, <2>3, <2>4, <2>5
<1>11. Accounted((Claims \ TopClaim) \cup {q}, heap', lost)
  <2>1. q[1] = d /\ q[2] = text
    OBVIOUS
  <2>2. QED
    BY <1>1, <2>1
<1>12. Accounted(Claims, heap, lost)'
  BY <1>10, <1>11 DEF Accounted
<1>13. QED
  BY <1>1, <1>8, <1>9, <1>12 DEF IInv

LEMMA EndOfStreamStep ==
    ASSUME IInv, stack # <<>>, NEW d \in Places, Appended(d, <<>>),
           Insert(top.object, d, top.text), stack' = callers, UNCHANGED <<alive, lost>>
    PROVE  IInv'
<1>. DEFINE o == top.object
            text == top.text
            q == <<d, text, "list", o, Len(AllocatedMemory[o]) + 1>>
<1>1. top \in Frame /\ FrameOK(top)
  BY TopOfStack, CallersOK DEF IInv
<1>2. o \in Object /\ text \in Seq(Characters) /\ phase[o] = "open"
  BY <1>1 DEF Frame, FrameOK
<1>3. <<>> \in Seq(Characters) /\ text \o <<>> = text
  BY <1>2
<1>4. /\ d \in Addr /\ BlocksOK'
      /\ \A x : x[1] = d /\ x[2] = text =>
            Accounted((Claims \ TopClaim) \cup {x}, heap', lost)
  BY <1>3, AppendedBlocks
<1>5. d # NULL
  BY <1>4, PointersAssumption
<1>. HIDE DEF o, text
<1>6. Insert(o, d, text)
  BY DEF o, text
<1>7. ObjectsOK'
  BY <1>2, <1>4, <1>5, <1>6, InsertObjects DEF IInv
<1>8. StackOK'
  BY <1>6, PopFrame DEF IInv, Insert
<1>9. Claims' = (Claims \ TopClaim) \cup {q}
  <2>1. ListClaims(AllocatedMemory, origin, freed)'
          = ListClaims(AllocatedMemory, origin, freed) \cup ListClaim(o, d, text)
    BY <1>2, <1>4, <1>6, InsertClaims DEF IInv, Insert
  <2>2. ListClaim(o, d, text) = {q}
    BY <1>5 DEF ListClaim
  <2>3. ListClaims(AllocatedMemory, origin, freed) \cup StackClaims(callers) = Claims \ TopClaim
    BY CallersClaims DEF IInv
  <2>4. Claims' = ListClaims(AllocatedMemory, origin, freed)' \cup StackClaims(callers)
    BY DEF Claims
  <2>. HIDE DEF q
  <2>5. QED
    BY <2>1, <2>2, <2>3, <2>4
<1>10. Accounted((Claims \ TopClaim) \cup {q}, heap', lost)
  <2>1. q[1] = d /\ q[2] = text
    OBVIOUS
  <2>2. QED
    BY <1>4, <2>1
<1>11. Accounted(Claims, heap, lost)'
  BY <1>9, <1>10 DEF Accounted
<1>12. QED
  BY <1>4, <1>7, <1>8, <1>11 DEF IInv

LEMMA ReadErrorStep ==
    ASSUME IInv, stack # <<>>, ReadError
    PROVE  IInv'
<1>. DEFINE o == top.object
            p == top.pointer
            text == top.text
            Q == ListClaim(o, p, text)
<1>1. top \in Frame /\ FrameOK(top)
  BY TopOfStack, CallersOK DEF IInv
<1>2. /\ o \in Object /\ p \in Addr \cup {NULL} /\ text \in Seq(Characters)
      /\ phase[o] = "open" /\ (p = NULL => text = <<>>)
  BY <1>1 DEF Frame, FrameOK
<1>3. /\ Insert(o, p, text) /\ stack' = callers
      /\ UNCHANGED <<alive, heap, lost>>
  BY DEF ReadError
<1>4. \/ TopClaim = {} /\ Q = {}
      \/ \E c \in Claims : \E q \in Q :
            TopClaim = {c} /\ Q = {q} /\ c[1] = q[1] /\ c[2] = q[2]
  <2>1. CASE p = NULL
    BY <2>1, TopsArray DEF ListClaim
  <2>2. CASE p # NULL
    <3>. DEFINE c == <<p, text, "stack", Len(stack)>>
                q == <<p, text, "list", o, Len(AllocatedMemory[o]) + 1>>
    <3>1. c \in Claims /\ TopClaim = {c}
      BY <2>2, TopsArray
    <3>2. Q = {q}
      BY <2>2 DEF ListClaim
    <3>3. c[1] = q[1] /\ c[2] = q[2]
      OBVIOUS
    <3>. HIDE DEF c, q, Q
    <3>4. QED
      BY <3>1, <3>2, <3>3
  <2>3. QED
    BY <2>1, <2>2
<1>. HIDE DEF o, p, text, Q
<1>5. ObjectsOK'
  BY <1>2, <1>3, InsertObjects DEF IInv
<1>6. StackOK'
  BY <1>3, PopFrame DEF IInv, Insert
<1>7. BlocksOK'
  BY <1>3 DEF IInv, BlocksOK
<1>8. Claims' = (Claims \ TopClaim) \cup Q
  <2>1. ListClaims(AllocatedMemory, origin, freed)'
          = ListClaims(AllocatedMemory, origin, freed) \cup Q
    BY <1>2, <1>3, InsertClaims DEF IInv, Insert, Q
  <2>2. ListClaims(AllocatedMemory, origin, freed) \cup StackClaims(callers) = Claims \ TopClaim
    BY CallersClaims DEF IInv
  <2>3. Claims' = ListClaims(AllocatedMemory, origin, freed)' \cup StackClaims(callers)
    BY <1>3 DEF Claims
  <2>4. QED
    BY <2>1, <2>2, <2>3
<1>9. Accounted((Claims \ TopClaim) \cup Q, heap, lost)
  BY <1>4, HandOver DEF IInv
<1>10. Accounted(Claims, heap, lost)'
  BY <1>3, <1>8, <1>9 DEF Accounted
<1>11. QED
  BY <1>3, <1>5, <1>6, <1>7, <1>10 DEF IInv
\* The next entry of a list that is being freed, if it is not NULL, is a claim.
LEMMA NextEntry ==
    ASSUME IInv, NEW o \in Object, freed[o] < Len(AllocatedMemory[o])
    PROVE  LET p == AllocatedMemory[o][freed[o] + 1]
           IN  /\ \/ p \notin DOMAIN heap /\ NextClaim(o) = {}
                  \/ \E c \in Claims : NextClaim(o) = {c} /\ c[1] = p
               /\ freed[o] + 1 \in Pending(o)
<1>. DEFINE k == freed[o] + 1
            p == AllocatedMemory[o][k]
            c == <<p, origin[o][k], "list", o, k>>
<1>1. k \in Pending(o)
  BY DEF IInv, ObjectsOK, Pending
<1>2. CASE p = NULL
  <2>1. p \notin DOMAIN heap
    BY <1>2, PointersAssumption DEF IInv, BlocksOK
  <2>2. QED
    BY <1>1, <1>2, <2>1 DEF NextClaim
<1>3. CASE p # NULL
  <2>1. c \in ListClaims(AllocatedMemory, origin, freed)
    BY <1>1, <1>3, ListClaimsMembers DEF Pending
  <2>2. NextClaim(o) = {c}
    BY <1>3 DEF NextClaim
  <2>3. c[1] = p
    OBVIOUS
  <2>. HIDE DEF c
  <2>4. QED
    BY <1>1, <2>1, <2>2, <2>3 DEF Claims
<1>4. QED
  BY <1>2, <1>3

LEMMA FreeStep ==
    ASSUME IInv, NEW o \in Object, OnClose_free(o)
    PROVE  IInv'
<1>. DEFINE p == AllocatedMemory[o][freed[o] + 1]
<1>1. /\ phase[o] = "draining" /\ freed[o] < Len(AllocatedMemory[o])
      /\ heap' = Drop(heap, p)
      /\ freed' = [freed EXCEPT ![o] = @ + 1]
      /\ UNCHANGED <<alive, phase, AllocatedMemory, origin, stack, lost>>
  BY DEF OnClose_free, free_pointer
<1>2. ObjectsOK'
  <2>1. /\ freed[o] + 1 \in Nat /\ freed[o] + 1 <= Len(AllocatedMemory[o])
        /\ freed' \in [Object -> Nat]
    BY <1>1 DEF IInv, ObjectsOK
  <2>2. /\ freed'[o] = freed[o] + 1
        /\ \A x \in Object \ {o} : freed'[x] = freed[x]
    BY <1>1 DEF IInv, ObjectsOK
  <2>3. ASSUME NEW x \in Object
        PROVE  /\ freed'[x] <= Len(AllocatedMemory[x])
               /\ phase[x] # "draining" => freed'[x] = 0
    <3>1. CASE x = o
      BY <1>1, <2>1, <2>2, <3>1
    <3>2. CASE x # o
      BY <2>2, <3>2 DEF IInv, ObjectsOK
    <3>3. QED
      BY <3>1, <3>2
  <2>4. QED
    BY <1>1, <2>1, <2>3 DEF IInv, ObjectsOK
<1>3. StackOK'
  BY <1>1 DEF IInv, StackOK, FrameOK
<1>4. BlocksOK'
  BY <1>1 DEF IInv, BlocksOK, Drop
<1>5. Claims' = Claims \ NextClaim(o)
  <2>1. ListClaims(AllocatedMemory, origin, freed)'
          = ListClaims(AllocatedMemory, origin, freed) \ NextClaim(o)
    <3>1. ListClaims(AllocatedMemory, origin, [freed EXCEPT ![o] = @ + 1])
            = ListClaims(AllocatedMemory, origin, freed) \ NextClaim(o)
      BY <1>1, FreedClaims DEF IInv
    <3>2. ListClaims(AllocatedMemory, origin, freed)'
            = ListClaims(AllocatedMemory, origin, [freed EXCEPT ![o] = @ + 1])
      BY <1>1 DEF ListClaims
    <3>3. QED
      BY <3>1, <3>2
  <2>2. \A c \in NextClaim(o) : c[3] = "list"
    BY DEF NextClaim
  <2>3. \A c \in StackClaims(stack) : c[3] = "stack"
    BY DEF StackClaims
  <2>4. Claims' = ListClaims(AllocatedMemory, origin, freed)' \cup StackClaims(stack)
    BY <1>1 DEF Claims
  <2>5. "list" # "stack"
    OBVIOUS
  <2>6. QED
    BY <2>1, <2>2, <2>3, <2>4, <2>5 DEF Claims
<1>6. \/ p \notin DOMAIN heap /\ NextClaim(o) = {}
      \/ \E c \in Claims : NextClaim(o) = {c} /\ c[1] = p
  BY <1>1, NextEntry
<1>. HIDE DEF p
<1>7. Accounted(Claims \ NextClaim(o), Drop(heap, p), lost)
  BY <1>6, Remove DEF IInv
<1>8. Accounted(Claims, heap, lost)'
  BY <1>1, <1>5, <1>7 DEF Accounted
<1>9. QED
  BY <1>1, <1>2, <1>3, <1>4, <1>8 DEF IInv

LEMMA EndStep ==
    ASSUME IInv, NEW o \in Object, OnClose_end(o)
    PROVE  IInv'
<1>1. /\ phase[o] = "draining" /\ freed[o] = Len(AllocatedMemory[o])
      /\ phase' = [phase EXCEPT ![o] = "closed"]
      /\ AllocatedMemory' = [AllocatedMemory EXCEPT ![o] = <<>>]
      /\ origin' = [origin EXCEPT ![o] = <<>>]
      /\ freed' = [freed EXCEPT ![o] = 0]
      /\ UNCHANGED <<alive, heap, stack, lost>>
  BY DEF OnClose_end
<1>2. /\ AllocatedMemory'[o] = <<>> /\ origin'[o] = <<>> /\ freed'[o] = 0 /\ phase'[o] = "closed"
      /\ \A x \in Object \ {o} :
            /\ AllocatedMemory'[x] = AllocatedMemory[x]
            /\ origin'[x] = origin[x] /\ freed'[x] = freed[x] /\ phase'[x] = phase[x]
      /\ DOMAIN AllocatedMemory' = Object /\ DOMAIN origin' = Object
      /\ freed' \in [Object -> Nat] /\ phase' \in [Object -> {"closed", "open", "draining"}]
  BY <1>1 DEF IInv, ObjectsOK
<1>3. ObjectsOK'
  <2>1. <<>> \in Seq(Addr \cup {NULL}) /\ <<>> \in Seq(Seq(Characters)) /\ Len(<<>>) = 0
    OBVIOUS
  <2>2. ASSUME NEW x \in Object
        PROVE  /\ AllocatedMemory'[x] \in Seq(Addr \cup {NULL})
               /\ origin'[x] \in Seq(Seq(Characters))
               /\ Len(origin'[x]) = Len(AllocatedMemory'[x])
               /\ freed'[x] <= Len(AllocatedMemory'[x])
               /\ phase'[x] = "closed" => AllocatedMemory'[x] = <<>>
               /\ phase'[x] # "draining" => freed'[x] = 0
               /\ phase'[x] = "draining" => alive
               /\ \A k \in 1 .. Len(AllocatedMemory'[x]) :
                    AllocatedMemory'[x][k] = NULL => origin'[x][k] = <<>>
    <3>1. CASE x = o
      BY <1>2, <2>1, <3>1
    <3>2. CASE x # o
      BY <1>2, <3>2 DEF IInv, ObjectsOK
    <3>3. QED
      BY <3>1, <3>2
  <2>3. QED
    BY <1>1, <1>2, <2>2 DEF ObjectsOK
<1>4. StackOK'
  <2>1. ASSUME NEW k \in 1 .. Len(stack)
        PROVE  phase'[stack[k].object] = "open"
    <3>1. stack[k] \in Frame /\ phase[stack[k].object] = "open"
      BY DEF IInv, StackOK, FrameOK
    <3>2. stack[k].object \in Object \ {o}
      BY <1>1, <3>1 DEF Frame
    <3>3. QED
      BY <1>2, <3>1, <3>2
  <2>2. QED
    BY <1>1, <2>1 DEF IInv, StackOK, FrameOK
<1>5. BlocksOK'
  BY <1>1 DEF IInv, BlocksOK
<1>6. Claims' = Claims
  <2>. DEFINE n == Len(AllocatedMemory[o])
  <2>1. n \in Nat /\ n + 1 .. n = {} /\ 0 + 1 .. Len(<<>>) = {}
    BY DEF IInv, ObjectsOK
  <2>2. freed[o] + 1 .. Len(AllocatedMemory[o]) = {} /\ freed'[o] + 1 .. Len(AllocatedMemory'[o]) = {}
    BY <1>1, <1>2, <2>1
  <2>3. ListClaims(AllocatedMemory', origin', freed') = ListClaims(AllocatedMemory, origin, freed)
    <3>1. ASSUME NEW c, NEW x \in Object
          PROVE  (\E k \in freed'[x] + 1 .. Len(AllocatedMemory'[x]) :
                    AllocatedMemory'[x][k] # NULL
                    /\ c = <<AllocatedMemory'[x][k], origin'[x][k], "list", x, k>>)
                 <=> (\E k \in freed[x] + 1 .. Len(AllocatedMemory[x]) :
                        AllocatedMemory[x][k] # NULL
                        /\ c = <<AllocatedMemory[x][k], origin[x][k], "list", x, k>>)
      <4>1. CASE x = o
        BY <2>2, <4>1
      <4>2. CASE x # o
        BY <1>2, <4>2
      <4>3. QED
        BY <4>1, <4>2
    <3>2. \A c : c \in ListClaims(AllocatedMemory', origin', freed')
                   <=> c \in ListClaims(AllocatedMemory, origin, freed)
      BY <3>1, ListClaimsMembers
    <3>3. QED
      BY <3>2
  <2>4. Claims' = ListClaims(AllocatedMemory', origin', freed') \cup StackClaims(stack)
    BY <1>1 DEF Claims, ListClaims
  <2>5. QED
    BY <2>3, <2>4 DEF Claims
<1>7. Accounted(Claims, heap, lost)'
  BY <1>1, <1>6 DEF IInv, Accounted
<1>8. QED
  BY <1>1, <1>3, <1>4, <1>5, <1>7 DEF IInv

-----------------------------------------------------------------------------
(* The invariant is inductive.                                                 *)

LEMMA StringsAreSequences ==
    ASSUME NEW m, NEW s \in Strings(m)
    PROVE  s \in Seq(Characters)
BY DEF Strings

LEMMA Start == Init => IInv
<1>. SUFFICES ASSUME Init
              PROVE  IInv
  OBVIOUS
<1>1. \A o \in Object : /\ AllocatedMemory[o] = <<>> /\ origin[o] = <<>>
                        /\ freed[o] = 0 /\ phase[o] = "closed"
  BY DEF Init
<1>2. ObjectsOK
  BY <1>1 DEF Init, ObjectsOK
<1>3. StackOK
  BY DEF Init, StackOK
<1>4. DOMAIN heap = {} /\ BlocksOK
  BY DEF Init, BlocksOK
<1>5. Claims = {}
  <2>1. StackClaims(stack) = {}
    BY DEF Init, StackClaims
  <2>2. \A o \in Object : freed[o] + 1 .. Len(AllocatedMemory[o]) = {}
    <3>1. Len(<<>>) = 0 /\ 0 + 1 .. 0 = {}
      OBVIOUS
    <3>2. QED
      BY <1>1, <3>1
  <2>3. \A c : c \notin ListClaims(AllocatedMemory, origin, freed)
    BY <2>2, ListClaimsMembers
  <2>4. QED
    BY <2>1, <2>3 DEF Claims
<1>6. Accounted(Claims, heap, lost)
  BY <1>4, <1>5 DEF Init, Accounted
<1>7. QED
  BY <1>2, <1>3, <1>4, <1>6 DEF Init, IInv

LEMMA ReadStep ==
    ASSUME IInv, NEW n \in 1 .. MaxDepth, ReadReturns(n)
    PROVE  IInv'
<1>1. stack # <<>>
  BY PointersAssumption DEF ReadReturns
<1>2. CASE ReadChunk
  <2>1. CASE Throw
    BY <1>1, <2>1, ThrowStep
  <2>2. CASE ~Throw
    <3>1. PICK s \in Strings(MaxText - Len(top.text)) \ {<<>>}, d \in Places :
            /\ Appended(d, s)
            /\ stack' = Append(callers,
                            [object |-> top.object, pointer |-> d,
                             fullLen |-> FullLength(s), text |-> top.text \o s])
            /\ UNCHANGED <<alive, objects, lost>>
      BY <1>2, <2>2 DEF ReadChunk
    <3>2. s \in Seq(Characters)
      BY StringsAreSequences
    <3>3. QED
      BY <1>1, <3>1, <3>2, ReadChunkStep
  <2>3. QED
    BY <2>1, <2>2
<1>3. CASE EndOfStream
  BY <1>1, <1>3, EndOfStreamStep, ThrowStep DEF EndOfStream
<1>4. CASE ReadError
  BY <1>1, <1>4, ReadErrorStep
<1>5. CASE Throw
  BY <1>1, <1>5, ThrowStep
<1>6. QED
  BY <1>2, <1>3, <1>4, <1>5 DEF ReadReturns

LEMMA Step == IInv /\ [Next]_vars => IInv'
<1>. SUFFICES ASSUME IInv, [Next]_vars
              PROVE  IInv'
  OBVIOUS
<1>1. ASSUME NEW o \in Object, OnNew(o)
      PROVE  IInv'
  BY <1>1, OnNewStep
<1>2. ASSUME NEW o \in Object, ConvertStringToPointer(o)
      PROVE  IInv'
  <2>1. MayConvert(o) /\ phase[o] = "open"
    BY <1>2 DEF ConvertStringToPointer, MayConvert
  <2>2. ASSUME NEW s \in Strings(MaxText), NEW a \in Addr \ DOMAIN heap,
               heap' = Put(heap, a, string_to_pointer(s)), Insert(o, a, s),
               UNCHANGED <<alive, stack, lost>>
        PROVE  IInv'
    <3>1. s \in Seq(Characters)
      BY StringsAreSequences
    <3>2. QED
      BY <2>1, <2>2, <3>1, ConvertStringStep
  <2>3. CASE alive' = FALSE /\ UNCHANGED <<objects, heap, stack, lost>>
    BY <2>1, <2>3, DeathStep
  <2>4. QED
    BY <1>2, <2>2, <2>3 DEF ConvertStringToPointer
<1>3. ASSUME NEW o \in Object, ConvertStreamToPointer(o)
      PROVE  IInv'
  BY <1>3, ConvertStreamStep DEF ConvertStreamToPointer, MayConvert
<1>4. ASSUME NEW o \in Object, OnClose(o)
      PROVE  IInv'
  BY <1>4, OnCloseStep
<1>5. ASSUME NEW o \in Object, Closing(o)
      PROVE  IInv'
  BY <1>5, FreeStep, EndStep DEF Closing
<1>6. ASSUME NEW n \in 1 .. MaxDepth, ReadReturns(n)
      PROVE  IInv'
  BY <1>6, ReadStep
<1>7. CASE UNCHANGED vars
  BY <1>7 DEF vars, objects, IInv, ObjectsOK, StackOK, FrameOK, BlocksOK, Accounted, Claims
<1>8. QED
  BY <1>1, <1>2, <1>3, <1>4, <1>5, <1>6, <1>7 DEF Next

LEMMA Invariance == Spec => []IInv
BY Start, Step, PTL DEF Spec
-----------------------------------------------------------------------------
(* What the invariant says of lists and conversions.                           *)

LEMMA ListedIsClaim ==
    ASSUME IInv, NEW o \in Object, NEW k \in Pending(o), AllocatedMemory[o][k] # NULL
    PROVE  <<AllocatedMemory[o][k], origin[o][k], "list", o, k>> \in Claims
BY ListClaimsMembers DEF Claims, Pending

LEMMA LocalIsClaim ==
    ASSUME IInv, NEW k \in 1 .. Len(stack), stack[k].pointer # NULL
    PROVE  <<stack[k].pointer, stack[k].text, "stack", k>> \in Claims
BY DEF Claims, StackClaims

LEMMA ClaimsAre ==
    ASSUME NEW c \in Claims
    PROVE  \/ \E o \in Object : \E k \in Pending(o) :
                /\ AllocatedMemory[o][k] # NULL
                /\ c = <<AllocatedMemory[o][k], origin[o][k], "list", o, k>>
           \/ \E k \in 1 .. Len(stack) :
                /\ stack[k].pointer # NULL
                /\ c = <<stack[k].pointer, stack[k].text, "stack", k>>
BY ListClaimsMembers DEF Claims, StackClaims, Pending

LEMMA OwnedAre ==
    ASSUME IInv, NEW a
    PROVE  a \in Owned <=> \E c \in Claims : c[1] = a
<1>1. ASSUME a \in Local
      PROVE  \E c \in Claims : c[1] = a
  <2>1. PICK k \in 1 .. Len(stack) : a = stack[k].pointer /\ stack[k].pointer # NULL
    BY <1>1 DEF Local
  <2>2. <<stack[k].pointer, stack[k].text, "stack", k>> \in Claims
    BY <2>1, LocalIsClaim
  <2>3. QED
    BY <2>1, <2>2
<1>2. ASSUME NEW o \in Object, a \in Listed(o)
      PROVE  \E c \in Claims : c[1] = a
  <2>1. PICK k \in Pending(o) : a = AllocatedMemory[o][k] /\ AllocatedMemory[o][k] # NULL
    BY <1>2 DEF Listed
  <2>2. <<AllocatedMemory[o][k], origin[o][k], "list", o, k>> \in Claims
    BY <2>1, ListedIsClaim
  <2>3. QED
    BY <2>1, <2>2
<1>3. ASSUME NEW c \in Claims, c[1] = a
      PROVE  a \in Owned
  <2>1. CASE \E o \in Object : \E k \in Pending(o) :
                /\ AllocatedMemory[o][k] # NULL
                /\ c = <<AllocatedMemory[o][k], origin[o][k], "list", o, k>>
    <3>1. \E o \in Object : \E k \in Pending(o) :
              AllocatedMemory[o][k] # NULL /\ a = AllocatedMemory[o][k]
      BY <1>3, <2>1
    <3>2. \E o \in Object : a \in Listed(o)
      BY <3>1 DEF Listed
    <3>3. QED
      BY <3>2 DEF Owned
  <2>2. CASE \E k \in 1 .. Len(stack) :
                /\ stack[k].pointer # NULL
                /\ c = <<stack[k].pointer, stack[k].text, "stack", k>>
    <3>1. \E k \in 1 .. Len(stack) : stack[k].pointer # NULL /\ a = stack[k].pointer
      BY <1>3, <2>2
    <3>2. QED
      BY <3>1 DEF Owned, Local
  <2>3. QED
    BY <2>1, <2>2, ClaimsAre
<1>4. a \in Owned <=> a \in Local \/ \E o \in Object : a \in Listed(o)
  BY DEF Owned
<1>5. QED
  BY <1>1, <1>2, <1>3, <1>4

LEMMA TypesFollow == IInv => TypeOK
<1>. SUFFICES ASSUME IInv
              PROVE  TypeOK
  OBVIOUS
<1>1. lost \subseteq Addr
  BY DEF IInv, Accounted, BlocksOK
<1>2. QED
  BY <1>1 DEF IInv, ObjectsOK, StackOK, BlocksOK, Frame, Bytes, TypeOK

LEMMA OwnersFollow == IInv => OneOwner
<1>. SUFFICES ASSUME IInv
              PROVE  OneOwner
  OBVIOUS
<1>1. Owned \subseteq DOMAIN heap \ lost
  BY OwnedAre DEF IInv, Accounted
<1>2. ASSUME NEW o \in Object, NEW k \in Pending(o), AllocatedMemory[o][k] # NULL
      PROVE  /\ AllocatedMemory[o][k] \notin Local
             /\ \A q \in Object : \A l \in Pending(q) :
                    AllocatedMemory[q][l] = AllocatedMemory[o][k] => q = o /\ l = k
  <2>. DEFINE c == <<AllocatedMemory[o][k], origin[o][k], "list", o, k>>
  <2>1. c \in Claims
    BY <1>2, ListedIsClaim
  <2>2. ASSUME AllocatedMemory[o][k] \in Local
        PROVE  FALSE
    <3>1. PICK l \in 1 .. Len(stack) :
              AllocatedMemory[o][k] = stack[l].pointer /\ stack[l].pointer # NULL
      BY <2>2 DEF Local
    <3>. DEFINE d == <<stack[l].pointer, stack[l].text, "stack", l>>
    <3>2. d \in Claims
      BY <3>1, LocalIsClaim
    <3>3. c[1] = d[1] /\ c[3] = "list" /\ d[3] = "stack"
      BY <3>1
    <3>. HIDE DEF c, d
    <3>4. QED
      BY <2>1, <3>2, <3>3 DEF IInv, Accounted
  <2>3. ASSUME NEW q \in Object, NEW l \in Pending(q),
               AllocatedMemory[q][l] = AllocatedMemory[o][k]
        PROVE  q = o /\ l = k
    <3>. DEFINE d == <<AllocatedMemory[q][l], origin[q][l], "list", q, l>>
    <3>1. d \in Claims
      BY <1>2, <2>3, ListedIsClaim
    <3>2. c[1] = d[1] /\ c[4] = o /\ c[5] = k /\ d[4] = q /\ d[5] = l
      BY <2>3
    <3>. HIDE DEF c, d
    <3>3. c = d
      BY <2>1, <3>1, <3>2 DEF IInv, Accounted
    <3>4. QED
      BY <3>2, <3>3
  <2>4. QED
    BY <2>2, <2>3
<1>3. ASSUME NEW k \in 1 .. Len(stack), NEW l \in 1 .. Len(stack),
             stack[k].pointer = stack[l].pointer, stack[k].pointer # NULL
      PROVE  k = l
  <2>. DEFINE c == <<stack[k].pointer, stack[k].text, "stack", k>>
              d == <<stack[l].pointer, stack[l].text, "stack", l>>
  <2>1. c \in Claims /\ d \in Claims
    BY <1>3, LocalIsClaim
  <2>2. c[1] = d[1] /\ c[4] = k /\ d[4] = l
    BY <1>3
  <2>. HIDE DEF c, d
  <2>3. c = d
    BY <2>1, <2>2 DEF IInv, Accounted
  <2>4. QED
    BY <2>2, <2>3
<1>4. QED
  BY <1>1, <1>2, <1>3 DEF OneOwner

LEMMA LeaksFollow == IInv => OnlyExceptionsLeak /\ Terminated
<1>. SUFFICES ASSUME IInv
              PROVE  OnlyExceptionsLeak /\ Terminated
  OBVIOUS
<1>1. \A a \in DOMAIN heap \ lost : a \in Owned
  BY OwnedAre DEF IInv, Accounted
<1>2. QED
  BY <1>1 DEF OnlyExceptionsLeak, Terminated, IInv, Accounted, IsTerminated

LEMMA TextsFollow == IInv => TextArrives
<1>. SUFFICES ASSUME IInv
              PROVE  TextArrives
  OBVIOUS
<1>1. ASSUME NEW o \in Object, NEW k \in Pending(o), HasNoNul(origin[o][k])
      PROVE  LET p == AllocatedMemory[o][k]
             IN  IF p = NULL THEN origin[o][k] = <<>> ELSE Holds(p, origin[o][k])
  <2>1. CASE AllocatedMemory[o][k] = NULL
    <3>1. freed[o] \in Nat /\ Len(AllocatedMemory[o]) \in Nat
      BY DEF IInv, ObjectsOK
    <3>2. k \in 1 .. Len(AllocatedMemory[o])
      BY <3>1 DEF Pending
    <3>3. QED
      BY <2>1, <3>2 DEF IInv, ObjectsOK
  <2>2. CASE AllocatedMemory[o][k] # NULL
    <3>. DEFINE c == <<AllocatedMemory[o][k], origin[o][k], "list", o, k>>
    <3>1. c \in Claims
      BY <2>2, ListedIsClaim
    <3>2. c[1] = AllocatedMemory[o][k] /\ c[2] = origin[o][k]
      OBVIOUS
    <3>. HIDE DEF c
    <3>3. IsArrayOf(heap[AllocatedMemory[o][k]], origin[o][k])
      BY <3>1, <3>2 DEF IInv, Accounted
    <3>4. QED
      BY <1>1, <2>2, <3>3 DEF IsArrayOf, Holds
  <2>3. QED
    BY <2>1, <2>2
<1>2. ASSUME NEW k \in 1 .. Len(stack), HasNoNul(stack[k].text)
      PROVE  IF stack[k].pointer = NULL THEN stack[k].text = <<>>
             ELSE Holds(stack[k].pointer, stack[k].text)
  <2>1. CASE stack[k].pointer = NULL
    BY <2>1 DEF IInv, StackOK, FrameOK
  <2>2. CASE stack[k].pointer # NULL
    <3>. DEFINE c == <<stack[k].pointer, stack[k].text, "stack", k>>
    <3>1. c \in Claims
      BY <2>2, LocalIsClaim
    <3>2. c[1] = stack[k].pointer /\ c[2] = stack[k].text
      OBVIOUS
    <3>. HIDE DEF c
    <3>3. IsArrayOf(heap[stack[k].pointer], stack[k].text)
      BY <3>1, <3>2 DEF IInv, Accounted
    <3>4. QED
      BY <1>2, <2>2, <3>3 DEF IsArrayOf, Holds
  <2>3. QED
    BY <2>1, <2>2
<1>3. QED
  BY <1>1, <1>2 DEF TextArrives

-----------------------------------------------------------------------------
(* The theorems.                                                               *)

(* Type correctness: in particular no object has freed more than its list has. *)
THEOREM TypeCorrect == Spec => []TypeOK
BY Invariance, TypesFollow, PTL

(* No array is freed twice, whichever objects are closed in whichever order,   *)
(* however conversions nest and malloc and realloc use addresses again         *)
(* (cna.xml:560-562, 617, 648-655).                                            *)
THEOREM NoDoubleFree == Spec => []OneOwner
BY Invariance, OwnersFollow, PTL

(* Every live block has an owner that will free it, but those of conversions   *)
(* that an exception ended (cna.xml:646-651).                                  *)
THEOREM OthersReclaimed == Spec => []OnlyExceptionsLeak
BY Invariance, LeaksFollow, PTL

(* Every C string ends inside its array (cna.c:379-390, 477-484).              *)
THEOREM StringsEnd == Spec => []Terminated
BY Invariance, LeaksFollow, PTL

(* A text without NUL arrives whole, however Read cuts it and realloc moves it *)
(* (cna.c:463-489, cna.xml:644-655).                                           *)
THEOREM TextsArriveWhole == Spec => []TextArrives
BY Invariance, TextsFollow, PTL
-----------------------------------------------------------------------------
(* What a step does to the pointers an object has handed out.                  *)

LEMMA ListedAreOwned ==
    ASSUME IInv, NEW o \in Object, NEW p \in Listed(o)
    PROVE  /\ p \in DOMAIN heap /\ p \in Addr
           /\ stack # <<>> => p # top.pointer
           /\ \A x \in Object : p \in Listed(x) => x = o
<1>1. PICK k \in Pending(o) : p = AllocatedMemory[o][k] /\ p # NULL
  BY DEF Listed
<1>2. OneOwner
  BY OwnersFollow
<1>3. p \in DOMAIN heap
  BY <1>2 DEF OneOwner, Owned
<1>4. p \notin Local
  BY <1>1, <1>2 DEF OneOwner
<1>5. stack # <<>> => p # top.pointer
  <2>1. stack # <<>> => Len(stack) \in 1 .. Len(stack)
    BY TopOfStack DEF IInv
  <2>2. QED
    BY <1>1, <1>4, <2>1 DEF Local, top
<1>6. ASSUME NEW x \in Object, p \in Listed(x)
      PROVE  x = o
  <2>1. PICK l \in Pending(x) : p = AllocatedMemory[x][l]
    BY <1>6 DEF Listed
  <2>2. QED
    BY <1>1, <1>2, <2>1 DEF OneOwner
<1>7. QED
  BY <1>3, <1>5, <1>6 DEF IInv, BlocksOK

LEMMA InsertListed ==
    ASSUME IInv, NEW o \in Object, NEW p \in Addr \cup {NULL}, NEW text,
           Insert(o, p, text)
    PROVE  \A x \in Object :
             Listed(x)' = IF x = o THEN Listed(x) \cup ({p} \ {NULL}) ELSE Listed(x)
<1>. DEFINE A == AllocatedMemory[o]
            B == Append(A, p)
            n == Len(A)
            f == freed[o]
            Old == f + 1 .. n
            New == f + 1 .. n + 1
<1>1. /\ A \in Seq(Addr \cup {NULL}) /\ n \in Nat /\ f \in Nat /\ f <= n
      /\ AllocatedMemory'[o] = B /\ freed' = freed
      /\ \A x \in Object \ {o} : AllocatedMemory'[x] = AllocatedMemory[x]
  BY DEF IInv, ObjectsOK, Insert
<1>2. New = Old \cup {n + 1} /\ Old \subseteq 1 .. n
  BY <1>1
<1>3. Len(B) = n + 1 /\ B[n + 1] = p /\ \A k \in 1 .. n : B[k] = A[k]
  BY <1>1
<1>4. Listed(o)' = {B[k] : k \in New} \ {NULL}
  BY <1>1, <1>3 DEF Listed, Pending
<1>5. Listed(o) = {A[k] : k \in Old} \ {NULL}
  BY DEF Listed, Pending
<1>. HIDE DEF A, B, n, f, Old, New
<1>6. {B[k] : k \in New} = {A[k] : k \in Old} \cup {p}
  BY <1>2, <1>3
<1>7. \A x \in Object \ {o} : Listed(x)' = Listed(x)
  BY <1>1 DEF Listed, Pending
<1>8. QED
  BY <1>4, <1>5, <1>6, <1>7

(* A step that leaves lists and counts alone.                                  *)
LEMMA SameListed ==
    ASSUME UNCHANGED <<AllocatedMemory, freed>>
    PROVE  \A x \in Object : Listed(x)' = Listed(x)
BY DEF Listed, Pending

LEMMA FreedListed ==
    ASSUME IInv, NEW o \in Object, OnClose_free(o)
    PROVE  LET p == AllocatedMemory[o][freed[o] + 1]
           IN  /\ p = NULL \/ p \in Listed(o)
               /\ \A x \in Object : Listed(x)' = IF x = o THEN Listed(x) \ {p} ELSE Listed(x)
<1>. DEFINE A == AllocatedMemory[o]
            n == Len(A)
            f == freed[o]
            p == A[f + 1]
            Before == f + 1 .. n
            After == f + 1 + 1 .. n
<1>1. /\ f \in Nat /\ n \in Nat /\ f < n
      /\ AllocatedMemory' = AllocatedMemory /\ freed'[o] = f + 1
      /\ \A x \in Object \ {o} : freed'[x] = freed[x]
  BY DEF IInv, ObjectsOK, OnClose_free
<1>2. Before = After \cup {f + 1} /\ f + 1 \notin After
  BY <1>1
<1>3. /\ Listed(o) = {A[k] : k \in Before} \ {NULL}
      /\ Listed(o)' = {A[k] : k \in After} \ {NULL}
      /\ Pending(o) = Before
  BY <1>1 DEF Listed, Pending
<1>. HIDE DEF Before, After, n, f
<1>4. ASSUME NEW k \in After, A[k] = p, p # NULL
      PROVE  FALSE
  <2>1. OneOwner
    BY OwnersFollow
  <2>2. k \in Pending(o) /\ f + 1 \in Pending(o)
    BY <1>2, <1>3
  <2>3. k = f + 1
    BY <1>4, <2>1, <2>2 DEF OneOwner
  <2>4. QED
    BY <1>2, <2>3
<1>. HIDE DEF A
<1>5. Listed(o)' = Listed(o) \ {p} /\ (p = NULL \/ p \in Listed(o))
  BY <1>2, <1>3, <1>4
<1>6. \A x \in Object \ {o} : Listed(x)' = Listed(x)
  BY <1>1 DEF Listed, Pending
<1>7. QED
  BY <1>5, <1>6 DEF A, f

LEMMA EndListed ==
    ASSUME IInv, NEW o \in Object, OnClose_end(o)
    PROVE  Listed(o) = {} /\ \A x \in Object : Listed(x)' = Listed(x)
<1>. DEFINE n == Len(AllocatedMemory[o])
<1>1. /\ freed[o] = n /\ n \in Nat
      /\ AllocatedMemory'[o] = <<>> /\ freed'[o] = 0
      /\ \A x \in Object \ {o} : AllocatedMemory'[x] = AllocatedMemory[x] /\ freed'[x] = freed[x]
  BY DEF IInv, ObjectsOK, OnClose_end
<1>2. n + 1 .. n = {} /\ 0 + 1 .. Len(<<>>) = {}
  BY <1>1
<1>3. Pending(o) = {} /\ Pending(o)' = {}
  BY <1>1, <1>2 DEF Pending
<1>4. Listed(o) = {} /\ Listed(o)' = {}
  BY <1>3 DEF Listed
<1>5. \A x \in Object \ {o} : Listed(x)' = Listed(x)
  BY <1>1 DEF Listed, Pending
<1>6. QED
  BY <1>4, <1>5

(* What a return of Read does: it leaves the lists alone, or lists one array   *)
(* of an open object that no list has; blocks that lists have stay.            *)
LEMMA ReadEffect ==
    ASSUME IInv, NEW n \in 1 .. MaxDepth, ReadReturns(n)
    PROVE  /\ UNCHANGED <<alive, phase>>
           /\ \/ UNCHANGED <<AllocatedMemory, freed>>
              \/ \E o \in Object, p \in Addr \cup {NULL}, text \in Seq(Characters) :
                    /\ Insert(o, p, text) /\ phase[o] = "open"
                    /\ \A x \in Object : p \notin Listed(x)
           /\ \A o \in Object : \A p \in Listed(o) : p \in DOMAIN heap' /\ heap'[p] = heap[p]
           /\ alive
<1>1. stack # <<>> /\ alive
  BY PointersAssumption DEF ReadReturns, Running
<1>2. /\ top \in Frame /\ FrameOK(top)
  BY <1>1, TopOfStack, CallersOK DEF IInv
<1>3. /\ top.object \in Object /\ top.pointer \in Addr \cup {NULL}
      /\ top.text \in Seq(Characters) /\ phase[top.object] = "open"
  BY <1>2 DEF Frame, FrameOK
<1>4. \A o \in Object : \A p \in Listed(o) : p \in DOMAIN heap /\ p # top.pointer
  BY <1>1, ListedAreOwned
<1>5. \A x \in Object : top.pointer \notin Listed(x)
  BY <1>4
<1>6. ASSUME NEW s \in Seq(Characters), NEW d \in Places, Appended(d, s)
      PROVE  /\ \A o \in Object : \A p \in Listed(o) : p \in DOMAIN heap' /\ heap'[p] = heap[p]
             /\ d \in Addr
             /\ \A x \in Object : d \notin Listed(x)
  <2>1. /\ d \in Addr
        /\ \A a \in DOMAIN heap \ {top.pointer} : a \in DOMAIN heap' /\ heap'[a] = heap[a]
    BY <1>1, <1>6, AppendedBlocks
  <2>2. \A x \in Object : d \notin Listed(x)
    BY <1>4 DEF Places
  <2>3. QED
    BY <1>4, <2>1, <2>2
<1>7. CASE Throw
  BY <1>1, <1>4, <1>7 DEF Throw, objects
<1>8. CASE ReadError
  <2>1. Insert(top.object, top.pointer, top.text) /\ UNCHANGED <<alive, heap>>
    BY <1>8 DEF ReadError
  <2>2. phase' = phase
    BY <2>1 DEF Insert
  <2>3. QED
    BY <1>1, <1>3, <1>4, <1>5, <2>1, <2>2
<1>9. CASE EndOfStream /\ ~Throw
  <2>1. PICK d \in Places : Appended(d, <<>>) /\ Insert(top.object, d, top.text)
                            /\ UNCHANGED <<alive, lost>>
    BY <1>9 DEF EndOfStream
  <2>2. <<>> \in Seq(Characters)
    OBVIOUS
  <2>3. phase' = phase
    BY <2>1 DEF Insert
  <2>4. QED
    BY <1>1, <1>3, <1>6, <2>1, <2>2, <2>3
<1>10. CASE ReadChunk /\ ~Throw
  <2>1. PICK s \in Strings(MaxText - Len(top.text)) \ {<<>>}, d \in Places :
            Appended(d, s) /\ UNCHANGED <<alive, objects, lost>>
    BY <1>10 DEF ReadChunk
  <2>2. s \in Seq(Characters)
    BY StringsAreSequences
  <2>3. QED
    BY <1>1, <1>6, <2>1, <2>2 DEF objects
<1>11. QED
  BY <1>7, <1>8, <1>9, <1>10 DEF ReadReturns

(* A pointer that an object has handed out stays good, with what it leads to,  *)
(* until the object is closed (cna.xml:554-562, 651).                          *)
THEOREM HandedOutStays == Spec => ClientsArraysStay
<1>. DEFINE Stay == \A o \in Object :
                phase[o] = "open" /\ phase'[o] = "open" =>
                    \A p \in Listed(o) : p \in DOMAIN heap' /\ heap'[p] = heap[p]
<1>1. ASSUME IInv, [Next]_vars
      PROVE  Stay
  <2>1. \A o \in Object : \A p \in Listed(o) : p \in DOMAIN heap
    BY <1>1, ListedAreOwned
  <2>2. CASE UNCHANGED heap
    BY <2>1, <2>2
  <2>3. ASSUME NEW o \in Object, ConvertStringToPointer(o)
        PROVE  Stay
    <3>1. CASE UNCHANGED heap
      BY <2>1, <3>1
    <3>2. CASE ~UNCHANGED heap
      <4>1. PICK s \in Strings(MaxText), a \in Addr \ DOMAIN heap :
                heap' = Put(heap, a, string_to_pointer(s))
        BY <2>3, <3>2 DEF ConvertStringToPointer
      <4>2. \A p \in DOMAIN heap : p \in DOMAIN heap' /\ heap'[p] = heap[p]
        BY <4>1 DEF Put
      <4>3. QED
        BY <2>1, <4>2
    <3>3. QED
      BY <3>1, <3>2
  <2>4. ASSUME NEW n \in 1 .. MaxDepth, ReadReturns(n)
        PROVE  Stay
    BY <1>1, <2>4, ReadEffect
  <2>5. ASSUME NEW o \in Object, OnClose_free(o)
        PROVE  Stay
    <3>. DEFINE q == AllocatedMemory[o][freed[o] + 1]
    <3>1. phase[o] = "draining" /\ heap' = Drop(heap, q)
      BY <2>5 DEF OnClose_free, free_pointer
    <3>2. q = NULL \/ q \in Listed(o)
      BY <1>1, <2>5, FreedListed
    <3>. HIDE DEF q
    <3>3. ASSUME NEW x \in Object, phase[x] = "open", NEW p \in Listed(x)
          PROVE  p \in DOMAIN heap' /\ heap'[p] = heap[p]
      <4>1. x # o /\ p # NULL
        BY <3>1, <3>3 DEF Listed
      <4>2. p \in DOMAIN heap /\ p # q
        BY <1>1, <3>2, <4>1, ListedAreOwned
      <4>3. QED
        BY <3>1, <4>2 DEF Drop
    <3>4. QED
      BY <3>3
  <2>6. QED
    <3>1. \A o \in Object : OnNew(o) \/ ConvertStreamToPointer(o) \/ OnClose(o) \/ OnClose_end(o)
            => UNCHANGED heap
      BY DEF OnNew, ConvertStreamToPointer, OnClose, OnClose_end
    <3>2. UNCHANGED vars => UNCHANGED heap
      BY DEF vars
    <3>3. QED
      BY <1>1, <2>2, <2>3, <2>4, <2>5, <3>1, <3>2 DEF Next, Closing
<1>2. IInv /\ [Next]_vars => [Stay]_vars
  BY <1>1
<1>3. Spec => [][Stay]_vars
  BY <1>2, Invariance, PTL DEF Spec
<1>4. QED
  BY <1>3 DEF ClientsArraysStay
-----------------------------------------------------------------------------
\* The phase of an object as its client sees it.
Phase(o) == IF alive \/ phase[o] = "closed" THEN phase[o] ELSE "lost"

LEMMA HandsOut ==
    ASSUME IInv, alive, UNCHANGED <<alive>>,
           NEW o \in Object, NEW p \in Addr \cup {NULL}, NEW text, Insert(o, p, text),
           phase[o] = "open", \A x \in Object : p \notin Listed(x)
    PROVE  \A x \in Object : [Promise(x)!Next]_(Promise(x)!arenaVars)
<1>1. /\ phase' = phase
      /\ \A x \in Object :
            Listed(x)' = IF x = o THEN Listed(x) \cup ({p} \ {NULL}) ELSE Listed(x)
  BY InsertListed DEF Insert
<1>2. \A x \in Object : Phase(x)' = Phase(x) /\ Phase(x) = phase[x]
  BY <1>1 DEF Phase
<1>3. ASSUME NEW x \in Object, x # o \/ p = NULL
      PROVE  Listed(x)' = Listed(x)
  BY <1>1, <1>3
<1>4. ASSUME p # NULL
      PROVE  Promise(o)!HandOut(p)
  BY <1>1, <1>2, <1>4 DEF Promise!HandOut, Phase
<1>5. QED
  BY <1>2, <1>3, <1>4, PointersAssumption DEF Promise!Next, Promise!arenaVars, Phase

(* Each object is to its client an arena: it hands out arrays that are not     *)
(* already handed out, and is closed only when each was freed, once.           *)
THEOREM Refinement == Spec => ImplementsArena
<1>1. Init => \A o \in Object : Promise(o)!Init
  <2>1. SUFFICES ASSUME Init, NEW o \in Object
                 PROVE  Promise(o)!Init
    OBVIOUS
  <2>2. phase[o] = "closed" /\ AllocatedMemory[o] = <<>> /\ freed[o] = 0
    BY <2>1 DEF Init
  <2>3. 0 + 1 .. Len(<<>>) = {}
    OBVIOUS
  <2>4. Listed(o) = {}
    BY <2>2, <2>3 DEF Listed, Pending
  <2>5. QED
    BY <2>2, <2>4 DEF Promise!Init
<1>2. ASSUME IInv, [Next]_vars
      PROVE  \A o \in Object : [Promise(o)!Next]_(Promise(o)!arenaVars)
  <2>. DEFINE Kept == \A x \in Object : Phase(x)' = Phase(x) /\ Listed(x)' = Listed(x)
              Goal == \A x \in Object : [Promise(x)!Next]_(Promise(x)!arenaVars)
  <2>1. Kept => Goal
    BY DEF Promise!arenaVars, Phase
  <2>2. ASSUME UNCHANGED <<alive, phase, AllocatedMemory, freed>>
        PROVE  Goal
    <3>1. Kept
      BY <2>2, SameListed DEF Phase
    <3>2. QED
      BY <2>1, <3>1
  <2>3. ASSUME NEW o \in Object, OnNew(o)
        PROVE  Goal
    <3>1. /\ alive /\ alive' /\ phase[o] = "closed" /\ phase'[o] = "open"
          /\ \A x \in Object \ {o} : phase'[x] = phase[x]
          /\ \A x \in Object : Listed(x)' = Listed(x)
      BY <1>2, <2>3, SameListed DEF OnNew, Running, IInv, ObjectsOK
    <3>2. Promise(o)!Open
      BY <3>1 DEF Promise!Open
    <3>3. QED
      BY <3>1, <3>2 DEF Promise!Next, Promise!arenaVars
  <2>4. ASSUME NEW o \in Object, ConvertStringToPointer(o)
        PROVE  Goal
    <3>1. /\ alive /\ phase[o] = "open" /\ \A x \in Object : phase[x] # "draining"
      BY <2>4 DEF ConvertStringToPointer, MayConvert, Running
    <3>2. CASE alive' = FALSE /\ UNCHANGED objects
      <4>1. phase' = phase /\ \A x \in Object : Listed(x)' = Listed(x)
        BY <3>2, SameListed DEF objects
      <4>2. ASSUME NEW x \in Object
            PROVE  [Promise(x)!Next]_(Promise(x)!arenaVars)
        <5>1. CASE phase[x] = "closed"
          BY <4>1, <5>1 DEF Promise!arenaVars
        <5>2. CASE phase[x] = "open"
          <6>1. Promise(x)!Die
            BY <3>1, <3>2, <4>1, <5>2 DEF Promise!Die
          <6>2. QED
            BY <6>1 DEF Promise!Next
        <5>3. phase[x] \in {"closed", "open", "draining"}
          BY <1>2 DEF IInv, ObjectsOK
        <5>4. QED
          BY <3>1, <5>1, <5>2, <5>3
      <4>3. QED
        BY <4>2
    <3>3. CASE \E s \in Strings(MaxText), a \in Addr \ DOMAIN heap :
                  Insert(o, a, s) /\ UNCHANGED <<alive, stack, lost>>
      <4>1. PICK s \in Strings(MaxText), a \in Addr \ DOMAIN heap :
                  Insert(o, a, s) /\ UNCHANGED <<alive, stack, lost>>
        BY <3>3
      <4>2. \A x \in Object : a \notin Listed(x)
        BY <1>2, ListedAreOwned
      <4>3. QED
        BY <1>2, <3>1, <4>1, <4>2, HandsOut
    <3>4. QED
      BY <2>4, <3>2, <3>3 DEF ConvertStringToPointer
  <2>5. ASSUME NEW o \in Object, ConvertStreamToPointer(o)
        PROVE  Goal
    BY <2>2, <2>5 DEF ConvertStreamToPointer, objects
  <2>6. ASSUME NEW n \in 1 .. MaxDepth, ReadReturns(n)
        PROVE  Goal
    <3>1. /\ UNCHANGED <<alive, phase>> /\ alive
          /\ \/ UNCHANGED <<AllocatedMemory, freed>>
             \/ \E o \in Object, p \in Addr \cup {NULL}, text \in Seq(Characters) :
                    /\ Insert(o, p, text) /\ phase[o] = "open"
                    /\ \A x \in Object : p \notin Listed(x)
      BY <1>2, <2>6, ReadEffect
    <3>2. CASE UNCHANGED <<AllocatedMemory, freed>>
      BY <2>2, <3>1, <3>2
    <3>3. CASE \E o \in Object, p \in Addr \cup {NULL}, text \in Seq(Characters) :
                    /\ Insert(o, p, text) /\ phase[o] = "open"
                    /\ \A x \in Object : p \notin Listed(x)
      BY <1>2, <3>1, <3>3, HandsOut
    <3>4. QED
      BY <3>1, <3>2, <3>3
  <2>7. ASSUME NEW o \in Object, OnClose(o)
        PROVE  Goal
    <3>1. /\ alive /\ alive' /\ phase[o] = "open" /\ phase'[o] = "draining"
          /\ \A x \in Object \ {o} : phase'[x] = phase[x]
          /\ \A x \in Object : Listed(x)' = Listed(x)
      BY <1>2, <2>7, SameListed DEF OnClose, Running, IInv, ObjectsOK
    <3>2. Promise(o)!Drain
      BY <3>1 DEF Promise!Drain
    <3>3. QED
      BY <3>1, <3>2 DEF Promise!Next, Promise!arenaVars
  <2>8. ASSUME NEW o \in Object, OnClose_free(o)
        PROVE  Goal
    <3>. DEFINE p == AllocatedMemory[o][freed[o] + 1]
    <3>1. /\ phase[o] = "draining" /\ UNCHANGED <<alive, phase>>
      BY <2>8 DEF OnClose_free
    <3>2. alive
      BY <1>2, <3>1 DEF IInv, ObjectsOK
    <3>3. /\ p = NULL \/ p \in Listed(o)
          /\ \A x \in Object : Listed(x)' = IF x = o THEN Listed(x) \ {p} ELSE Listed(x)
      BY <1>2, <2>8, FreedListed
    <3>. HIDE DEF p
    <3>4. CASE p \in Listed(o)
      <4>1. p \in Addr
        BY <1>2, <3>4, ListedAreOwned
      <4>2. Promise(o)!Release(p)
        BY <3>1, <3>2, <3>3, <3>4 DEF Promise!Release
      <4>3. QED
        BY <3>1, <3>3, <4>1, <4>2 DEF Promise!Next, Promise!arenaVars
    <3>5. CASE p \notin Listed(o)
      <4>1. Kept
        BY <3>1, <3>3, <3>5 DEF Phase
      <4>2. QED
        BY <2>1, <4>1
    <3>6. QED
      BY <3>4, <3>5
  <2>9. ASSUME NEW o \in Object, OnClose_end(o)
        PROVE  Goal
    <3>1. /\ phase[o] = "draining" /\ phase'[o] = "closed" /\ alive' = alive
          /\ \A x \in Object \ {o} : phase'[x] = phase[x]
      BY <1>2, <2>9 DEF OnClose_end, IInv, ObjectsOK
    <3>2. alive
      BY <1>2, <3>1 DEF IInv, ObjectsOK
    <3>3. Listed(o) = {} /\ \A x \in Object : Listed(x)' = Listed(x)
      BY <1>2, <2>9, EndListed
    <3>4. Promise(o)!Close
      BY <3>1, <3>2, <3>3 DEF Promise!Close
    <3>5. QED
      BY <3>1, <3>3, <3>4 DEF Promise!Next, Promise!arenaVars
  <2>10. CASE UNCHANGED vars
    BY <2>2, <2>10 DEF vars, objects
  <2>11. QED
    BY <1>2, <2>3, <2>4, <2>5, <2>6, <2>7, <2>8, <2>9, <2>10 DEF Next, Closing
<1>3. ASSUME IInv, [Next]_vars
      PROVE  [\A o \in Object : [Promise(o)!Next]_(Promise(o)!arenaVars)]_vars
  BY <1>2, <1>3
<1>4. Spec => [][\A o \in Object : [Promise(o)!Next]_(Promise(o)!arenaVars)]_vars
  BY <1>3, Invariance, PTL DEF Spec
<1>5. QED
  BY <1>1, <1>4, PTL DEF Spec, ImplementsArena
=============================================================================
