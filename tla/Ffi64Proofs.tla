---------------------------- MODULE Ffi64Proofs ----------------------------
(***************************************************************************)
(* Proofs about libffi: a call (Ffi64), for any types, any lists of        *)
(* arguments and any number of registers; and classify_argument            *)
(* (Classify), for any types, however they are nested.                     *)
(*                                                                         *)
(* The argument for a call: what ffi_prep_cif_machdep has counted before   *)
(* each argument is kept in plan, which never decreases (Planned).         *)
(* ffi_call is at plan[i] when it comes to argument i (Sending), so what   *)
(* it writes ends where the count ended, and where argument a lies is a    *)
(* function of plan[a] (Sent).  The closure is at plan[i] too, and finds   *)
(* it (Seeing).                                                            *)
(*                                                                         *)
(* The argument for classify_argument: byte_offset counts from the word a  *)
(* structure begins in, and fields are aligned there as in the whole value *)
(* (NextField), so the words a nested call classifies are merged into the  *)
(* words they are (MergedSettled); and the class of a word suits the       *)
(* scalars that have been met in it (Suits), which merge_classes keeps.    *)
(***************************************************************************)
EXTENDS Ffi64, Classify, FiniteSetTheorems, WellFoundedInduction, SequenceTheorems, TLAPS

\* ALIGN for the alignments of arguments.
LEMMA AlignUp ==
    ASSUME NEW v \in Nat, NEW a \in {8, 16}
    PROVE  /\ ALIGN(v, a) \in Nat
           /\ v <= ALIGN(v, a)
           /\ ALIGN(v, a) % a = 0
<1>1. CASE a = 8
  BY <1>1 DEF ALIGN
<1>2. CASE a = 16
  BY <1>2 DEF ALIGN
<1> QED
  BY <1>1, <1>2

\* Addresses are aligned where offsets are.
LEMMA AlignShift ==
    ASSUME NEW v \in Nat, NEW b \in Nat, b % 16 = 0, NEW a \in {8, 16}
    PROVE  ALIGN(b + v, a) = b + ALIGN(v, a)
<1>1. CASE a = 8
  BY <1>1 DEF ALIGN
<1>2. CASE a = 16
  BY <1>2 DEF ALIGN
<1> QED
  BY <1>1, <1>2

LEMMA AlignmentOfArguments ==
    ASSUME NEW t \in Types
    PROVE  Align(t) \in {8, 16} /\ Alignment[t] \in {1, 2, 4, 8, 16}
BY TypesAssumption DEF Align, Larger

\* Where the arguments in memory begin.
LEMMA ArgumentsAligned ==
    Arguments \in Nat /\ Arguments % 16 = 0
<1> DEFINE r == ALIGN(8 * MAX_GPR_REGS, 16)
<1>1. r \in Nat /\ r % 16 = 0
  <2>1. 8 * MAX_GPR_REGS \in Nat
    BY RegistersAssumption
  <2> QED
    BY <2>1, AlignUp
<1>2. Arguments = Stack + (r + 16 * MAX_SSE_REGS)
  BY DEF Arguments, SizeOfRegisterArgs
<1> HIDE DEF r
<1> QED
  BY <1>1, <1>2, RegistersAssumption

-----------------------------------------------------------------------------
\* What the three functions decide, at a place of the count.
Fits(p, t) ==
    /\ examine_argument(t, FALSE) # 0
    /\ p.gpr + Need(t, Integer) <= MAX_GPR_REGS
    /\ p.sse + Need(t, SSE) <= MAX_SSE_REGS

After(p, t) ==
    IF Fits(p, t)
    THEN [gpr |-> p.gpr + Need(t, Integer), sse |-> p.sse + Need(t, SSE), bytes |-> p.bytes]
    ELSE [gpr |-> p.gpr, sse |-> p.sse, bytes |-> ALIGN(p.bytes, Align(t)) + Size[t]]

Below(p, q) == p.gpr <= q.gpr /\ p.sse <= q.sse /\ p.bytes <= q.bytes

\* Counts of registers are small numbers.
LEMMA NeedIsSmall ==
    ASSUME NEW t, NEW S
    PROVE  Need(t, S) \in 0 .. 2
BY DEF Need, One

\* The words of an argument that fits are of classes of registers, but for NO.
LEMMA WordsOfFitting ==
    ASSUME NEW p, NEW t \in Types, Fits(p, t)
    PROVE  /\ Len(Classes[t]) \in 1 .. 2
           /\ \A w \in 1 .. Len(Classes[t]) :
                    Is(t, w, {"NO"}) \/ Is(t, w, Integer) \/ Is(t, w, SSE)
<1>1. Classes[t] \in Seq(Class) /\ Len(Classes[t]) \in 0 .. 2
  <2> DEFINE n == Len(Classes[t])
  <2>1. Classes[t] \in Seq(Class) /\ n <= 2
    BY TypesAssumption
  <2>2. n \in Nat
    BY <2>1
  <2> HIDE DEF n
  <2>3. n \in 0 .. 2
    BY <2>1, <2>2
  <2> QED
    BY <2>1, <2>3 DEF n
<1>2. examine_argument(t, FALSE) # 0
  BY DEF Fits
<1>3. ~Is(t, 1, X87) /\ ~Is(t, 2, X87) /\ Len(Classes[t]) # 0
  BY <1>2 DEF examine_argument, One
<1>4. \A w \in 1 .. Len(Classes[t]) : w \in 1 .. 2 /\ Classes[t][w] \in Class /\ ~Is(t, w, X87)
  BY <1>1, <1>3
<1> QED
  BY <1>1, <1>3, <1>4 DEF Is, Class

\* Without words of class NO, every word takes a register.
LEMMA NeedOfFitting ==
    ASSUME NEW p, NEW t \in Types, Fits(p, t), ~Is(t, 1, {"NO"}), ~Is(t, 2, {"NO"})
    PROVE  /\ Need(t, Integer) + Need(t, SSE) = Len(Classes[t])
           /\ \A w \in 1 .. Len(Classes[t]) : Is(t, w, Integer) <=> ~Is(t, w, SSE)
<1>1. \A w : ~(Is(t, w, Integer) /\ Is(t, w, SSE))
  BY DEF Is, Integer, SSE
<1>2. Len(Classes[t]) \in 1 .. 2
  BY WordsOfFitting
<1>3. \A w \in 1 .. Len(Classes[t]) : Is(t, w, Integer) <=> ~Is(t, w, SSE)
  <2> DEFINE n == Len(Classes[t])
  <2>0. n \in 1 .. 2
    BY <1>2
  <2> HIDE DEF n
  <2>1. \A w \in 1 .. n : w = 1 \/ w = 2
    BY <2>0
  <2>2. \A w \in 1 .. n : ~Is(t, w, {"NO"})
    BY <2>1
  <2> QED
    BY WordsOfFitting, <1>1, <2>2 DEF n
<1>4. CASE Len(Classes[t]) = 1
  <2>1. ~Is(t, 2, Integer) /\ ~Is(t, 2, SSE)
    BY <1>4 DEF Is
  <2> QED
    BY <1>3, <1>4, <2>1 DEF Need, One
<1>5. CASE Len(Classes[t]) = 2
  <2>1. (Is(t, 1, Integer) <=> ~Is(t, 1, SSE)) /\ (Is(t, 2, Integer) <=> ~Is(t, 2, SSE))
    BY <1>3, <1>5
  <2> QED
    BY <1>5, <2>1 DEF Need, One
<1> QED
  BY <1>2, <1>3, <1>4, <1>5

\* The count after an argument is a place not below the one before it.
LEMMA AfterIsPlace ==
    ASSUME NEW p \in Place, NEW t \in Types
    PROVE  After(p, t) \in Place /\ Below(p, After(p, t))
<1>1. Need(t, Integer) \in 0 .. 2 /\ Need(t, SSE) \in 0 .. 2
  BY NeedIsSmall
<1>2. p.gpr \in 0 .. MAX_GPR_REGS /\ p.sse \in 0 .. MAX_SSE_REGS /\ p.bytes \in Nat
  BY DEF Place
<1>3. CASE Fits(p, t)
  <2>1. p.gpr + Need(t, Integer) <= MAX_GPR_REGS /\ p.sse + Need(t, SSE) <= MAX_SSE_REGS
    BY <1>3 DEF Fits
  <2> QED
    BY <1>1, <1>2, <1>3, <2>1, RegistersAssumption DEF After, Place, Below
<1>4. CASE ~Fits(p, t)
  <2> DEFINE b == ALIGN(p.bytes, Align(t))
  <2>1. b \in Nat /\ p.bytes <= b /\ Size[t] \in Nat
    BY <1>2, AlignmentOfArguments, AlignUp, TypesAssumption
  <2>2. After(p, t) = [gpr |-> p.gpr, sse |-> p.sse, bytes |-> b + Size[t]]
    BY <1>4 DEF After
  <2> HIDE DEF b
  <2> QED
    BY <1>2, <2>1, <2>2, RegistersAssumption DEF Place, Below
<1> QED
  BY <1>3, <1>4

-----------------------------------------------------------------------------
\* The inductive invariant.

Start == [gpr |-> One(ReturnsInMemory), sse |-> 0, bytes |-> 0]
Last == plan[Len(plan)]

\* The history of the count.
Planned ==
    /\ plan \in Seq(Place)
    /\ Len(plan) <= Len(types) + 1
    /\ plan # <<>> => plan[1] = Start
    /\ \A k \in 1 .. Len(plan) - 1 : plan[k + 1] = After(plan[k], types[k])
    /\ \A j, k \in 1 .. Len(plan) : j <= k => Below(plan[j], plan[k])

\* What ffi_prep_cif_machdep has counted, and what it has left.
Counted ==
    IF pc = "prep"
    THEN IF i = 0 THEN plan = <<>> /\ gprcount = 0 /\ ssecount = 0 /\ bytes = 0
         ELSE /\ Len(plan) = i
              /\ Last = [gpr |-> gprcount, sse |-> ssecount, bytes |-> bytes]
    ELSE /\ Len(plan) = Len(types) + 1
         /\ bytes = ALIGN(Last.bytes, 8)
         /\ flags.sse <=> Last.sse # 0
Flagged ==
    flags.type = IF ReturnsInMemory \/ (pc = "prep" /\ i = 0) THEN Void ELSE rtype

\* The functions that go over the arguments are where the count was.
AtPlan ==
    pc \in {"call", "closure"} /\ i # 0 =>
        gprcount = plan[i].gpr /\ ssecount = plan[i].sse /\ argp = Arguments + plan[i].bytes

\* How many arguments ffi_call has gone over.
SentCount ==
    CASE pc = "prep" \/ (pc = "call" /\ i = 0) -> 0
      [] pc \in {"call", "aborted"} /\ i # 0 -> i - 1
      [] OTHER -> Len(types)

Before(t, w, S) == One(w = 2 /\ Is(t, 1, S))
InFile(file, first, a, t, S) ==
    \A w \in 1 .. 2 : Is(t, w, S) =>
        LET k == first + Before(t, w, S) + 1
        IN  k \in 1 .. Len(file) /\ file[k] = <<a, w>>

Area(a) == [argument |-> a, address |-> Arguments + ALIGN(plan[a].bytes, Align(types[a]))]

\* Where ffi_call has put argument a.
Sent(a) ==
    IF Fits(plan[a], types[a])
    THEN /\ ~Is(types[a], 1, {"NO"}) /\ ~Is(types[a], 2, {"NO"})
         /\ InFile(gpr, plan[a].gpr, a, types[a], Integer)
         /\ InFile(sse, plan[a].sse, a, types[a], SSE)
    ELSE Area(a) \in memory

Item == {RValue} \cup (Nat \X Nat)
Sending ==
    /\ gpr \in Seq(Item) /\ sse \in Seq(Item)
    /\ pc = "prep" \/ (pc = "call" /\ i = 0) => gpr = <<>> /\ sse = <<>>
    /\ pc = "call" /\ i # 0 => Len(gpr) = gprcount /\ Len(sse) = ssecount
    /\ SentCount # 0 \/ (pc # "prep" /\ i # 0) \/ pc \in {"closure", "compiled", "done"} =>
            (ReturnsInMemory => Len(gpr) >= 1 /\ gpr[1] = RValue)
    /\ \A a \in 1 .. SentCount : Sent(a)
    /\ \A m \in memory : \E a \in 1 .. SentCount : m = Area(a) /\ ~Fits(plan[a], types[a])

\* What the closure must find.
Expected(a) ==
    IF Fits(plan[a], types[a])
    THEN [w \in 1 .. Len(Classes[types[a]]) |-> <<a, w>>]
    ELSE <<Area(a).address>>
Seeing ==
    /\ pc \notin {"closure", "done"} => avalue = <<>>
    /\ pc \in {"closure", "done"} =>
            /\ avalue \in Seq({Expected(a) : a \in 1 .. Len(types)})
            /\ Len(avalue) <= Len(types)
            /\ \A a \in 1 .. Len(avalue) : avalue[a] = Expected(a)
    /\ pc = "closure" => Len(avalue) = IF i = 0 THEN 0 ELSE i - 1

IInv == TypeOK /\ Planned /\ Counted /\ Flagged /\ AtPlan /\ Sending /\ Seeing

-----------------------------------------------------------------------------
\* Arguments have types.
LEMMA TypesOfArguments ==
    ASSUME TypeOK
    PROVE  /\ types \in Seq(Types)
           /\ Len(types) \in Nat
           /\ \A a \in 1 .. Len(types) : types[a] \in Types
<1>1. types \in Seq(Types)
  BY TypesAssumption DEF TypeOK
<1> QED
  BY <1>1

\* What was counted before and after an argument, when all are counted.
LEMMA PlanOfArgument ==
    ASSUME TypeOK, Planned, Len(plan) = Len(types) + 1, NEW a \in 1 .. Len(types)
    PROVE  /\ plan[a] \in Place /\ plan[a + 1] \in Place /\ Last \in Place
           /\ plan[a + 1] = After(plan[a], types[a])
           /\ Below(plan[a], plan[a + 1]) /\ Below(plan[a + 1], Last)
<1> DEFINE n == Len(types)
<1>1. n \in Nat
  BY TypesOfArguments
<1>2. a \in 1 .. Len(plan) - 1 /\ a \in 1 .. Len(plan) /\ a + 1 \in 1 .. Len(plan)
      /\ Len(plan) \in 1 .. Len(plan) /\ a <= a + 1 /\ a + 1 <= Len(plan)
  <2> HIDE DEF n
  <2>1. Len(plan) = n + 1 /\ a \in 1 .. n
    BY DEF n
  <2> QED
    BY <1>1, <2>1
<1> QED
  BY <1>2 DEF Planned, Last

\* The plan does not change once it is made.
LEMMA PlannedStays ==
    ASSUME Planned, UNCHANGED <<cif, plan>>
    PROVE  Planned'
BY DEF Planned, cif, Start, ReturnsInMemory, After, Fits, Below, One, examine_argument

\* A function that is at the plan decides as the count did.
LEMMA DecidesAsPlanned ==
    ASSUME AtPlan, pc \in {"call", "closure"}, i # 0, NEW t
    PROVE  InRegisters(t) <=> Fits(plan[i], t)
BY DEF AtPlan, InRegisters, Fits

LEMMA InitInv ==
    ASSUME Init
    PROVE  IInv
<1>1. TypeOK
  <2>1. types \in Seq(Types) /\ Len(types) \in Nat
    BY TypesAssumption DEF Init
  <2> QED
    BY <2>1, ArgumentsAligned, RegistersAssumption DEF Init, TypeOK
<1>2. Planned
  <2>1. Len(plan) = 0 /\ plan = <<>> /\ plan \in Seq(Place)
    BY DEF Init
  <2>2. Len(types) \in Nat
    BY <1>1, TypesOfArguments
  <2> QED
    BY <2>1, <2>2 DEF Planned
<1>3. Counted /\ Flagged /\ AtPlan
  BY DEF Init, Counted, Flagged, AtPlan
<1>4. Sending
  <2>1. SentCount = 0 /\ pc = "prep"
    BY DEF Init, SentCount
  <2>2. gpr = <<>> /\ sse = <<>> /\ gpr \in Seq(Item) /\ sse \in Seq(Item) /\ memory = {} /\ i = 0
    BY DEF Init
  <2> QED
    BY <2>1, <2>2 DEF Sending
<1>5. Seeing
  BY DEF Init, Seeing
<1> QED
  BY <1>1, <1>2, <1>3, <1>4, <1>5 DEF IInv

-----------------------------------------------------------------------------
\* ffi_prep_cif_machdep.

\* Before the call nothing is passed and nothing found.
LEMMA PrepPassesNothing ==
    ASSUME Sending, Seeing, pc = "prep", pc' \in {"prep", "call"}, pc' = "call" => i' = 0,
           UNCHANGED <<cif, passed, avalue>>
    PROVE  Sending' /\ Seeing'
<1>1. SentCount = 0 /\ SentCount' = 0
  BY DEF SentCount
<1>2. memory' = {}
  BY <1>1 DEF Sending, passed
<1>3. Sending'
  BY <1>1, <1>2 DEF Sending, passed
<1> QED
  BY <1>3 DEF Seeing

LEMMA PrepReturnInv ==
    ASSUME IInv, prep_return
    PROVE  IInv'
<1> USE DEF IInv
<1>1. pc = "prep" /\ i = 0 /\ pc' = "prep" /\ i' = 1
      /\ gprcount = 0 /\ ssecount' = 0 /\ ssecount = 0 /\ bytes' = 0 /\ bytes = 0 /\ plan = <<>>
  BY DEF prep_return, Counted
<1>2. gprcount' = One(ReturnsInMemory)
  BY <1>1 DEF prep_return, One
<1>3. plan' = <<Start>>
  BY <1>1, <1>2 DEF prep_return, Start
<1>4. Start \in Place /\ gprcount' \in 0 .. MAX_GPR_REGS
  BY <1>2, RegistersAssumption DEF Start, Place, One
<1>5. UNCHANGED cif /\ (ReturnsInMemory <=> ReturnsInMemory') /\ Start' = Start
  BY DEF prep_return, cif, ReturnsInMemory, examine_argument, One, Start, Is
<1>6. flags'.type = (IF ReturnsInMemory THEN Void ELSE rtype)
  <2>1. CASE ReturnsInMemory
    BY <2>1, <1>1 DEF prep_return, Flagged, TypeOK
  <2>2. CASE ~ReturnsInMemory
    BY <2>2, <1>1 DEF prep_return, TypeOK
  <2> QED
    BY <2>1, <2>2
<1>7. TypeOK'
  <2>1. flags' \in [type : Types \cup {Void}, bit : {0, 8, 9, 10}, sse : BOOLEAN]
    <3>1. \A t : ResultBit(t) \in {0, 8, 9, 10}
      BY DEF ResultBit
    <3> QED
      BY <3>1 DEF prep_return, TypeOK
  <2>2. plan' \in Seq(Place)
    BY <1>3, <1>4
  <2>3. i' \in 0 .. Len(types) + 1
    BY <1>1, TypesOfArguments
  <2> QED
    BY <1>1, <1>4, <1>5, <2>1, <2>2, <2>3 DEF TypeOK, prep_return, cif
<1>8. Planned'
  <2>1. plan' \in Seq(Place) /\ Len(plan') = 1 /\ plan'[1] = Start
    BY <1>3, <1>4
  <2>2. Below(Start, Start)
    BY <1>4 DEF Below, Place
  <2>3. Len(types) \in Nat /\ types' = types
    BY TypesOfArguments, <1>5 DEF cif
  <2>4. \A k \in 1 .. Len(plan') - 1 : FALSE
    BY <2>1
  <2>5. \A k \in 1 .. Len(plan') : k = 1
    BY <2>1
  <2>6. Len(plan') <= Len(types') + 1
    BY <2>1, <2>3
  <2>7. \A j, k \in 1 .. Len(plan') : j <= k => Below(plan'[j], plan'[k])
    BY <2>1, <2>2, <2>5
  <2> QED
    BY <1>5, <2>1, <2>4, <2>6, <2>7 DEF Planned, Below
<1>9. Counted'
  BY <1>1, <1>2, <1>3 DEF Counted, Last, Start
<1>10. Flagged' /\ AtPlan'
  BY <1>1, <1>5, <1>6 DEF Flagged, AtPlan, cif
<1>11. Sending' /\ Seeing'
  BY <1>1, PrepPassesNothing DEF prep_return
<1> QED
  BY <1>7, <1>8, <1>9, <1>10, <1>11

LEMMA PrepArgumentInv ==
    ASSUME IInv, prep_argument
    PROVE  IInv'
<1> USE DEF IInv
<1> DEFINE t == types[i]
           p == [gpr |-> gprcount, sse |-> ssecount, bytes |-> bytes]
           q == [gpr |-> gprcount', sse |-> ssecount', bytes |-> bytes']
<1>1. pc = "prep" /\ i \in 1 .. Len(types) /\ i # 0 /\ pc' = "prep" /\ i' = i + 1
      /\ plan' = Append(plan, q) /\ UNCHANGED <<cif, flags, argp, passed, avalue, rvalue>>
  BY DEF prep_argument
<1>2. Len(plan) = i /\ plan[i] = p /\ plan \in Seq(Place)
  BY <1>1 DEF Counted, Last, Planned
<1>3. t \in Types /\ Len(types) \in Nat
  BY <1>1, TypesOfArguments
<1>4. p \in Place
  BY <1>1, <1>2
<1>5. q = After(p, t)
  <2>1. InRegisters(t) <=> Fits(p, t)
    BY DEF InRegisters, Fits
  <2>2. CASE InRegisters(t)
    BY <2>1, <2>2 DEF prep_argument, After
  <2>3. CASE ~InRegisters(t)
    BY <2>1, <2>3 DEF prep_argument, After
  <2> QED
    BY <2>2, <2>3
<1>6. q \in Place /\ Below(p, q)
  BY <1>3, <1>4, <1>5, AfterIsPlace
<1> HIDE DEF p, q
<1>7. /\ plan' \in Seq(Place) /\ Len(plan') = i + 1
      /\ plan'[i + 1] = q /\ plan'[i] = p
      /\ \A k \in 1 .. i : plan'[k] = plan[k]
  BY <1>1, <1>2, <1>6
<1>8. UNCHANGED cif /\ (ReturnsInMemory <=> ReturnsInMemory') /\ Start' = Start
  BY <1>1 DEF cif, ReturnsInMemory, examine_argument, One, Start, Is
<1>9. Planned'
  <2>1. plan'[1] = Start
    BY <1>1, <1>2, <1>7 DEF Planned
  <2>2. \A k \in 1 .. i : plan'[k + 1] = After(plan'[k], types[k])
    <3> TAKE k \in 1 .. i
    <3>1. CASE k = i
      BY <3>1, <1>5, <1>7
    <3>2. CASE k # i
      <4>1. k \in 1 .. i - 1 /\ k + 1 \in 1 .. i
        BY <3>2, <1>1
      <4> QED
        BY <4>1, <1>2, <1>7 DEF Planned
    <3> QED
      BY <3>1, <3>2
  <2> HIDE DEF t
  <2>0. i \in Nat
    BY <1>1, <1>3
  <2>3. \A j, k \in 1 .. i + 1 : j <= k => Below(plan'[j], plan'[k])
    <3> TAKE j, k \in 1 .. i + 1
    <3> HAVE j <= k
    <3>1. CASE k \in 1 .. i
      <4>1. j \in 1 .. i
        BY <2>0, <3>1
      <4> QED
        BY <3>1, <4>1, <1>2, <1>7 DEF Planned
    <3>2. CASE k = i + 1 /\ j \in 1 .. i
      <4>1. Below(plan[j], p)
        BY <3>2, <1>1, <1>2 DEF Planned
      <4>2. plan[j] \in Place
        BY <3>2, <1>2
      <4>3. Below(plan[j], q)
        BY <4>1, <4>2, <1>4, <1>6 DEF Below, Place
      <4> QED
        BY <3>2, <4>3, <1>7
    <3>3. CASE k = i + 1 /\ j = i + 1
      BY <3>3, <1>6, <1>7 DEF Below, Place
    <3> QED
      BY <3>1, <3>2, <3>3, <2>0
  <2>4. Len(plan') <= Len(types) + 1 /\ Len(plan') - 1 = i
    BY <1>1, <1>3, <1>7
  <2> QED
    BY <1>7, <1>8, <2>1, <2>2, <2>3, <2>4
       DEF Planned, cif, After, Fits, Below, examine_argument, One
<1>10. Counted'
  <2>1. plan'[Len(plan')] = q /\ i' # 0
    BY <1>1, <1>7
  <2> QED
    BY <1>1, <1>7, <2>1 DEF Counted, Last, q
<1>11. TypeOK'
  <2>1. plan' \in Seq(Place)
    BY <1>7
  <2>2. i' \in 0 .. Len(types) + 1
    BY <1>1, <1>3
  <2>3. gprcount' \in 0 .. MAX_GPR_REGS /\ ssecount' \in 0 .. MAX_SSE_REGS /\ bytes' \in Nat
    BY <1>6 DEF q, Place
  <2> QED
    BY <1>1, <2>1, <2>2, <2>3 DEF TypeOK, cif
<1>12. Flagged' /\ AtPlan'
  BY <1>1, <1>8 DEF Flagged, AtPlan, cif
<1>13. Sending' /\ Seeing'
  BY <1>1, PrepPassesNothing
<1> QED
  BY <1>9, <1>10, <1>11, <1>12, <1>13

LEMMA PrepEndInv ==
    ASSUME IInv, prep_end
    PROVE  IInv'
<1> USE DEF IInv
<1>1. pc = "prep" /\ i = Len(types) + 1 /\ pc' = "call" /\ i' = 0
      /\ UNCHANGED <<cif, gprcount, ssecount, plan, argp, passed, avalue, rvalue>>
      /\ bytes' = ALIGN(bytes, 8) /\ flags' = [flags EXCEPT !.sse = ssecount # 0]
  BY DEF prep_end
<1>2. Len(types) \in Nat /\ i # 0
  BY <1>1, TypesOfArguments
<1>3. Len(plan) = Len(types) + 1
      /\ Last = [gpr |-> gprcount, sse |-> ssecount, bytes |-> bytes]
  BY <1>1, <1>2 DEF Counted
<1>4. TypeOK'
  <2>1. bytes' \in Nat
    BY <1>1, AlignUp DEF TypeOK
  <2>2. flags' \in [type : Types \cup {Void}, bit : {0, 8, 9, 10}, sse : BOOLEAN]
    <3>1. (ssecount # 0) \in BOOLEAN
      OBVIOUS
    <3> QED
      BY <1>1, <3>1 DEF TypeOK
  <2>3. i' \in 0 .. Len(types) + 1
    BY <1>1, <1>2
  <2> QED
    BY <1>1, <2>1, <2>2, <2>3 DEF TypeOK, cif
<1>5. Planned'
  BY <1>1, PlannedStays
<1>6. Counted'
  <2>1. flags'.sse <=> ssecount # 0
    BY <1>1 DEF TypeOK
  <2>2. Last.sse = ssecount /\ Last.bytes = bytes /\ Last' = Last
    BY <1>1, <1>3 DEF Last
  <2>3. Len(plan') = Len(types') + 1
    BY <1>1, <1>3 DEF cif
  <2> QED
    BY <1>1, <2>1, <2>2, <2>3 DEF Counted
<1>7. Flagged' /\ AtPlan'
  BY <1>1, <1>2 DEF Flagged, AtPlan, cif, TypeOK, ReturnsInMemory, examine_argument, One, Is
<1>8. Sending' /\ Seeing'
  BY <1>1, PrepPassesNothing
<1> QED
  BY <1>4, <1>5, <1>6, <1>7, <1>8

-----------------------------------------------------------------------------
\* ffi_call.

LEMMA Pair ==
    ASSUME NEW S, NEW x \in S, NEW y \in S
    PROVE  /\ <<x>> \o <<y>> \in Seq(S)
           /\ Len(<<x>> \o <<y>>) = 2
           /\ (<<x>> \o <<y>>)[1] = x
           /\ (<<x>> \o <<y>>)[2] = y
<1>1. <<x>> \in Seq(S) /\ <<y>> \in Seq(S) /\ Len(<<x>>) = 1 /\ Len(<<y>>) = 1
      /\ <<x>>[1] = x /\ <<y>>[1] = y
  OBVIOUS
<1> QED
  BY <1>1

LEMMA PartOfArgument ==
    ASSUME NEW a \in Nat, NEW t, NEW S
    PROVE  /\ Part(a, t, S) \in Seq(Item)
           /\ Len(Part(a, t, S)) = Need(t, S)
           /\ \A w \in 1 .. 2 : Is(t, w, S) =>
                    /\ Before(t, w, S) + 1 \in 1 .. Need(t, S)
                    /\ Part(a, t, S)[Before(t, w, S) + 1] = <<a, w>>
<1>1. <<a, 1>> \in Item /\ <<a, 2>> \in Item
  BY DEF Item
<1>2. CASE Is(t, 1, S) /\ Is(t, 2, S)
  <2> DEFINE part == Part(a, t, S)
  <2>1. part = << <<a, 1>> >> \o << <<a, 2>> >> /\ Need(t, S) = 2
    BY <1>2 DEF Part, Need, One
  <2>2. part \in Seq(Item) /\ Len(part) = 2 /\ part[1] = <<a, 1>> /\ part[2] = <<a, 2>>
    BY <1>1, <2>1, Pair
  <2>3. Before(t, 1, S) = 0 /\ Before(t, 2, S) = 1
    BY <1>2 DEF Before, One
  <2> HIDE DEF part
  <2> QED
    BY <2>1, <2>2, <2>3 DEF part
<1>3. CASE Is(t, 1, S) /\ ~Is(t, 2, S)
  <2>1. Part(a, t, S) = << <<a, 1>> >> /\ Need(t, S) = 1
    BY <1>3 DEF Part, Need, One
  <2>2. Before(t, 1, S) = 0
    BY DEF Before, One
  <2> QED
    BY <1>1, <1>3, <2>1, <2>2
<1>4. CASE ~Is(t, 1, S) /\ Is(t, 2, S)
  <2>1. Part(a, t, S) = << <<a, 2>> >> /\ Need(t, S) = 1
    BY <1>4 DEF Part, Need, One
  <2>2. Before(t, 2, S) = 0
    BY <1>4 DEF Before, One
  <2> QED
    BY <1>1, <1>4, <2>1, <2>2
<1>5. CASE ~Is(t, 1, S) /\ ~Is(t, 2, S)
  <2>1. Part(a, t, S) = <<>> /\ Need(t, S) = 0
    BY <1>5 DEF Part, Need, One
  <2> QED
    BY <1>5, <2>1
<1> QED
  BY <1>2, <1>3, <1>4, <1>5

\* Words that are in a file stay when others are added.
LEMMA InStays ==
    ASSUME NEW file \in Seq(Item), NEW more \in Seq(Item), NEW first, NEW a, NEW t, NEW S,
           InFile(file, first, a, t, S)
    PROVE  InFile(file \o more, first, a, t, S)
<1>1. \A k \in 1 .. Len(file) : k \in 1 .. Len(file \o more) /\ (file \o more)[k] = file[k]
  OBVIOUS
<1> QED
  BY <1>1 DEF InFile

\* The words of an argument are where its place says.
LEMMA InAdded ==
    ASSUME NEW file \in Seq(Item), NEW a \in Nat, NEW t, NEW S
    PROVE  /\ InFile(file \o Part(a, t, S), Len(file), a, t, S)
           /\ Len(file \o Part(a, t, S)) = Len(file) + Need(t, S)
           /\ file \o Part(a, t, S) \in Seq(Item)
<1> DEFINE part == Part(a, t, S)
           n == Need(t, S)
<1>1. part \in Seq(Item) /\ Len(part) = n
  BY PartOfArgument
<1>2. \A w \in 1 .. 2 : Is(t, w, S) =>
        Before(t, w, S) + 1 \in 1 .. n /\ part[Before(t, w, S) + 1] = <<a, w>>
  BY PartOfArgument
<1>3. \A w : Before(t, w, S) \in Nat
  BY DEF Before, One
<1> HIDE DEF part, n
<1>4. \A k \in 1 .. Len(part) :
        /\ Len(file) + k \in 1 .. Len(file \o part)
        /\ (file \o part)[Len(file) + k] = part[k]
  BY <1>1
<1>5. \A w \in 1 .. 2 : Is(t, w, S) =>
        /\ Len(file) + Before(t, w, S) + 1 \in 1 .. Len(file \o part)
        /\ (file \o part)[Len(file) + Before(t, w, S) + 1] = <<a, w>>
  <2> TAKE w \in 1 .. 2
  <2> HAVE Is(t, w, S)
  <2>1. Before(t, w, S) + 1 \in 1 .. Len(part) /\ part[Before(t, w, S) + 1] = <<a, w>>
    BY <1>1, <1>2
  <2>2. Len(file) + (Before(t, w, S) + 1) = Len(file) + Before(t, w, S) + 1
    BY <1>3
  <2> QED
    BY <1>4, <2>1, <2>2
<1> QED
  BY <1>1, <1>5 DEF InFile, part, n

\* After an argument ffi_call is at the next place of the plan, if it has done what was counted.
LEMMA CallStep ==
    ASSUME IInv, pc = "call", i \in 1 .. Len(types), pc' = "call", i' = i + 1,
           UNCHANGED <<cif, prepared, avalue>>,
           gprcount' = plan[i + 1].gpr, ssecount' = plan[i + 1].sse,
           argp' = Arguments + plan[i + 1].bytes
    PROVE  TypeOK' /\ Planned' /\ Counted' /\ Flagged' /\ AtPlan' /\ Seeing'
           /\ SentCount = i - 1 /\ SentCount' = i
<1> USE DEF IInv
<1>1. Len(types) \in Nat /\ i # 0 /\ i' # 0 /\ i' \in 0 .. Len(types) + 1
  BY TypesOfArguments
<1>2. Len(plan) = Len(types) + 1
  BY DEF Counted
<1>3. plan[i + 1] \in Place
  BY <1>2, PlanOfArgument
<1>4. TypeOK'
  <2>1. gprcount' \in 0 .. MAX_GPR_REGS /\ ssecount' \in 0 .. MAX_SSE_REGS /\ argp' \in Nat
    BY <1>3, ArgumentsAligned DEF Place
  <2> QED
    BY <1>1, <2>1 DEF TypeOK, cif, prepared
<1>5. Planned'
  BY PlannedStays DEF prepared
<1>6. Counted' /\ Flagged' /\ AtPlan'
  BY <1>1 DEF Counted, Flagged, AtPlan, Last, cif, prepared, ReturnsInMemory,
              examine_argument, One, Is
<1>7. Seeing'
  BY DEF Seeing
<1>8. SentCount = i - 1 /\ SentCount' = i
  BY <1>1 DEF SentCount
<1> QED
  BY <1>4, <1>5, <1>6, <1>7, <1>8

\* The pointer for a result is passed exactly if a register was counted for it.
LEMMA ReturnPointer ==
    ASSUME TypeOK, Flagged, pc # "prep"
    PROVE  rtype \in Structs /\ flags.type = Void <=> ReturnsInMemory
<1>1. CASE ReturnsInMemory
  <2>1. rtype \in Types /\ examine_argument(rtype, TRUE) = 0
    BY <1>1 DEF ReturnsInMemory, TypeOK
  <2>2. Len(Classes[rtype]) = 0
    BY <2>1 DEF examine_argument, One
  <2>3. Classes[rtype] = <<>>
    BY <2>1, <2>2, TypesAssumption
  <2> QED
    BY <1>1, <2>1, <2>3, TypesAssumption DEF Flagged
<1>2. CASE ~ReturnsInMemory
  BY <1>2, TypesAssumption DEF Flagged
<1> QED
  BY <1>1, <1>2

LEMMA CallBeginInv ==
    ASSUME IInv, call_begin
    PROVE  IInv'
<1> USE DEF IInv
<1>1. pc = "call" /\ i = 0 /\ pc' = "call" /\ i' = 1 /\ ssecount' = 0 /\ argp' = Arguments
      /\ UNCHANGED <<cif, prepared, sse, memory, avalue, rvalue>>
  BY DEF call_begin
<1>2. IF ReturnsInMemory THEN gpr' = <<RValue>> /\ gprcount' = 1
                         ELSE gpr' = <<>> /\ gprcount' = 0
  BY <1>1, ReturnPointer DEF call_begin
<1>3. Len(types) \in Nat /\ Len(plan) = Len(types) + 1 /\ plan \in Seq(Place)
  BY <1>1, TypesOfArguments DEF Counted, Planned
<1>4. plan[1] = Start
  <2>1. plan # <<>>
    BY <1>3
  <2> QED
    BY <2>1 DEF Planned
<1>5. gprcount' = One(ReturnsInMemory) /\ gprcount' \in 0 .. MAX_GPR_REGS
  BY <1>2, RegistersAssumption DEF One
<1>6. TypeOK'
  <2>1. i' \in 0 .. Len(types) + 1
    BY <1>1, <1>3
  <2> QED
    BY <1>1, <1>5, <2>1, ArgumentsAligned, RegistersAssumption DEF TypeOK, cif, prepared
<1>7. Planned'
  BY <1>1, PlannedStays DEF prepared
<1>8. Counted' /\ Flagged'
  BY <1>1 DEF Counted, Flagged, Last, cif, prepared, ReturnsInMemory, examine_argument, One, Is
<1>9. AtPlan'
  <2>1. plan'[i'] = Start
    BY <1>1, <1>4 DEF prepared
  <2>2. Arguments + 0 = Arguments
    BY ArgumentsAligned
  <2> QED
    BY <1>1, <1>5, <2>1, <2>2 DEF AtPlan, Start
<1>10. Sending'
  <2>1. SentCount = 0 /\ SentCount' = 0
    BY <1>1 DEF SentCount
  <2>2. memory' = {} /\ sse' = <<>>
    BY <1>1, <2>1 DEF Sending
  <2>3. gpr' \in Seq(Item) /\ Len(gpr') = gprcount'
    <3>1. RValue \in Item
      BY DEF Item
    <3>2. CASE ReturnsInMemory
      <4>1. gpr' = <<RValue>> /\ gprcount' = 1
        BY <1>2, <3>2
      <4>2. <<RValue>> \in Seq(Item) /\ Len(<<RValue>>) = 1
        BY <3>1
      <4> QED
        BY <4>1, <4>2
    <3>3. CASE ~ReturnsInMemory
      BY <1>2, <3>3
    <3> QED
      BY <3>2, <3>3
  <2>4. ReturnsInMemory' => Len(gpr') >= 1 /\ gpr'[1] = RValue
    BY <1>1, <1>2 DEF ReturnsInMemory, examine_argument, One, Is, cif
  <2> QED
    BY <1>1, <2>1, <2>2, <2>3, <2>4 DEF Sending
<1>11. Seeing'
  BY <1>1 DEF Seeing
<1> QED
  BY <1>6, <1>7, <1>8, <1>9, <1>10, <1>11

LEMMA CallMemoryInv ==
    ASSUME IInv, call_memory
    PROVE  IInv'
<1> USE DEF IInv
<1> DEFINE t == types[i]
           p == plan[i]
<1>1. pc = "call" /\ i \in 1 .. Len(types) /\ i # 0 /\ pc' = "call" /\ i' = i + 1
      /\ UNCHANGED <<cif, gprcount, ssecount, prepared, gpr, sse, avalue, rvalue>>
  BY DEF call_memory
<1>2. t \in Types /\ Len(types) \in Nat /\ Len(plan) = Len(types) + 1
  BY <1>1, TypesOfArguments DEF Counted
<1>3. p \in Place /\ plan[i + 1] = After(p, t)
  BY <1>1, <1>2, PlanOfArgument
<1>4. gprcount = p.gpr /\ ssecount = p.sse /\ argp = Arguments + p.bytes
  BY <1>1 DEF AtPlan
<1>5. ~Fits(p, t)
  BY <1>1, DecidesAsPlanned DEF call_memory
<1>6. ALIGN(argp, Align(t)) = Arguments + ALIGN(p.bytes, Align(t))
      /\ ALIGN(p.bytes, Align(t)) \in Nat /\ Size[t] \in Nat
  BY <1>2, <1>3, <1>4, AlignShift, AlignUp, ArgumentsAligned, AlignmentOfArguments,
     TypesAssumption DEF Place
<1>7. memory' = memory \cup {Area(i)} /\ argp' = ALIGN(argp, Align(t)) + Size[t]
  BY <1>6 DEF call_memory, Area
<1>8. gprcount' = plan[i + 1].gpr /\ ssecount' = plan[i + 1].sse
      /\ argp' = Arguments + plan[i + 1].bytes
  <2> DEFINE b == ALIGN(p.bytes, Align(t))
  <2>1. plan[i + 1] = [gpr |-> p.gpr, sse |-> p.sse, bytes |-> b + Size[t]]
    BY <1>3, <1>5 DEF After
  <2>2. argp' = (Arguments + b) + Size[t] /\ b \in Nat /\ Size[t] \in Nat
    BY <1>6, <1>7
  <2> HIDE DEF b, p, t
  <2> QED
    BY <2>1, <2>2, <1>1, <1>4, ArgumentsAligned
<1>9. TypeOK' /\ Planned' /\ Counted' /\ Flagged' /\ AtPlan' /\ Seeing'
      /\ SentCount = i - 1 /\ SentCount' = i
  BY <1>1, <1>8, CallStep
<1>10. Sending'
  <2>1. \A a : Area(a)' = Area(a) /\ (Fits(plan[a], types[a])' <=> Fits(plan[a], types[a]))
    BY <1>1 DEF cif, prepared, Area, Fits, examine_argument, One
  <2>2. \A a \in 1 .. i : Sent(a)'
    <3> TAKE a \in 1 .. i
    <3>1. CASE a = i
      BY <3>1, <1>5, <1>7, <2>1 DEF Sent
    <3>2. CASE a # i
      <4>1. a \in 1 .. SentCount
        BY <3>2, <1>1, <1>9
      <4>2. Sent(a)
        BY <4>1 DEF Sending
      <4> QED
        BY <4>2, <1>1, <1>7, <2>1 DEF Sent, cif, prepared, InFile, Before, One, Is
    <3> QED
      BY <3>1, <3>2
  <2>3. \A m \in memory' : \E a \in 1 .. i : m = Area(a) /\ ~Fits(plan[a], types[a])
    <3>1. i \in 1 .. i /\ \A a \in 1 .. i - 1 : a \in 1 .. i
      BY <1>1, <1>2
    <3>2. \A m \in memory : \E a \in 1 .. i : m = Area(a) /\ ~Fits(plan[a], types[a])
      BY <3>1, <1>9 DEF Sending
    <3> QED
      BY <3>1, <3>2, <1>5, <1>7
  <2>4. Len(gpr') = gprcount' /\ Len(sse') = ssecount'
    BY <1>1 DEF Sending
  <2>5. ReturnsInMemory' => Len(gpr') >= 1 /\ gpr'[1] = RValue
    BY <1>1 DEF Sending, ReturnsInMemory, examine_argument, One, Is, cif
  <2>6. gpr' \in Seq(Item) /\ sse' \in Seq(Item)
    BY <1>1 DEF Sending
  <2>7. \A a \in 1 .. SentCount' : Sent(a)'
    BY <2>2, <1>9
  <2>8. \A m \in memory' : \E a \in 1 .. SentCount' :
            m = Area(a)' /\ ~Fits(plan[a], types[a])'
    BY <2>1, <2>3, <1>9
  <2>9. pc' = "call" /\ i' # 0
    BY <1>1
  <2> QED
    BY <2>4, <2>5, <2>6, <2>7, <2>8, <2>9 DEF Sending
<1> QED
  BY <1>9, <1>10

LEMMA CallRegistersInv ==
    ASSUME IInv, call_registers
    PROVE  IInv'
<1> USE DEF IInv
<1> DEFINE t == types[i]
           p == plan[i]
<1>1. pc = "call" /\ i \in 1 .. Len(types) /\ i # 0 /\ pc' = "call" /\ i' = i + 1
      /\ UNCHANGED <<cif, argp, prepared, memory, avalue, rvalue>>
      /\ gpr' = gpr \o Part(i, t, Integer) /\ sse' = sse \o Part(i, t, SSE)
      /\ gprcount' = gprcount + Need(t, Integer) /\ ssecount' = ssecount + Need(t, SSE)
      /\ ~Is(t, 1, {"NO"}) /\ ~Is(t, 2, {"NO"})
  BY DEF call_registers
<1>2. t \in Types /\ Len(types) \in Nat /\ Len(plan) = Len(types) + 1 /\ i \in Nat
  BY <1>1, TypesOfArguments DEF Counted
<1>3. p \in Place /\ plan[i + 1] = After(p, t)
  BY <1>1, <1>2, PlanOfArgument
<1>4. gprcount = p.gpr /\ ssecount = p.sse /\ argp = Arguments + p.bytes
  BY <1>1 DEF AtPlan
<1>5. Fits(p, t)
  BY <1>1, DecidesAsPlanned DEF call_registers
<1>6. gprcount' = plan[i + 1].gpr /\ ssecount' = plan[i + 1].sse
      /\ argp' = Arguments + plan[i + 1].bytes
  BY <1>1, <1>3, <1>4, <1>5 DEF After
<1>7. TypeOK' /\ Planned' /\ Counted' /\ Flagged' /\ AtPlan' /\ Seeing'
      /\ SentCount = i - 1 /\ SentCount' = i
  BY <1>1, <1>6, CallStep
<1>8. gpr \in Seq(Item) /\ sse \in Seq(Item) /\ Len(gpr) = p.gpr /\ Len(sse) = p.sse
  BY <1>1, <1>4 DEF Sending
<1>9. /\ InFile(gpr', p.gpr, i, t, Integer) /\ InFile(sse', p.sse, i, t, SSE)
      /\ gpr' \in Seq(Item) /\ sse' \in Seq(Item)
      /\ Len(gpr') = gprcount' /\ Len(sse') = ssecount'
  <2>1. InFile(gpr', Len(gpr), i, t, Integer) /\ gpr' \in Seq(Item)
        /\ Len(gpr') = Len(gpr) + Need(t, Integer)
    <3>1. gpr' = gpr \o Part(i, t, Integer) /\ gpr \in Seq(Item) /\ i \in Nat
      BY <1>1, <1>2, <1>8
    <3> HIDE DEF t
    <3>2. /\ InFile(gpr \o Part(i, t, Integer), Len(gpr), i, t, Integer)
          /\ Len(gpr \o Part(i, t, Integer)) = Len(gpr) + Need(t, Integer)
          /\ gpr \o Part(i, t, Integer) \in Seq(Item)
      BY ONLY <3>1, InAdded
    <3> QED
      BY <3>1, <3>2
  <2>2. InFile(sse', Len(sse), i, t, SSE) /\ sse' \in Seq(Item)
        /\ Len(sse') = Len(sse) + Need(t, SSE)
    <3>1. sse' = sse \o Part(i, t, SSE) /\ sse \in Seq(Item) /\ i \in Nat
      BY <1>1, <1>2, <1>8
    <3> HIDE DEF t
    <3>2. /\ InFile(sse \o Part(i, t, SSE), Len(sse), i, t, SSE)
          /\ Len(sse \o Part(i, t, SSE)) = Len(sse) + Need(t, SSE)
          /\ sse \o Part(i, t, SSE) \in Seq(Item)
      BY ONLY <3>1, InAdded
    <3> QED
      BY <3>1, <3>2
  <2> QED
    BY <2>1, <2>2, <1>1, <1>4, <1>8
<1>10. Sending'
  <2>1. \A a : Area(a)' = Area(a) /\ (Fits(plan[a], types[a])' <=> Fits(plan[a], types[a]))
    BY <1>1 DEF cif, prepared, Area, Fits, examine_argument, One
  <2>2. types' = types /\ plan' = plan /\ memory' = memory
    BY <1>1 DEF cif, prepared
  <2>3. \A a \in 1 .. i : Sent(a)'
    <3> TAKE a \in 1 .. i
    <3>1. CASE a = i
      BY <3>1, <1>1, <1>5, <1>9, <2>1, <2>2 DEF Sent, InFile, Before, One, Is
    <3>2. CASE a # i
      <4>1. a \in 1 .. SentCount
        BY <3>2, <1>1, <1>7
      <4>2. Sent(a)
        BY <4>1 DEF Sending
      <4>3. CASE Fits(plan[a], types[a])
        <5>1. InFile(gpr, plan[a].gpr, a, types[a], Integer) /\ InFile(sse, plan[a].sse, a, types[a], SSE)
              /\ ~Is(types[a], 1, {"NO"}) /\ ~Is(types[a], 2, {"NO"})
          BY <4>2, <4>3 DEF Sent
        <5>2. Part(i, t, Integer) \in Seq(Item) /\ Part(i, t, SSE) \in Seq(Item)
          BY <1>2, PartOfArgument
        <5>3. InFile(gpr', plan[a].gpr, a, types[a], Integer) /\ InFile(sse', plan[a].sse, a, types[a], SSE)
          BY <5>1, <5>2, <1>1, <1>8, InStays
        <5> QED
          BY <5>1, <5>3, <4>3, <2>1, <2>2 DEF Sent, InFile, Before, One, Is
      <4>4. CASE ~Fits(plan[a], types[a])
        BY <4>2, <4>4, <2>1, <2>2 DEF Sent
      <4> QED
        BY <4>3, <4>4
    <3> QED
      BY <3>1, <3>2
  <2>4. \A m \in memory' : \E a \in 1 .. i : m = Area(a) /\ ~Fits(plan[a], types[a])
    <3>1. \A a \in 1 .. i - 1 : a \in 1 .. i
      BY <1>2
    <3> QED
      BY <3>1, <1>7, <2>2 DEF Sending
  <2>5. ReturnsInMemory' => Len(gpr') >= 1 /\ gpr'[1] = RValue
    <3>1. ReturnsInMemory' <=> ReturnsInMemory
      BY <1>1 DEF ReturnsInMemory, examine_argument, One, Is, cif
    <3>2. ReturnsInMemory => Len(gpr) >= 1 /\ gpr[1] = RValue
      BY <1>1 DEF Sending
    <3>3. Part(i, t, Integer) \in Seq(Item)
      BY <1>2, PartOfArgument
    <3>4. Len(gpr) >= 1 => Len(gpr') >= 1 /\ gpr'[1] = gpr[1]
      BY <3>3, <1>1, <1>8
    <3> QED
      BY <3>1, <3>2, <3>4
  <2>6. \A a \in 1 .. SentCount' : Sent(a)'
    BY <2>3, <1>7
  <2>7. \A m \in memory' : \E a \in 1 .. SentCount' :
            m = Area(a)' /\ ~Fits(plan[a], types[a])'
    BY <2>1, <2>4, <1>7
  <2>8. pc' = "call" /\ i' # 0
    BY <1>1
  <2> QED
    BY <2>5, <2>6, <2>7, <2>8, <1>9 DEF Sending
<1> QED
  BY <1>7, <1>10

\* Steps that leave what was passed, and the number of arguments it is for, as they are.
LEMMA SendingStays ==
    ASSUME IInv, UNCHANGED <<cif, prepared, passed>>, SentCount' = SentCount,
           pc # "prep", pc = "call" => i # 0,
           pc' \in {"closure", "compiled", "done", "aborted"},
           pc = "aborted" => i # 0
    PROVE  Sending'
<1> USE DEF IInv
<1>1. \A a : Area(a)' = Area(a) /\ (Fits(plan[a], types[a])' <=> Fits(plan[a], types[a]))
  BY DEF cif, prepared, Area, Fits, examine_argument, One
<1>2. \A a : Sent(a) => Sent(a)'
  BY <1>1 DEF Sent, cif, prepared, passed, InFile, Before, One, Is
<1>3. \A a \in 1 .. SentCount' : Sent(a)'
  BY <1>2 DEF Sending
<1>4. \A m \in memory' : \E a \in 1 .. SentCount' : m = Area(a)' /\ ~Fits(plan[a], types[a])'
  BY <1>1 DEF Sending, passed
<1>5. (pc # "prep" /\ i # 0) \/ pc \in {"closure", "compiled", "done"}
  BY DEF TypeOK
<1>6. ReturnsInMemory' => Len(gpr') >= 1 /\ gpr'[1] = RValue
  BY <1>5 DEF Sending, ReturnsInMemory, examine_argument, One, Is, cif, passed
<1> QED
  BY <1>3, <1>4, <1>6 DEF Sending, passed

LEMMA CallAbortInv ==
    ASSUME IInv, call_abort
    PROVE  IInv'
<1> USE DEF IInv
<1>1. pc = "call" /\ i # 0 /\ pc' = "aborted" /\ i' = i
      /\ UNCHANGED <<cif, i, gprcount, ssecount, argp, prepared, passed, avalue, rvalue>>
  <2>1. Len(types) \in Nat
    BY TypesOfArguments
  <2> QED
    BY <2>1 DEF call_abort
<1>2. SentCount' = SentCount
  BY <1>1 DEF SentCount
<1>3. TypeOK'
  BY <1>1 DEF TypeOK, cif, prepared
<1>4. Planned'
  BY <1>1, PlannedStays DEF prepared
<1>5. Counted' /\ Flagged' /\ AtPlan'
  BY <1>1 DEF Counted, Flagged, AtPlan, Last, cif, prepared, ReturnsInMemory,
              examine_argument, One, Is
<1>6. Sending'
  BY <1>1, <1>2, SendingStays
<1>7. Seeing'
  BY <1>1 DEF Seeing
<1> QED
  BY <1>3, <1>4, <1>5, <1>6, <1>7

LEMMA CallFunctionInv ==
    ASSUME IInv, call_function
    PROVE  IInv'
<1> USE DEF IInv
<1>1. pc = "call" /\ i = Len(types) + 1 /\ i' = 0 /\ pc' \in {"closure", "compiled"}
      /\ UNCHANGED <<cif, gprcount, ssecount, argp, prepared, passed, avalue, rvalue>>
  BY DEF call_function, TypeOK
<1>2. Len(types) \in Nat /\ i # 0
  BY <1>1, TypesOfArguments
<1>3. SentCount' = SentCount
  BY <1>1, <1>2 DEF SentCount, cif
<1>4. TypeOK'
  BY <1>1, <1>2 DEF TypeOK, cif, prepared
<1>5. Planned'
  BY <1>1, PlannedStays DEF prepared
<1>6. Counted' /\ Flagged' /\ AtPlan'
  BY <1>1 DEF Counted, Flagged, AtPlan, Last, cif, prepared, ReturnsInMemory,
              examine_argument, One, Is
<1>7. Sending'
  BY <1>1, <1>2, <1>3, SendingStays
<1>8. Seeing'
  <2>1. avalue' = <<>> /\ i' = 0
    BY <1>1 DEF Seeing
  <2>2. Len(avalue') = 0 /\ Len(types') \in Nat
        /\ avalue' \in Seq({Expected(a) : a \in 1 .. Len(types)}')
    BY <2>1, <1>1, <1>2 DEF cif
  <2> QED
    BY <2>1, <2>2 DEF Seeing
<1> QED
  BY <1>4, <1>5, <1>6, <1>7, <1>8

-----------------------------------------------------------------------------
\* The closure.

LEMMA ClosureBeginInv ==
    ASSUME IInv, closure_begin
    PROVE  IInv'
<1> USE DEF IInv
<1>1. pc = "closure" /\ i = 0 /\ pc' = "closure" /\ i' = 1 /\ ssecount' = 0 /\ argp' = Arguments
      /\ gprcount' = One(ReturnsInMemory)
      /\ UNCHANGED <<cif, prepared, passed, avalue>>
  BY DEF closure_begin, One
<1>2. Len(types) \in Nat /\ Len(plan) = Len(types) + 1
  BY <1>1, TypesOfArguments DEF Counted
<1>3. plan[1] = Start
  <2>1. plan # <<>>
    BY <1>2
  <2> QED
    BY <2>1 DEF Planned
<1>4. SentCount' = SentCount
  BY <1>1 DEF SentCount, cif
<1>5. TypeOK'
  <2>1. gprcount' \in 0 .. MAX_GPR_REGS /\ ssecount' \in 0 .. MAX_SSE_REGS
    BY <1>1, RegistersAssumption DEF One
  <2>2. i' \in 0 .. Len(types) + 1 /\ argp' \in Nat
    BY <1>1, <1>2, ArgumentsAligned
  <2> QED
    BY <1>1, <2>1, <2>2 DEF TypeOK, cif, prepared
<1>6. Planned'
  BY <1>1, PlannedStays DEF prepared
<1>7. Counted' /\ Flagged'
  BY <1>1 DEF Counted, Flagged, Last, cif, prepared, ReturnsInMemory, examine_argument, One, Is
<1>8. AtPlan'
  <2>1. plan'[i'] = Start
    BY <1>1, <1>3 DEF prepared
  <2>2. Arguments + 0 = Arguments
    BY ArgumentsAligned
  <2> QED
    BY <1>1, <2>1, <2>2 DEF AtPlan, Start
<1>9. Sending'
  BY <1>1, <1>4, SendingStays
<1>10. Seeing'
  <2>1. \A a : Expected(a)' = Expected(a)
    BY <1>1 DEF Expected, Area, Fits, cif, prepared, examine_argument, One
  <2> QED
    BY <1>1, <2>1 DEF Seeing, cif
<1> QED
  BY <1>5, <1>6, <1>7, <1>8, <1>9, <1>10

\* After an argument the closure is at the next place, if it has found what it must.
LEMMA ClosureStep ==
    ASSUME IInv, pc = "closure", i \in 1 .. Len(types), pc' = "closure", i' = i + 1,
           UNCHANGED <<cif, prepared, passed>>,
           gprcount' = plan[i + 1].gpr, ssecount' = plan[i + 1].sse,
           argp' = Arguments + plan[i + 1].bytes,
           avalue' = Append(avalue, Expected(i))
    PROVE  IInv'
<1> USE DEF IInv
<1>1. Len(types) \in Nat /\ i # 0 /\ i' # 0 /\ i' \in 0 .. Len(types) + 1 /\ i \in Nat
  BY TypesOfArguments
<1>2. Len(plan) = Len(types) + 1
  BY DEF Counted
<1>3. plan[i + 1] \in Place
  BY <1>2, PlanOfArgument
<1>4. TypeOK'
  <2>1. gprcount' \in 0 .. MAX_GPR_REGS /\ ssecount' \in 0 .. MAX_SSE_REGS /\ argp' \in Nat
    BY <1>3, ArgumentsAligned DEF Place
  <2> QED
    BY <1>1, <2>1 DEF TypeOK, cif, prepared
<1>5. Planned'
  BY PlannedStays DEF prepared
<1>6. Counted' /\ Flagged' /\ AtPlan'
  BY <1>1 DEF Counted, Flagged, AtPlan, Last, cif, prepared, ReturnsInMemory,
              examine_argument, One, Is
<1>7. Sending'
  <2>1. SentCount' = SentCount
    BY DEF SentCount, cif
  <2> QED
    BY <2>1, SendingStays
<1>8. Seeing'
  <2> DEFINE S == {Expected(a) : a \in 1 .. Len(types)}
  <2>1. \A a : Expected(a)' = Expected(a)
    BY DEF Expected, Area, Fits, cif, prepared, examine_argument, One
  <2>2. S' = S /\ types' = types
    BY <2>1 DEF cif
  <2>3. avalue \in Seq(S) /\ Len(avalue) = i - 1 /\ Expected(i) \in S
        /\ \A a \in 1 .. Len(avalue) : avalue[a] = Expected(a)
    BY <1>1 DEF Seeing
  <2> HIDE DEF S
  <2>4. avalue' \in Seq(S) /\ Len(avalue') = i
        /\ \A a \in 1 .. i - 1 : avalue'[a] = Expected(a)
        /\ avalue'[i] = Expected(i)
    BY <2>3, <1>1
  <2>5. \A a \in 1 .. i : avalue'[a] = Expected(a)
    <3>1. \A a \in 1 .. i : a \in 1 .. i - 1 \/ a = i
      BY <1>1
    <3> QED
      BY <2>4, <3>1
  <2>6. i <= Len(types') /\ (IF i' = 0 THEN 0 ELSE i' - 1) = i
    BY <1>1, <2>2
  <2>7. avalue' \in Seq({Expected(a) : a \in 1 .. Len(types)})'
    BY <2>2, <2>4 DEF S
  <2>8. \A a \in 1 .. Len(avalue') : avalue'[a] = Expected(a)'
    BY <2>1, <2>4, <2>5
  <2> QED
    BY <2>4, <2>6, <2>7, <2>8 DEF Seeing
<1> QED
  BY <1>4, <1>5, <1>6, <1>7, <1>8

LEMMA ClosureMemoryInv ==
    ASSUME IInv, closure_memory
    PROVE  IInv'
<1> USE DEF IInv
<1> DEFINE t == types[i]
           p == plan[i]
<1>1. pc = "closure" /\ i \in 1 .. Len(types) /\ i # 0 /\ pc' = "closure" /\ i' = i + 1
      /\ UNCHANGED <<cif, gprcount, ssecount, prepared, passed, rvalue>>
  BY DEF closure_memory
<1>2. t \in Types /\ Len(types) \in Nat /\ Len(plan) = Len(types) + 1
  BY <1>1, TypesOfArguments DEF Counted
<1>3. p \in Place /\ plan[i + 1] = After(p, t)
  BY <1>1, <1>2, PlanOfArgument
<1>4. gprcount = p.gpr /\ ssecount = p.sse /\ argp = Arguments + p.bytes
  BY <1>1 DEF AtPlan
<1>5. ~Fits(p, t)
  BY <1>1, DecidesAsPlanned DEF closure_memory
<1>6. ALIGN(argp, Align(t)) = Arguments + ALIGN(p.bytes, Align(t))
      /\ ALIGN(p.bytes, Align(t)) \in Nat /\ Size[t] \in Nat
  BY <1>2, <1>3, <1>4, AlignShift, AlignUp, ArgumentsAligned, AlignmentOfArguments,
     TypesAssumption DEF Place
<1>7. avalue' = Append(avalue, Expected(i)) /\ argp' = ALIGN(argp, Align(t)) + Size[t]
  BY <1>5, <1>6 DEF closure_memory, Area, Expected
<1>8. gprcount' = plan[i + 1].gpr /\ ssecount' = plan[i + 1].sse
      /\ argp' = Arguments + plan[i + 1].bytes
  <2> DEFINE b == ALIGN(p.bytes, Align(t))
  <2>1. plan[i + 1] = [gpr |-> p.gpr, sse |-> p.sse, bytes |-> b + Size[t]]
    BY <1>3, <1>5 DEF After
  <2>2. argp' = (Arguments + b) + Size[t] /\ b \in Nat /\ Size[t] \in Nat
    BY <1>6, <1>7
  <2> HIDE DEF b, p, t
  <2> QED
    BY <2>1, <2>2, <1>1, <1>4, ArgumentsAligned
<1> QED
  BY <1>1, <1>7, <1>8, ClosureStep

\* The words of an argument that ffi_call has put into registers, as the closure finds them
\* there; the SSE registers are saved if there is one.
LEMMA WordsFound ==
    ASSUME IInv, pc = "closure", i \in 1 .. Len(types), Fits(plan[i], types[i])
    PROVE  /\ ~Is(types[i], 1, {"NO"}) /\ ~Is(types[i], 2, {"NO"})
           /\ \A w \in 1 .. 2 :
                /\ Is(types[i], w, Integer) =>
                        Found(gpr, gprcount + Before(types[i], w, Integer) + 1) = <<i, w>>
                /\ Is(types[i], w, SSE) =>
                        Found(Saved, ssecount + Before(types[i], w, SSE) + 1) = <<i, w>>
           /\ After(plan[i], types[i]) = plan[i + 1]
           /\ gprcount = plan[i].gpr /\ ssecount = plan[i].sse /\ argp = Arguments + plan[i].bytes
           /\ gprcount \in Nat /\ ssecount \in Nat
<1> USE DEF IInv
<1> DEFINE t == types[i]
           p == plan[i]
<1>1. t \in Types /\ Len(types) \in Nat /\ Len(plan) = Len(types) + 1 /\ i # 0
  BY TypesOfArguments DEF Counted
<1>2. p \in Place /\ plan[i + 1] = After(p, t) /\ Below(plan[i + 1], Last) /\ Last \in Place
      /\ plan[i + 1] \in Place
  BY <1>1, PlanOfArgument
<1>3. gprcount = p.gpr /\ ssecount = p.sse /\ argp = Arguments + p.bytes
  BY <1>1 DEF AtPlan
<1>4. Sent(i)
  BY <1>1 DEF Sending, SentCount
<1>5. InFile(gpr, p.gpr, i, t, Integer) /\ InFile(sse, p.sse, i, t, SSE)
      /\ ~Is(t, 1, {"NO"}) /\ ~Is(t, 2, {"NO"})
  BY <1>4 DEF Sent
<1>6. gpr \in Seq(Item) /\ sse \in Seq(Item)
  BY DEF Sending
<1>7. \A w \in 1 .. 2 : Is(t, w, Integer) =>
        Found(gpr, gprcount + Before(t, w, Integer) + 1) = <<i, w>>
  <2>1. DOMAIN gpr = 1 .. Len(gpr)
    BY <1>6
  <2> QED
    BY <2>1, <1>3, <1>5 DEF InFile, Found
<1>8. \A w \in 1 .. 2 : Is(t, w, SSE) => Found(Saved, ssecount + Before(t, w, SSE) + 1) = <<i, w>>
  <2> TAKE w \in 1 .. 2
  <2> HAVE Is(t, w, SSE)
  <2>1. Need(t, SSE) \in 1 .. 2
    BY DEF Need, One
  <2>2. plan[i + 1].sse = p.sse + Need(t, SSE)
    BY <1>2 DEF After
  <2>3. Last.sse # 0
    BY <2>1, <2>2, <1>2 DEF Below, Place
  <2>4. Saved = sse
    BY <2>3 DEF Counted, Saved
  <2>5. DOMAIN sse = 1 .. Len(sse)
    BY <1>6
  <2> QED
    BY <2>4, <2>5, <1>3, <1>5 DEF InFile, Found
<1> QED
  BY <1>2, <1>3, <1>5, <1>7, <1>8 DEF Place

LEMMA ClosureRegisterInv ==
    ASSUME IInv, closure_register
    PROVE  IInv'
<1> USE DEF IInv
<1> DEFINE t == types[i]
           p == plan[i]
           n == Len(Classes[t])
<1>1. pc = "closure" /\ i \in 1 .. Len(types) /\ i # 0 /\ pc' = "closure" /\ i' = i + 1
      /\ UNCHANGED <<cif, argp, prepared, passed, rvalue>>
      /\ (n = 1 \/ (n = 2 /\ Need(t, SSE) = 0))
  BY DEF closure_register
<1>2. t \in Types
  BY <1>1, TypesOfArguments
<1>3. Fits(p, t)
  BY <1>1, DecidesAsPlanned DEF closure_register
<1>4. /\ ~Is(t, 1, {"NO"}) /\ ~Is(t, 2, {"NO"})
      /\ \A w \in 1 .. 2 :
            /\ Is(t, w, Integer) => Found(gpr, gprcount + Before(t, w, Integer) + 1) = <<i, w>>
            /\ Is(t, w, SSE) => Found(Saved, ssecount + Before(t, w, SSE) + 1) = <<i, w>>
      /\ After(p, t) = plan[i + 1]
      /\ gprcount = p.gpr /\ ssecount = p.sse /\ argp = Arguments + p.bytes
      /\ gprcount \in Nat /\ ssecount \in Nat
  BY <1>1, <1>3, WordsFound
<1>5. Need(t, Integer) + Need(t, SSE) = n
      /\ \A w \in 1 .. n : Is(t, w, Integer) <=> ~Is(t, w, SSE)
  BY <1>2, <1>3, <1>4, NeedOfFitting
<1>6. Need(t, Integer) \in 0 .. 2 /\ Need(t, SSE) \in 0 .. 2
  BY NeedIsSmall
<1>7. plan[i + 1] = [gpr |-> p.gpr + Need(t, Integer), sse |-> p.sse + Need(t, SSE),
                     bytes |-> p.bytes]
      /\ Expected(i) = [w \in 1 .. n |-> <<i, w>>]
  BY <1>3, <1>4 DEF After, Expected
<1>8. CASE Is(t, 1, SSE)
  <2>1. n = 1 /\ Need(t, SSE) = 1 /\ Need(t, Integer) = 0
    <3>1. Need(t, SSE) # 0
      BY <1>8, <1>6 DEF Need, One
    <3> HIDE DEF n, t
    <3> QED
      BY <3>1, <1>1, <1>5, <1>6
  <2>2. Before(t, 1, SSE) = 0
    BY DEF Before, One
  <2>3. Found(Saved, ssecount + 1) = <<i, 1>>
    BY <1>4, <1>8, <2>2
  <2>4. avalue' = Append(avalue, << <<i, 1>> >>) /\ ssecount' = ssecount + 1 /\ gprcount' = gprcount
    BY <1>8, <2>1, <2>3 DEF closure_register
  <2>5. << <<i, 1>> >> = [w \in 1 .. n |-> <<i, w>>]
    BY <2>1
  <2>6. avalue' = Append(avalue, Expected(i))
    BY <2>4, <2>5, <1>7
  <2>7. gprcount' = plan[i + 1].gpr /\ ssecount' = plan[i + 1].sse
        /\ argp' = Arguments + plan[i + 1].bytes
    BY <2>1, <2>4, <1>1, <1>4, <1>7
  <2> QED
    BY <2>6, <2>7, <1>1, ClosureStep
<1>9. CASE ~Is(t, 1, SSE)
  <2>1. Need(t, SSE) = 0 /\ Need(t, Integer) = n
    <3>1. n = 1 => ~Is(t, 2, SSE)
      BY DEF Is
    <3>2. n = 1 => Need(t, SSE) = 0
      BY <3>1, <1>9 DEF Need, One
    <3> HIDE DEF n, t
    <3> QED
      BY <3>2, <1>1, <1>5, <1>6
  <2>2. avalue' = Append(avalue, [w \in 1 .. n |-> Found(gpr, gprcount + w)])
        /\ gprcount' = gprcount + n /\ ssecount' = ssecount
    BY <1>9 DEF closure_register
  <2>0. \A w \in 1 .. n : w \in 1 .. 2 /\ (w = 1 \/ (w = 2 /\ n = 2))
    <3>1. n = 1 \/ n = 2
      BY <1>1
    <3> HIDE DEF n
    <3> QED
      BY <3>1
  <2>3. \A w \in 1 .. n : Found(gpr, gprcount + w) = <<i, w>>
    <3> TAKE w \in 1 .. n
    <3>1. w \in 1 .. 2 /\ (w = 1 \/ (w = 2 /\ n = 2))
      BY <2>0
    <3>2. \A v \in 1 .. n : ~Is(t, v, SSE)
      <4>1. ~Is(t, 1, SSE) /\ ~Is(t, 2, SSE)
        BY <2>1 DEF Need, One
      <4>2. \A v \in 1 .. n : v = 1 \/ v = 2
        BY <2>0
      <4> QED
        BY <4>1, <4>2
    <3>3. Is(t, w, Integer)
      BY <3>2, <1>5
    <3>4. Before(t, w, Integer) + 1 = w
      <4>1. CASE w = 1
        BY <4>1 DEF Before, One
      <4>2. CASE w = 2 /\ n = 2
        <5>1. Is(t, 1, Integer)
          BY <4>2, <3>2, <1>5
        <5> QED
          BY <4>2, <5>1 DEF Before, One
      <4> QED
        BY <3>1, <4>1, <4>2
    <3>5. gprcount + Before(t, w, Integer) + 1 = gprcount + w
      <4>1. Before(t, w, Integer) \in Nat
        BY DEF Before, One
      <4> QED
        BY <4>1, <3>4, <1>4
    <3> QED
      BY <3>1, <3>3, <3>5, <1>4
  <2>4. avalue' = Append(avalue, Expected(i))
    BY <2>2, <2>3, <1>7
  <2>5. gprcount' = plan[i + 1].gpr /\ ssecount' = plan[i + 1].sse
        /\ argp' = Arguments + plan[i + 1].bytes
    BY <2>1, <2>2, <1>1, <1>4, <1>7
  <2> QED
    BY <2>4, <2>5, <1>1, ClosureStep
<1> QED
  BY <1>8, <1>9

LEMMA ClosureRegistersInv ==
    ASSUME IInv, closure_registers
    PROVE  IInv'
<1> USE DEF IInv
<1> DEFINE t == types[i]
           p == plan[i]
           s == Need(t, SSE)
           x == IF Is(t, 1, SSE) THEN Found(Saved, ssecount + 1) ELSE Found(gpr, gprcount + 1)
           y == IF Is(t, 2, SSE) THEN Found(Saved, ssecount + s) ELSE Found(gpr, gprcount + 2 - s)
<1>1. pc = "closure" /\ i \in 1 .. Len(types) /\ i # 0 /\ pc' = "closure" /\ i' = i + 1
      /\ UNCHANGED <<cif, argp, prepared, passed, rvalue>>
      /\ Len(Classes[t]) = 2 /\ s # 0
      /\ avalue' = Append(avalue, <<x, y>>)
      /\ gprcount' = gprcount + 2 - s /\ ssecount' = ssecount + s
  BY DEF closure_registers
<1>2. t \in Types
  BY <1>1, TypesOfArguments
<1>3. Fits(p, t)
  BY <1>1, DecidesAsPlanned DEF closure_registers
<1>4. /\ ~Is(t, 1, {"NO"}) /\ ~Is(t, 2, {"NO"})
      /\ \A w \in 1 .. 2 :
            /\ Is(t, w, Integer) => Found(gpr, gprcount + Before(t, w, Integer) + 1) = <<i, w>>
            /\ Is(t, w, SSE) => Found(Saved, ssecount + Before(t, w, SSE) + 1) = <<i, w>>
      /\ After(p, t) = plan[i + 1]
      /\ gprcount = p.gpr /\ ssecount = p.sse /\ argp = Arguments + p.bytes
      /\ gprcount \in Nat /\ ssecount \in Nat
  BY <1>1, <1>3, WordsFound
<1>5. Need(t, Integer) + s = 2
      /\ (Is(t, 1, Integer) <=> ~Is(t, 1, SSE)) /\ (Is(t, 2, Integer) <=> ~Is(t, 2, SSE))
  <2>1. Need(t, Integer) + Need(t, SSE) = Len(Classes[t])
        /\ \A w \in 1 .. Len(Classes[t]) : Is(t, w, Integer) <=> ~Is(t, w, SSE)
    BY <1>2, <1>3, <1>4, NeedOfFitting
  <2>2. 1 \in 1 .. 2 /\ 2 \in 1 .. 2
    OBVIOUS
  <2> QED
    BY <2>1, <2>2, <1>1
<1>6. Need(t, Integer) \in 0 .. 2 /\ s \in 0 .. 2
  BY NeedIsSmall
<1>7. x = <<i, 1>>
  <2>1. Before(t, 1, SSE) = 0 /\ Before(t, 1, Integer) = 0
    BY DEF Before, One
  <2> QED
    BY <2>1, <1>4, <1>5
<1>8. y = <<i, 2>>
  <2>1. CASE Is(t, 2, SSE)
    <3>1. Before(t, 2, SSE) + 1 = s /\ Before(t, 2, SSE) \in Nat
      BY <2>1 DEF Before, Need, One
    <3>2. ssecount + Before(t, 2, SSE) + 1 = ssecount + s
      BY <3>1, <1>4, <1>6
    <3> QED
      BY <2>1, <3>2, <1>4
  <2>2. CASE ~Is(t, 2, SSE)
    <3>1. s = 1 /\ Is(t, 1, SSE)
      BY <2>2, <1>1 DEF Need, One
    <3>2. Before(t, 2, Integer) = 0
      BY <3>1, <1>5 DEF Before, One
    <3>3. gprcount + Before(t, 2, Integer) + 1 = gprcount + 2 - s
      BY <3>1, <3>2, <1>4
    <3> QED
      BY <2>2, <3>3, <1>4, <1>5
  <2> QED
    BY <2>1, <2>2
<1>9. Expected(i) = <<x, y>>
  <2>1. Expected(i) = [w \in 1 .. 2 |-> <<i, w>>]
    BY <1>1, <1>3 DEF Expected
  <2>2. << <<i, 1>>, <<i, 2>> >> = [w \in 1 .. 2 |-> <<i, w>>]
    OBVIOUS
  <2> QED
    BY <2>1, <2>2, <1>7, <1>8
<1>10. gprcount' = plan[i + 1].gpr /\ ssecount' = plan[i + 1].sse
       /\ argp' = Arguments + plan[i + 1].bytes
  <2>1. plan[i + 1] = [gpr |-> p.gpr + Need(t, Integer), sse |-> p.sse + s, bytes |-> p.bytes]
    BY <1>3, <1>4 DEF After
  <2>2. gprcount' = gprcount + Need(t, Integer)
    BY <1>1, <1>4, <1>5, <1>6
  <2> QED
    BY <2>1, <2>2, <1>1, <1>4
<1> QED
  BY <1>1, <1>9, <1>10, ClosureStep

-----------------------------------------------------------------------------
\* The return.

LEMMA ReturnInv ==
    ASSUME IInv, closure_return \/ compiled_return
    PROVE  IInv'
<1> USE DEF IInv
<1>1. pc \in {"closure", "compiled"} /\ pc' = "done" /\ i' = i
      /\ UNCHANGED <<cif, i, gprcount, ssecount, argp, prepared, passed, avalue>>
  BY DEF closure_return, compiled_return
<1>2. SentCount' = SentCount
  BY <1>1 DEF SentCount, cif
<1>3. TypeOK'
  BY <1>1 DEF TypeOK, cif, prepared
<1>4. Planned'
  BY <1>1, PlannedStays DEF prepared
<1>5. Counted' /\ Flagged' /\ AtPlan'
  BY <1>1 DEF Counted, Flagged, AtPlan, Last, cif, prepared, ReturnsInMemory,
              examine_argument, One, Is
<1>6. Sending'
  BY <1>1, <1>2, SendingStays
<1>7. Seeing'
  <2>1. \A a : Expected(a)' = Expected(a)
    BY <1>1 DEF Expected, Area, Fits, cif, prepared, examine_argument, One
  <2>2. CASE pc = "closure"
    BY <1>1, <2>1, <2>2 DEF Seeing, cif
  <2>3. CASE pc = "compiled"
    <3>1. avalue' = <<>>
      BY <1>1, <2>3 DEF Seeing
    <3>2. Len(avalue') = 0 /\ Len(types') \in Nat
          /\ avalue' \in Seq({Expected(a) : a \in 1 .. Len(types)}')
      BY <3>1, <1>1, TypesOfArguments DEF cif
    <3> QED
      BY <1>1, <3>1, <3>2 DEF Seeing
  <2> QED
    BY <1>1, <2>2, <2>3
<1> QED
  BY <1>3, <1>4, <1>5, <1>6, <1>7

LEMMA Stutter ==
    ASSUME IInv, UNCHANGED vars
    PROVE  IInv'
<1> USE DEF IInv
<1>1. UNCHANGED <<cif, pc, i, gprcount, ssecount, argp, prepared, passed, avalue, rvalue>>
  BY DEF vars
<1>2. SentCount' = SentCount
  BY <1>1 DEF SentCount, cif
<1>3. \A a : /\ Area(a)' = Area(a) /\ Expected(a)' = Expected(a)
             /\ Fits(plan[a], types[a])' <=> Fits(plan[a], types[a])
             /\ Sent(a)' <=> Sent(a)
  BY <1>1 DEF cif, prepared, passed, Area, Expected, Fits, examine_argument, One, Sent, InFile,
              Before, Is
<1>4. ReturnsInMemory' <=> ReturnsInMemory
  BY <1>1 DEF ReturnsInMemory, examine_argument, One, Is, cif
<1>5. TypeOK' /\ Planned'
  BY <1>1, PlannedStays DEF TypeOK, cif, prepared
<1>6. Counted' /\ Flagged' /\ AtPlan'
  BY <1>1, <1>4 DEF Counted, Flagged, AtPlan, Last, cif, prepared
<1>7. Sending'
  BY <1>1, <1>2, <1>3, <1>4 DEF Sending, passed
<1>8. Seeing'
  BY <1>1, <1>3 DEF Seeing, cif
<1> QED
  BY <1>5, <1>6, <1>7, <1>8

\* The invariant holds throughout.
LEMMA Invariance == Spec => []IInv
<1>1. Init => IInv
  BY InitInv
<1>2. IInv /\ [Next]_vars => IInv'
  BY PrepReturnInv, PrepArgumentInv, PrepEndInv, CallBeginInv, CallMemoryInv, CallRegistersInv,
     CallAbortInv, CallFunctionInv, ClosureBeginInv, ClosureMemoryInv, ClosureRegisterInv,
     ClosureRegistersInv, ReturnInv, Stutter DEF Next
<1> QED
  BY <1>1, <1>2, PTL DEF Spec

-----------------------------------------------------------------------------
\* The variables keep their types, and no function counts more registers than there are.
THEOREM TypeCorrect == Spec => []TypeOK
<1>1. IInv => TypeOK
  BY DEF IInv
<1> QED
  BY <1>1, Invariance, PTL

\* ffi_call writes within the registers and the bytes that ffi_prep_cif_machdep has counted.
THEOREM WithinAllocation == Spec => []NoOverrun
<1>1. IInv => NoOverrun
  <2> SUFFICES ASSUME IInv, pc = "call", i > 0
               PROVE  argp <= Arguments + bytes /\ Len(gpr) <= MAX_GPR_REGS
                      /\ Len(sse) <= MAX_SSE_REGS
    BY DEF NoOverrun
  <2> USE DEF IInv
  <2>1. i # 0 /\ i \in 1 .. Len(types) + 1 /\ Len(types) \in Nat
        /\ Len(plan) = Len(types) + 1 /\ bytes = ALIGN(Last.bytes, 8)
    BY TypesOfArguments DEF TypeOK, Counted
  <2>2. plan[i] \in Place /\ Last \in Place /\ Below(plan[i], Last)
    <3>1. i \in 1 .. Len(plan) /\ Len(plan) \in 1 .. Len(plan) /\ i <= Len(plan)
      BY <2>1
    <3> QED
      BY <3>1 DEF Planned, Last
  <2>3. plan[i].bytes <= bytes
    <3>1. Last.bytes \in Nat /\ plan[i].bytes <= Last.bytes /\ plan[i].bytes \in Nat
      BY <2>2 DEF Place, Below
    <3>2. Last.bytes <= ALIGN(Last.bytes, 8) /\ ALIGN(Last.bytes, 8) \in Nat
      BY <3>1, AlignUp
    <3> QED
      BY <2>1, <3>1, <3>2
  <2>4. argp = Arguments + plan[i].bytes /\ plan[i].bytes \in Nat /\ bytes \in Nat
        /\ gprcount = plan[i].gpr /\ ssecount = plan[i].sse
    BY <2>1, <2>2 DEF AtPlan, Place, TypeOK
  <2>5. argp <= Arguments + bytes
    BY <2>3, <2>4, ArgumentsAligned
  <2> QED
    BY <2>1, <2>2, <2>4, <2>5 DEF Sending, Place
<1> QED
  BY <1>1, Invariance, PTL

\* The arguments in memory lie apart, and each where its type is aligned.
THEOREM AreasApart == Spec => []MemoryApart
<1>1. IInv => MemoryApart
  <2> SUFFICES ASSUME IInv PROVE MemoryApart
    OBVIOUS
  <2> USE DEF IInv
  <2>1. \A m \in memory : \E a \in 1 .. Len(types) : m = Area(a) /\ ~Fits(plan[a], types[a])
    <3>1. Len(types) \in Nat /\ SentCount \in 0 .. Len(types)
      BY TypesOfArguments DEF SentCount, TypeOK
    <3>2. \A a \in 1 .. SentCount : a \in 1 .. Len(types)
      BY <3>1
    <3> QED
      BY <3>2 DEF Sending
  <2>2. memory # {} => Len(plan) = Len(types) + 1
    <3>1. CASE pc = "prep"
      <4>1. SentCount = 0
        BY <3>1 DEF SentCount
      <4> QED
        BY <4>1 DEF Sending
    <3>2. CASE pc # "prep"
      BY <3>2 DEF Counted
    <3> QED
      BY <3>1, <3>2
  <2>3. \A a \in 1 .. Len(types) : Len(plan) = Len(types) + 1 /\ ~Fits(plan[a], types[a]) =>
          /\ Area(a).address \in Nat
          /\ Area(a).address % Alignment[types[a]] = 0
          /\ Arguments + plan[a].bytes <= Area(a).address
          /\ End(Area(a)) = Arguments + plan[a + 1].bytes
          /\ plan[a].bytes \in Nat /\ plan[a + 1].bytes \in Nat
    <3> TAKE a \in 1 .. Len(types)
    <3> HAVE Len(plan) = Len(types) + 1 /\ ~Fits(plan[a], types[a])
    <3> DEFINE t == types[a]
               b == ALIGN(plan[a].bytes, Align(t))
               c == plan[a].bytes
    <3>1. t \in Types
      BY TypesOfArguments
    <3>2. plan[a] \in Place /\ plan[a + 1] = After(plan[a], t)
      BY PlanOfArgument
    <3>3. c \in Nat
      BY <3>2 DEF Place
    <3>4. b \in Nat /\ c <= b /\ b % Align(t) = 0 /\ Size[t] \in Nat
      BY <3>1, <3>3, AlignUp, AlignmentOfArguments, TypesAssumption
    <3>5. plan[a + 1].bytes = b + Size[t]
      BY <3>2 DEF After
    <3>6. Area(a).address = Arguments + b /\ Area(a).argument = a
      BY DEF Area
    <3>7. End(Area(a)) = (Arguments + b) + Size[t]
      BY <3>6 DEF End
    <3>8. Align(t) = (IF Alignment[t] = 16 THEN 16 ELSE 8) /\ Alignment[t] \in {1, 2, 4, 8, 16}
      BY <3>1, AlignmentOfArguments DEF Align, Larger
    <3>9. (Arguments + b) % Alignment[t] = 0
      <4>0. b \in Nat /\ (IF Alignment[t] = 16 THEN b % 16 = 0 ELSE b % 8 = 0)
        BY <3>4, <3>8
      <4> HIDE DEF b, t
      <4>1. CASE Alignment[t] = 16
        BY <4>1, <4>0, ArgumentsAligned
      <4>2. CASE Alignment[t] = 8
        BY <4>2, <4>0, ArgumentsAligned
      <4>3. CASE Alignment[t] = 4
        BY <4>3, <4>0, ArgumentsAligned
      <4>4. CASE Alignment[t] = 2
        BY <4>4, <4>0, ArgumentsAligned
      <4>5. CASE Alignment[t] = 1
        BY <4>5, <4>0, ArgumentsAligned
      <4> QED
        BY <3>8, <4>1, <4>2, <4>3, <4>4, <4>5
    <3> HIDE DEF b, c, t
    <3>10. Arguments + c <= Arguments + b /\ Arguments + b \in Nat
           /\ (Arguments + b) + Size[t] = Arguments + (b + Size[t]) /\ b + Size[t] \in Nat
      <4>1. b \in Nat /\ c \in Nat /\ c <= b /\ Size[t] \in Nat /\ Arguments \in Nat
        BY <3>3, <3>4, ArgumentsAligned
      <4> QED
        BY ONLY <4>1
    <3> QED
      BY <3>3, <3>5, <3>6, <3>7, <3>9, <3>10 DEF b, c, t
  <2>4. \A a, b \in 1 .. Len(types) :
          Len(plan) = Len(types) + 1 /\ ~Fits(plan[a], types[a]) /\ ~Fits(plan[b], types[b]) /\ a < b
          => End(Area(a)) <= Area(b).address
    <3> TAKE a, b \in 1 .. Len(types)
    <3> HAVE Len(plan) = Len(types) + 1 /\ ~Fits(plan[a], types[a]) /\ ~Fits(plan[b], types[b])
             /\ a < b
    <3>1. a + 1 \in 1 .. Len(plan) /\ b \in 1 .. Len(plan) /\ a + 1 <= b
      BY TypesOfArguments
    <3>2. plan[a + 1].bytes <= plan[b].bytes
      BY <3>1 DEF Planned, Below
    <3>3. End(Area(a)) = Arguments + plan[a + 1].bytes /\ plan[a + 1].bytes \in Nat
          /\ Arguments + plan[b].bytes <= Area(b).address /\ plan[b].bytes \in Nat
          /\ Area(b).address \in Nat
      BY <2>3
    <3>4. Arguments \in Nat
      BY ArgumentsAligned
    <3> QED
      BY ONLY <3>2, <3>3, <3>4
  <2> SUFFICES ASSUME NEW m \in memory
               PROVE  /\ m.address % Alignment[types[m.argument]] = 0
                      /\ \A n \in memory : m = n \/ End(m) <= n.address \/ End(n) <= m.address
    BY DEF MemoryApart
  <2>5. PICK a \in 1 .. Len(types) : m = Area(a) /\ ~Fits(plan[a], types[a])
    BY <2>1
  <2>6. m.address % Alignment[types[m.argument]] = 0
    <3>1. m.argument = a
      BY <2>5 DEF Area
    <3> QED
      BY <3>1, <2>2, <2>3, <2>5
  <2>7. \A n \in memory : m = n \/ End(m) <= n.address \/ End(n) <= m.address
    <3> TAKE n \in memory
    <3>1. PICK b \in 1 .. Len(types) : n = Area(b) /\ ~Fits(plan[b], types[b])
      BY <2>1
    <3>2. a = b \/ a < b \/ b < a
      BY TypesOfArguments
    <3> QED
      BY <3>1, <3>2, <2>2, <2>4, <2>5
  <2> QED
    BY <2>6, <2>7
<1> QED
  BY <1>1, Invariance, PTL

\* A closure finds each argument whole, and where ffi_call has put it.
THEOREM ArgumentsFound == Spec => []ArgumentsArrive
<1>1. IInv => ArgumentsArrive
  <2> SUFFICES ASSUME IInv, pc \in {"closure", "done"}, NEW a \in DOMAIN avalue
               PROVE  Whole(a)
    BY DEF ArgumentsArrive
  <2> USE DEF IInv
  <2>1. DOMAIN avalue = 1 .. Len(avalue) /\ Len(avalue) <= Len(types) /\ Len(avalue) \in Nat
        /\ \A b \in 1 .. Len(avalue) : avalue[b] = Expected(b)
    BY DEF Seeing
  <2>2. Len(types) \in Nat /\ SentCount = Len(types)
    BY TypesOfArguments DEF SentCount
  <2>3. a \in 1 .. SentCount /\ avalue[a] = Expected(a)
    BY <2>1, <2>2
  <2>4. Sent(a)
    BY <2>3 DEF Sending
  <2>5. \A b : Area(b).argument = b
    BY DEF Area
  <2>6. CASE Fits(plan[a], types[a])
    <3>1. ~\E m \in memory : m.argument = a
      BY <2>5, <2>6 DEF Sending
    <3> QED
      BY <3>1, <2>3, <2>6 DEF Whole, Expected
  <2>7. CASE ~Fits(plan[a], types[a])
    <3>1. Area(a) \in memory
      BY <2>4, <2>7 DEF Sent
    <3>2. avalue[a] = <<Area(a).address>>
      BY <2>3, <2>7 DEF Expected
    <3>3. [argument |-> a, address |-> Area(a).address] = Area(a)
      BY DEF Area
    <3> QED
      BY <3>1, <3>2, <3>3, <2>5 DEF Whole
  <2> QED
    BY <2>6, <2>7
<1> QED
  BY <1>1, Invariance, PTL

-----------------------------------------------------------------------------
\* The result.

\* What ResultFound says of the words that are stored.
Delivered(t, words) ==
    \A w \in DOMAIN Classes[t] :
        Classes[t][w] \in Integer \cup SSE \cup {"X87"} => words[w] = Word(w)

\* The assembly code stores what the callee has left, whoever the callee is.
LEMMA StoredDelivers ==
    ASSUME NEW t \in Types, Ordinary(t), examine_argument(t, TRUE) # 0,
           flags.type = t, flags.bit = ResultBit(t),
           NEW r \in {ClosureResult(t), CompiledResult(t)}
    PROVE  Delivered(t, Stored(r))
<1> DEFINE n == Len(Classes[t])
           s == Stored(r)
<1>1. t # Void /\ Classes[t] \in Seq(Class) /\ n <= 2
  BY TypesAssumption
<1>2. DOMAIN Classes[t] = 1 .. n /\ n \in Nat
  BY <1>1
<1>3. \A S : S \in {Integer, SSE} => \A w \in 1 .. 2 : Is(t, w, S) =>
        Found(Part(0, t, S), Before(t, w, S) + 1) = Word(w)
  <2> TAKE S
  <2> HAVE S \in {Integer, SSE}
  <2> TAKE w \in 1 .. 2
  <2> HAVE Is(t, w, S)
  <2> DEFINE part == Part(0, t, S)
             k == Before(t, w, S) + 1
  <2>1. part \in Seq(Item) /\ k \in 1 .. Len(part) /\ part[k] = <<0, w>>
    BY PartOfArgument
  <2> HIDE DEF part, k
  <2>2. Found(part, k) = <<0, w>>
    BY <2>1 DEF Found
  <2> QED
    BY <2>2 DEF Word, part, k
<1>4. CASE t \in Structs
  <2>1. \A w \in 1 .. n : Classes[t][w] \in Integer \cup SSE
    BY <1>4 DEF Ordinary
  <2>2. ~Is(t, 1, X87) /\ ~Is(t, 2, X87)
    <3>1. \A w \in 1 .. n : Classes[t][w] \notin X87
      BY <2>1 DEF Integer, SSE, X87
    <3>2. \A w \in {1, 2} : w <= n => w \in 1 .. n
      BY <1>2
    <3> QED
      BY <3>1, <3>2 DEF Is
  <2>3. examine_argument(t, TRUE) = n /\ n # 0
    BY <2>2 DEF examine_argument
  <2>4. \A w \in 1 .. n : Is(t, w, Integer) <=> ~Is(t, w, SSE)
    <3>1. \A w \in 1 .. n : w <= n
      BY <1>2
    <3> QED
      BY <2>1, <3>1 DEF Is, Integer, SSE
  <2>5. n = 1 /\ s[1] = Word(1) => Delivered(t, s)
    <3>1. n = 1 => \A w \in 1 .. n : w = 1
      <4> HIDE DEF n
      <4> QED
        OBVIOUS
    <3> QED
      BY <3>1, <1>2 DEF Delivered
  <2>6. n = 1 \/ n = 2
    <3> HIDE DEF n
    <3> QED
      BY <1>1, <1>2, <2>3
  <2>7. s = CASE flags.bit = 8 -> <<r.xmm0, r.rax>>
              [] flags.bit = 9 -> <<r.rax, r.xmm0>>
              [] flags.bit = 10 -> <<r.xmm0, r.xmm1>>
              [] OTHER -> <<r.rax, r.rdx>>
    BY <1>1, <1>4 DEF Stored
  <2>8. CASE n = 1
    <3>1. ~Is(t, 2, SSE) /\ ~Is(t, 2, Integer) /\ (Is(t, 1, Integer) <=> ~Is(t, 1, SSE))
      <4>1. 1 \in 1 .. n
        BY <2>8
      <4> QED
        BY <2>8, <2>4, <4>1 DEF Is
    <3>2. CASE Is(t, 1, SSE)
      <4>1. flags.bit = 8
        BY <3>1, <3>2, <1>4 DEF ResultBit
      <4>2. s[1] = r.xmm0
        BY <2>7, <4>1
      <4>3. ClosureResult(t).xmm0 = Word(1)
        BY <2>8, <1>4 DEF ClosureResult, Nowhere
      <4>4. CompiledResult(t).xmm0 = Word(1)
        <5>1. Before(t, 1, SSE) + 1 = 1
          BY DEF Before, One
        <5> QED
          BY <5>1, <1>3, <3>2 DEF CompiledResult
      <4> QED
        BY <4>2, <4>3, <4>4, <2>5, <2>8
    <3>3. CASE ~Is(t, 1, SSE)
      <4>1. flags.bit = 0
        BY <3>1, <3>3, <1>4 DEF ResultBit
      <4>2. s[1] = r.rax
        BY <2>7, <4>1
      <4>3. ClosureResult(t).rax = Word(1)
        BY <2>8, <1>4 DEF ClosureResult, Nowhere
      <4>4. CompiledResult(t).rax = Word(1)
        <5>1. Before(t, 1, Integer) + 1 = 1
          BY DEF Before, One
        <5> QED
          BY <5>1, <1>3, <3>1, <3>3 DEF CompiledResult
      <4> QED
        BY <4>2, <4>3, <4>4, <2>5, <2>8
    <3> QED
      BY <3>2, <3>3
  <2>9. CASE n = 2
    <3>1. (Is(t, 1, Integer) <=> ~Is(t, 1, SSE)) /\ (Is(t, 2, Integer) <=> ~Is(t, 2, SSE))
      <4>1. 1 \in 1 .. n /\ 2 \in 1 .. n
        BY <2>9
      <4> QED
        BY <2>4, <4>1
    <3>2. SUFFICES s[1] = Word(1) /\ s[2] = Word(2)
      <4>1. \A w \in 1 .. n : w = 1 \/ w = 2
        <5> HIDE DEF n
        <5> QED
          BY <2>9
      <4> QED
        BY <4>1, <1>2 DEF Delivered
    <3>3. examine_argument(t, TRUE) = 2
      BY <2>3, <2>9
    <3>4. CASE Is(t, 1, SSE) /\ Is(t, 2, SSE)
      <4>1. flags.bit = 10
        BY <3>3, <3>4, <1>4 DEF ResultBit
      <4>2. s = <<r.xmm0, r.xmm1>>
        BY <2>7, <4>1
      <4>3. ClosureResult(t).xmm0 = Word(1) /\ ClosureResult(t).xmm1 = Word(2)
        BY <1>4, <3>4 DEF ClosureResult, Nowhere
      <4>4. CompiledResult(t).xmm0 = Word(1) /\ CompiledResult(t).xmm1 = Word(2)
        <5>1. Before(t, 1, SSE) + 1 = 1 /\ Before(t, 2, SSE) + 1 = 2
          BY <3>4 DEF Before, One
        <5> QED
          BY <5>1, <1>3, <3>4 DEF CompiledResult
      <4> QED
        BY <4>2, <4>3, <4>4
    <3>5. CASE Is(t, 1, SSE) /\ ~Is(t, 2, SSE)
      <4>1. flags.bit = 8
        BY <3>3, <3>5, <1>4 DEF ResultBit
      <4>2. s = <<r.xmm0, r.rax>>
        BY <2>7, <4>1
      <4>3. ClosureResult(t).xmm0 = Word(1) /\ ClosureResult(t).rax = Word(2)
        BY <1>4, <2>9, <3>3, <3>5 DEF ClosureResult, Nowhere
      <4>4. CompiledResult(t).xmm0 = Word(1) /\ CompiledResult(t).rax = Word(2)
        <5>1. Before(t, 1, SSE) + 1 = 1 /\ Before(t, 2, Integer) + 1 = 1
          BY <3>1, <3>5 DEF Before, One
        <5> QED
          BY <5>1, <1>3, <3>1, <3>5 DEF CompiledResult
      <4> QED
        BY <4>2, <4>3, <4>4
    <3>6. CASE ~Is(t, 1, SSE) /\ Is(t, 2, SSE)
      <4>1. flags.bit = 9
        BY <3>3, <3>6, <1>4 DEF ResultBit
      <4>2. s = <<r.rax, r.xmm0>>
        BY <2>7, <4>1
      <4>3. ClosureResult(t).rax = Word(1) /\ ClosureResult(t).xmm0 = Word(2)
        BY <1>4, <2>9, <3>3, <3>6 DEF ClosureResult, Nowhere
      <4>4. CompiledResult(t).rax = Word(1) /\ CompiledResult(t).xmm0 = Word(2)
        <5>1. Before(t, 1, Integer) + 1 = 1 /\ Before(t, 2, SSE) + 1 = 1
          BY <3>6 DEF Before, One
        <5> QED
          BY <5>1, <1>3, <3>1, <3>6 DEF CompiledResult
      <4> QED
        BY <4>2, <4>3, <4>4
    <3>7. CASE ~Is(t, 1, SSE) /\ ~Is(t, 2, SSE)
      <4>1. flags.bit = 0
        BY <3>7, <1>4 DEF ResultBit
      <4>2. s = <<r.rax, r.rdx>>
        BY <2>7, <4>1
      <4>3. ClosureResult(t).rax = Word(1) /\ ClosureResult(t).rdx = Word(2)
        BY <1>4, <3>7 DEF ClosureResult, Nowhere
      <4>4. CompiledResult(t).rax = Word(1) /\ CompiledResult(t).rdx = Word(2)
        <5>1. Before(t, 1, Integer) + 1 = 1 /\ Before(t, 2, Integer) + 1 = 2
          BY <3>1, <3>7 DEF Before, One
        <5> QED
          BY <5>1, <1>3, <3>1, <3>7 DEF CompiledResult
      <4> QED
        BY <4>2, <4>3, <4>4
    <3> QED
      BY <3>4, <3>5, <3>6, <3>7
  <2> QED
    BY <2>6, <2>8, <2>9
<1>5. CASE t \notin Structs /\ Classes[t] = <<"X87", "X87UP">>
  <2>1. Is(t, 1, X87) /\ n = 2 /\ DOMAIN Classes[t] = 1 .. 2
    BY <1>2, <1>5 DEF Is, X87
  <2>2. s = <<r.st0>>
    BY <1>1, <1>5, <2>1 DEF Stored
  <2>3. r.st0 = Word(1)
    BY <1>5, <2>1 DEF ClosureResult, CompiledResult, Nowhere
  <2>4. \A w \in 1 .. 2 : Classes[t][w] \in Integer \cup SSE \cup {"X87"} => w = 1
    BY <1>5 DEF Integer, SSE
  <2> QED
    BY <2>1, <2>2, <2>3, <2>4 DEF Delivered
<1>6. CASE t \notin Structs /\ n = 1 /\ Classes[t][1] \in Integer \cup SSE
  <2>1. ~Is(t, 1, X87) /\ (Is(t, 1, Integer) <=> ~Is(t, 1, SSE))
    BY <1>6 DEF Is, Integer, SSE, X87
  <2>2. \A w \in DOMAIN Classes[t] : w = 1
    BY <1>2, <1>6
  <2>3. CASE Is(t, 1, SSE)
    <3>1. s = <<r.xmm0>>
      BY <1>1, <1>6, <2>1, <2>3 DEF Stored
    <3>2. ClosureResult(t).xmm0 = Word(1)
      BY <1>6, <2>1, <2>3 DEF ClosureResult, Nowhere
    <3>3. CompiledResult(t).xmm0 = Word(1)
      <4>1. Before(t, 1, SSE) + 1 = 1
        BY DEF Before, One
      <4> QED
        BY <4>1, <1>3, <2>3 DEF CompiledResult
    <3> QED
      BY <3>1, <3>2, <3>3, <2>2 DEF Delivered
  <2>4. CASE ~Is(t, 1, SSE)
    <3>1. s = <<r.rax>>
      BY <1>1, <1>6, <2>1, <2>4 DEF Stored
    <3>2. ClosureResult(t).rax = Word(1)
      BY <1>6, <2>1, <2>4 DEF ClosureResult, Nowhere
    <3>3. CompiledResult(t).rax = Word(1)
      <4>1. Before(t, 1, Integer) + 1 = 1
        BY DEF Before, One
      <4> QED
        BY <4>1, <1>3, <2>1, <2>4 DEF CompiledResult
    <3> QED
      BY <3>1, <3>2, <3>3, <2>2 DEF Delivered
  <2> QED
    BY <2>3, <2>4
<1> QED
  BY <1>4, <1>5, <1>6 DEF Ordinary

\* What is known of the result on the way.
Returning ==
    /\ (pc # "prep" \/ i # 0) /\ rtype # Void /\ ~ReturnsInMemory => flags.bit = ResultBit(rtype)
    /\ ReturnsInMemory /\ ((pc = "closure" /\ i # 0) \/ pc = "done") => rvalue = RValue
    /\ pc = "done" /\ rtype # Void /\ Ordinary(rtype) /\ ~ReturnsInMemory => Delivered(rtype, result)

LEMMA ReturningStep ==
    ASSUME IInv, Returning, [Next]_vars
    PROVE  Returning'
<1> USE DEF IInv
<1>1. rtype' = rtype /\ (ReturnsInMemory' <=> ReturnsInMemory)
  <2>1. rtype' = rtype
    BY DEF Next, vars, cif, prep_return, prep_argument, prep_end, call_begin, call_memory,
           call_registers, call_abort, call_function, closure_begin, closure_memory,
           closure_register, closure_registers, closure_return, compiled_return
  <2> QED
    BY <2>1 DEF ReturnsInMemory, examine_argument, One, Is
<1>2. \A t : ResultBit(t)' = ResultBit(t)
  BY DEF ResultBit, Is, examine_argument, One
<1>3. \A t, words : Delivered(t, words)' <=> Delivered(t, words)
  BY DEF Delivered
<1>4. CASE prep_return
  BY <1>1, <1>2, <1>4 DEF prep_return, Returning, TypeOK
<1>5. CASE prep_argument
  BY <1>1, <1>2, <1>5, TypesOfArguments DEF prep_argument, Returning, TypeOK, cif
<1>6. CASE prep_end
  BY <1>1, <1>2, <1>6, TypesOfArguments DEF prep_end, Returning, TypeOK
<1>7. CASE call_begin \/ call_memory \/ call_registers \/ call_abort \/ call_function
  <2>1. flags' = flags /\ pc = "call" /\ pc' \in {"call", "aborted", "closure", "compiled"}
        /\ (pc' = "closure" => i' = 0)
    BY <1>7 DEF call_begin, call_memory, call_registers, call_abort, call_function, prepared, TypeOK
  <2> QED
    BY <1>1, <1>2, <2>1 DEF Returning
<1>8. CASE closure_begin
  <2>1. flags' = flags /\ pc = "closure" /\ pc' = "closure"
    BY <1>8 DEF closure_begin, prepared
  <2>2. ReturnsInMemory => rvalue' = RValue
    <3>1. ReturnsInMemory => gpr \in Seq(Item) /\ Len(gpr) >= 1 /\ gpr[1] = RValue
      BY <2>1 DEF Sending
    <3>2. ReturnsInMemory => Found(gpr, 1) = RValue
      BY <3>1 DEF Found
    <3> QED
      BY <3>2, <1>8 DEF closure_begin
  <2> QED
    BY <1>1, <1>2, <2>1, <2>2 DEF Returning
<1>9. CASE closure_memory \/ closure_register \/ closure_registers
  <2>1. flags' = flags /\ pc = "closure" /\ pc' = "closure" /\ rvalue' = rvalue /\ i # 0
    BY <1>9, TypesOfArguments DEF closure_memory, closure_register, closure_registers, prepared
  <2> QED
    BY <1>1, <1>2, <2>1 DEF Returning
<1>10. CASE closure_return \/ compiled_return
  <2>1. flags' = flags /\ pc \in {"closure", "compiled"} /\ pc' = "done"
    BY <1>10 DEF closure_return, compiled_return, prepared
  <2>2. ReturnsInMemory => rvalue' = RValue
    <3>1. ReturnsInMemory => gpr \in Seq(Item) /\ Len(gpr) >= 1 /\ gpr[1] = RValue
      BY <2>1 DEF Sending
    <3>2. ReturnsInMemory => Found(gpr, 1) = RValue
      BY <3>1 DEF Found
    <3>3. CASE closure_return
      <4>1. i # 0
        BY <3>3, TypesOfArguments DEF closure_return
      <4> QED
        BY <3>3, <4>1 DEF closure_return, Returning
    <3>4. CASE compiled_return
      BY <3>2, <3>4 DEF compiled_return
    <3> QED
      BY <1>10, <3>3, <3>4
  <2>3. rtype # Void /\ Ordinary(rtype) /\ ~ReturnsInMemory => Delivered(rtype, result')
    <3> SUFFICES ASSUME rtype # Void, Ordinary(rtype), ~ReturnsInMemory
                 PROVE  Delivered(rtype, result')
      OBVIOUS
    <3>1. rtype \in Types /\ examine_argument(rtype, TRUE) # 0
      BY DEF ReturnsInMemory, TypeOK
    <3>2. flags.type = rtype /\ flags.bit = ResultBit(rtype)
      BY <2>1 DEF Flagged, Returning
    <3>3. \A r \in {ClosureResult(rtype), CompiledResult(rtype)} : Delivered(rtype, Stored(r))
      BY <3>1, <3>2, StoredDelivers
    <3>4. result' \in {Stored(ClosureResult(rtype)), Stored(CompiledResult(rtype))}
      BY <1>10 DEF closure_return, compiled_return
    <3> QED
      BY <3>3, <3>4
  <2> QED
    BY <1>1, <1>2, <1>3, <2>1, <2>2, <2>3 DEF Returning
<1>11. CASE UNCHANGED vars
  BY <1>1, <1>2, <1>3, <1>11 DEF vars, Returning, prepared
<1> QED
  BY <1>4, <1>5, <1>6, <1>7, <1>8, <1>9, <1>10, <1>11 DEF Next

\* A result of an ordinary type is where the caller expects it, whoever the callee is.
THEOREM ResultDelivered == Spec => []ResultFound
<1>1. Init => Returning
  BY DEF Init, Returning
<1>2. IInv /\ Returning /\ [Next]_vars => Returning'
  BY ReturningStep
<1>3. Returning => ResultFound
  BY DEF Returning, ResultFound, ResultArrives, Delivered
<1> QED
  BY <1>1, <1>2, <1>3, Invariance, PTL DEF Spec

-----------------------------------------------------------------------------
\* classify_argument.

AnyClass == Class \cup {"MEMORY"}
Leaves == [kind : {"integer", "float", "double", "longdouble"}, first : Nat, last : Nat]

\* The scalars of word w of a value are as its class says.  SSESF is one float at the beginning
\* of the word; what an SSE register is filled from ends with the word.
Suits(class, leaves) ==
    /\ class = "NO" <=> leaves = {}
    /\ class \in Integer <=> \E l \in leaves : l.kind = "integer"
    /\ class = "SSESF" => \A l \in leaves : l.first % 8 = 0 /\ l.last % 8 = 3
    /\ class \in {"SSE", "SSEDF"} => \E l \in leaves : l.last % 8 = 7

\* The words of a value of type t at this place suit the scalars in them, unless a structure
\* in it may straddle words (loose).
Plain(t, place, classes, leaves, loose) ==
    /\ \A w \in 1 .. Words(t) : classes[w] \in {"NO"} \cup Integer \cup SSE
    /\ \A l \in leaves : l.kind # "longdouble" /\ l.first \div 8 = l.last \div 8
    /\ ~loose => \A w \in 1 .. Words(t) : Suits(classes[w], In(leaves, place \div 8 + w))

Lone == [kind |-> "longdouble", first |-> 0, last |-> 15]
LongDouble(place, classes, leaves, end) ==
    /\ classes = <<"X87", "X87UP">> /\ leaves = {Lone} /\ place = 0 /\ end >= 16

\* What is known of a value of type t of which the bytes before end have been classified.  If the
\* whole value it is part of may be left to registers, it is without long doubles, or is one.
Settled(t, place, classes, leaves, end, whole, loose) ==
    /\ classes \in Seq(AnyClass) /\ Len(classes) = Words(t)
    /\ leaves \subseteq Leaves
    /\ \A l \in leaves : place <= l.first /\ l.first <= l.last /\ l.last < place + end
    /\ whole.size <= 16 => \/ Plain(t, place, classes, leaves, loose)
                           \/ LongDouble(place, classes, leaves, end)

\* Where the fields that are merged end.
Ended(f) == FieldEnd(f.type, f.field - 1)

\* A structure goes on in no word more than its size has.
Straight(t, place) == ((place % 8) + t.size + 7) \div 8 <= Words(t)

Frame == [type : FfiTypes, byte_offset : Nat, field : Nat \ {0}, classes : Seq(AnyClass),
          place : Nat, leaves : SUBSET Leaves]
FrameOK(f, whole, loose) ==
    /\ f \in Frame
    /\ f.type.kind = "struct" /\ f.field <= Len(f.type.elements) + 1
    /\ f.place % f.type.alignment = 0
    /\ f.place + f.type.size <= whole.size
    /\ Settled(f.type, f.place, f.classes, f.leaves, Ended(f), whole, loose)
    /\ f.field = 1 => \A w \in 1 .. Words(f.type) : f.classes[w] = "NO"
    /\ ~loose => Straight(f.type, f.place)

\* Frame f waits for the call for the structure that begins at this place.
Waits(f, t, place) ==
    /\ f.field <= Len(f.type.elements)
    /\ t = f.type.elements[f.field]
    /\ place = f.place + f.type.offsets[f.field]
    /\ f.byte_offset = (f.place % 8) + f.type.offsets[f.field]

\* Nothing of the field f waits for, or of the ones behind it, has been classified in f.
Ready(f) == f.byte_offset = (f.place % 8) + Ended(f)

\* The calls that are running: each waits for the next, and the last for none.
Running(calls, whole, loose) ==
    /\ calls \in Seq(Frame) /\ calls # <<>>
    /\ \A d \in 1 .. Len(calls) : FrameOK(calls[d], whole, loose)
    /\ \A d \in 1 .. Len(calls) - 1 : Waits(calls[d], calls[d + 1].type, calls[d + 1].place)
    /\ calls[1].type = whole /\ calls[1].place = 0
    /\ Ready(calls[Len(calls)])

ClassifyIInv ==
    /\ stage \in {"called", "fields", "answered"}
    /\ root \in FfiTypes
    /\ reach \in Int /\ straddled \in BOOLEAN
    /\ WithinArray
    /\ stage = "fields" => root.size <= 32 /\ Running(frames, root, straddled)
    /\ stage # "fields" => frames = <<>>
    /\ stage = "answered" =>
        \/ answer = Memory /\ root.size > 16
        \/ /\ root.size <= 16
           /\ answer = [classes |-> answer.classes, leaves |-> answer.leaves]
           /\ Settled(root, 0, answer.classes, answer.leaves, root.size, root, straddled)
           /\ ~MustBeMemory(answer.classes)

LEMMA LeastNatural ==
    ASSUME NEW S \in SUBSET Nat, S # {}
    PROVE  \E m \in S : \A k \in S : m <= k
<1>. DEFINE R == StrictSubsetOrdering(Nat)
            T == {0 .. k : k \in S}
<1>1. IsWellFoundedOn(R, FiniteSubsetsOf(Nat))
  BY FS_StrictSubsetOrderingWellFounded
<1>2. T \subseteq FiniteSubsetsOf(Nat) /\ T # {}
  <2>1. ASSUME NEW k \in S
        PROVE  0 .. k \in FiniteSubsetsOf(Nat)
    <3>1. k \in Int /\ 0 .. k \in SUBSET Nat
      OBVIOUS
    <3>2. IsFiniteSet(0 .. k)
      BY <3>1, FS_Interval
    <3>3. QED
      BY <3>1, <3>2 DEF FiniteSubsetsOf
  <2>2. QED
    BY <2>1
<1>. HIDE DEF R, T
<1>3. PICK x \in T : \A y \in T : ~ (<<y, x>> \in R)
  BY <1>1, <1>2, WFMin
<1>4. PICK m \in S : x = 0 .. m
  BY DEF T
<1>5. ASSUME NEW k \in S, k < m
      PROVE  FALSE
  <2>1. 0 .. k \in T /\ 0 .. k \subseteq x /\ 0 .. k # x
    BY <1>4, <1>5 DEF T
  <2>2. <<0 .. k, x>> \in R
    BY <1>2, <1>4, <2>1 DEF R, StrictSubsetOrdering
  <2>3. QED
    BY <1>3, <2>1, <2>2
<1>6. QED
  BY <1>5

LEMMA Induction ==
    ASSUME NEW S \in SUBSET Nat, 0 \in S, \A n \in S : n + 1 \in S
    PROVE  S = Nat
<1>1. SUFFICES ASSUME Nat \ S # {} PROVE FALSE
  OBVIOUS
<1>2. PICK m \in Nat \ S : \A k \in Nat \ S : m <= k
  BY <1>1, LeastNatural
<1>3. m # 0 /\ m - 1 \in Nat /\ m - 1 \in S
  BY <1>2
<1>4. m - 1 + 1 \in S
  BY <1>3
<1> QED
  BY <1>2, <1>4

LEMMA AlignIs ==
    ASSUME NEW v \in Nat, NEW a \in {1, 2, 4, 8, 16}
    PROVE  /\ ALIGN(v, a) \in Nat
           /\ v <= ALIGN(v, a)
           /\ ALIGN(v, a) % a = 0
<1>1. CASE a = 1
  BY <1>1 DEF ALIGN
<1>2. CASE a = 2
  BY <1>2 DEF ALIGN
<1>3. CASE a = 4
  BY <1>3 DEF ALIGN
<1>4. CASE a = 8
  BY <1>4 DEF ALIGN
<1>5. CASE a = 16
  BY <1>5 DEF ALIGN
<1> QED
  BY <1>1, <1>2, <1>3, <1>4, <1>5

\* byte_offset counts from the word a structure begins in, and is aligned where places are.
LEMMA AlignInWord ==
    ASSUME NEW place \in Nat, NEW v \in Nat, NEW a \in {1, 2, 4, 8, 16},
           NEW b \in {1, 2, 4, 8, 16}, b <= a, place % a = 0
    PROVE  /\ ALIGN((place % 8) + v, b) = (place % 8) + ALIGN(v, b)
           /\ place % b = 0
<1>1. place % b = 0
  OBVIOUS
<1>2. CASE b = 1
  BY <1>2 DEF ALIGN
<1>3. CASE b = 2
  BY <1>1, <1>3 DEF ALIGN
<1>4. CASE b = 4
  BY <1>1, <1>4 DEF ALIGN
<1>5. CASE b = 8
  BY <1>1, <1>5 DEF ALIGN
<1>6. CASE b = 16
  BY <1>1, <1>6 DEF ALIGN
<1> QED
  BY <1>1, <1>2, <1>3, <1>4, <1>5, <1>6

LEMMA ScalarTypes ==
    ASSUME NEW t \in Scalars
    PROVE  /\ t.kind \in {"integer", "float", "double", "longdouble"}
           /\ t.size \in {1, 2, 4, 8, 16} /\ t.alignment = t.size
           /\ t.kind = "integer" => t.size \in {1, 2, 4, 8}
           /\ t.kind = "float" => t.size = 4
           /\ t.kind = "double" => t.size = 8
           /\ t.kind = "longdouble" => t.size = 16
BY DEF Scalars, Scalar

LEMMA EveryType ==
    ASSUME NEW t \in FfiTypes
    PROVE  /\ t.size \in Nat \ {0} /\ t.alignment \in {1, 2, 4, 8, 16}
           /\ t.kind # "struct" => t \in Scalars
           /\ t.kind = "struct" => /\ t.elements \in Seq(FfiTypes) /\ t.offsets \in Seq(Nat)
                                  /\ Initialized(t)
<1>1. t \in Scalars => t.kind # "struct" /\ t.size \in Nat \ {0} /\ t.alignment \in {1, 2, 4, 8, 16}
  BY ScalarTypes
<1>2. t \notin Scalars => t.elements \in Seq(FfiTypes)
  <2>1. SUFFICES ASSUME t \notin Scalars PROVE t.elements \in Seq(FfiTypes)
    OBVIOUS
  <2>2. t.elements \in Seq(Elements(t)) /\ Elements(t) \subseteq FfiTypes
    BY <2>1, FfiTypesAssumption
  <2> QED
    BY <2>2
<1> QED
  BY <1>1, <1>2, FfiTypesAssumption

\* The fields of a structure follow each other within it, each at a multiple of its alignment.
LEMMA FieldsInOrder ==
    ASSUME NEW t \in FfiTypes, t.kind = "struct"
    PROVE  /\ Len(t.elements) \in Nat \ {0}
           /\ \A k \in 0 .. Len(t.elements) : FieldEnd(t, k) \in Nat /\ FieldEnd(t, k) <= t.size
           /\ \A k \in 1 .. Len(t.elements) :
                /\ t.elements[k] \in FfiTypes /\ t.offsets[k] \in Nat
                /\ FieldEnd(t, k - 1) <= t.offsets[k]
                /\ t.offsets[k] = ALIGN(FieldEnd(t, k - 1), t.elements[k].alignment)
                /\ t.offsets[k] % t.elements[k].alignment = 0
                /\ FieldEnd(t, k) = t.offsets[k] + t.elements[k].size
                /\ t.elements[k].alignment <= t.alignment
<1>1. PICK n : n = Len(t.elements)
  OBVIOUS
<1>2. /\ t.elements \in Seq(FfiTypes) /\ t.offsets \in Seq(Nat)
      /\ n \in Nat /\ DOMAIN t.elements = 1 .. n /\ DOMAIN t.offsets = 1 .. n /\ n # 0
      /\ t.size \in Nat /\ t.alignment \in {1, 2, 4, 8, 16}
      /\ \A k \in 1 .. n : /\ t.offsets[k] = ALIGN(FieldEnd(t, k - 1), t.elements[k].alignment)
                          /\ t.elements[k].alignment <= t.alignment
      /\ t.size = ALIGN(FieldEnd(t, n), t.alignment)
  <2>1. /\ t.elements \in Seq(FfiTypes) /\ t.offsets \in Seq(Nat) /\ Initialized(t)
        /\ t.size \in Nat /\ t.alignment \in {1, 2, 4, 8, 16}
    BY EveryType
  <2>2. n \in Nat /\ DOMAIN t.elements = 1 .. n
    BY <1>1, <2>1, LenProperties
  <2>3. DOMAIN t.offsets = 1 .. n /\ 1 .. n # {}
    BY <2>1, <2>2 DEF Initialized
  <2>4. n # 0
    BY <2>2, <2>3
  <2> QED
    BY <1>1, <2>1, <2>2, <2>3, <2>4 DEF Initialized
<1>3. \A k \in 1 .. n : /\ t.elements[k] \in FfiTypes /\ t.offsets[k] \in Nat
                       /\ t.elements[k].size \in Nat
                       /\ t.elements[k].alignment \in {1, 2, 4, 8, 16}
  <2>1. ASSUME NEW k \in 1 .. n
        PROVE  t.elements[k] \in FfiTypes /\ t.offsets[k] \in Nat
    <3>1. Len(t.offsets) = n
      BY <1>2, LenProperties
    <3> QED
      BY <1>1, <1>2, <2>1, <3>1, ElementOfSeq
  <2> QED
    BY <2>1, EveryType
<1>4. \A k \in 0 .. n : FieldEnd(t, k) \in Nat
  <2>1. ASSUME NEW k \in 0 .. n PROVE FieldEnd(t, k) \in Nat
    <3>1. k = 0 \/ k \in 1 .. n
      BY <1>2
    <3> QED
      BY <1>3, <3>1 DEF FieldEnd
  <2> QED
    BY <2>1
<1>5. ASSUME NEW k \in 1 .. n
      PROVE  /\ FieldEnd(t, k - 1) \in Nat /\ FieldEnd(t, k - 1) <= t.offsets[k]
             /\ t.offsets[k] % t.elements[k].alignment = 0
             /\ FieldEnd(t, k) = t.offsets[k] + t.elements[k].size
  <2>1. k - 1 \in 0 .. n /\ k # 0
    BY <1>2
  <2>2. FieldEnd(t, k - 1) \in Nat /\ t.elements[k].alignment \in {1, 2, 4, 8, 16}
    BY <1>3, <1>4, <2>1
  <2>3. PICK v, a : v = FieldEnd(t, k - 1) /\ a = t.elements[k].alignment
    OBVIOUS
  <2>4. v \in Nat /\ a \in {1, 2, 4, 8, 16} /\ t.offsets[k] = ALIGN(v, a)
    BY <1>2, <2>2, <2>3
  <2>5. v <= t.offsets[k] /\ t.offsets[k] % a = 0
    <3>1. v <= ALIGN(v, a) /\ ALIGN(v, a) % a = 0
      BY <2>4, AlignIs
    <3> QED
      BY <2>4, <3>1
  <2>6. FieldEnd(t, k) = t.offsets[k] + t.elements[k].size
    BY <2>1 DEF FieldEnd
  <2> QED
    BY <2>2, <2>3, <2>5, <2>6
<1>6. FieldEnd(t, n) <= t.size
  <2>1. n \in 0 .. n
    BY <1>2
  <2> QED
    BY <1>2, <1>4, <2>1, AlignIs
<1>7. \A k \in 0 .. n : FieldEnd(t, k) <= t.size
  <2>. DEFINE T == {m \in Nat : m <= n => FieldEnd(t, n - m) <= t.size}
  <2>1. 0 \in T
    BY <1>2, <1>6
  <2>2. ASSUME NEW m \in T PROVE m + 1 \in T
    <3>1. SUFFICES ASSUME m + 1 <= n PROVE FieldEnd(t, n - (m + 1)) <= t.size
      OBVIOUS
    <3>2. m \in Nat /\ FieldEnd(t, n - m) <= t.size
      BY <1>2, <3>1
    <3>3. PICK k : k = n - m
      OBVIOUS
    <3>4. k \in 1 .. n /\ k - 1 = n - (m + 1) /\ k - 1 \in 0 .. n
      BY <1>2, <3>1, <3>2, <3>3
    <3>5. /\ FieldEnd(t, k - 1) \in Nat /\ FieldEnd(t, k - 1) <= t.offsets[k]
          /\ FieldEnd(t, k) = t.offsets[k] + t.elements[k].size
          /\ t.offsets[k] \in Nat /\ t.elements[k].size \in Nat
      BY <1>3, <1>5, <3>4
    <3> QED
      BY <1>2, <3>2, <3>3, <3>4, <3>5
  <2>3. T \in SUBSET Nat
    OBVIOUS
  <2>. HIDE DEF T
  <2>4. T = Nat
    BY <2>1, <2>2, <2>3, Induction
  <2>5. ASSUME NEW k \in 0 .. n PROVE FieldEnd(t, k) <= t.size
    <3>1. n - k \in Nat /\ n - k <= n /\ n - (n - k) = k
      BY <1>2
    <3>2. PICK m : m = n - k
      OBVIOUS
    <3>3. m \in T /\ m <= n /\ n - m = k
      BY <2>4, <3>1, <3>2
    <3> QED
      BY <3>3 DEF T
  <2> QED
    BY <2>5
<1> QED
  BY <1>1, <1>2, <1>3, <1>4, <1>5, <1>7

\* A scalar of up to 8 bytes at a multiple of its size lies in the word it begins in.
LEMMA WithinWord ==
    ASSUME NEW place \in Nat, NEW n \in {1, 2, 4, 8}, place % n = 0
    PROVE  /\ (place % 8) + n \in 1 .. 8
           /\ (place + n - 1) \div 8 = place \div 8
           /\ (place + n - 1) % 8 = (place % 8) + n - 1
<1>1. (place % 8) + n \in 1 .. 8
  <2>1. CASE n = 1
    BY <2>1
  <2>2. CASE n = 2
    BY <2>2
  <2>3. CASE n = 4
    BY <2>3
  <2>4. CASE n = 8
    BY <2>4
  <2> QED
    BY <2>1, <2>2, <2>3, <2>4
<1>2. PICK q, r : q = place \div 8 /\ r = place % 8
  OBVIOUS
<1>3. q \in Nat /\ r \in 0 .. 7 /\ place = 8 * q + r /\ r + n \in 1 .. 8
  BY <1>1, <1>2
<1>4. place + n - 1 = 8 * q + (r + n - 1) /\ r + n - 1 \in 0 .. 7
  BY <1>3
<1>5. PICK e : e = r + n - 1
  OBVIOUS
<1>6. (8 * q + e) \div 8 = q /\ (8 * q + e) % 8 = e
  <2>1. q \in Nat /\ e \in 0 .. 7
    BY <1>3, <1>4, <1>5
  <2> QED
    BY ONLY <2>1
<1> QED
  BY <1>1, <1>2, <1>4, <1>5, <1>6

\* The class of such a scalar, for its place in the word.
LEMMA ScalarClass ==
    ASSUME NEW t \in Scalars, t.kind # "longdouble", NEW place \in Nat, place % t.size = 0
    PROVE  /\ t.size \in {1, 2, 4, 8}
           /\ \E class \in Integer \cup SSE :
                /\ classify_scalar(t, place % 8) = <<class>>
                /\ class \in Integer <=> t.kind = "integer"
                /\ class = "SSESF" => place % 8 = 0 /\ t.size = 4
                /\ class \in {"SSE", "SSEDF"} => (place % 8) + t.size = 8
<1>1. CASE t.kind = "integer"
  <2>1. t.size \in {1, 2, 4, 8}
    BY <1>1, ScalarTypes
  <2>2. (place % 8) + t.size \in 1 .. 8
    BY <2>1, WithinWord
  <2>3. PICK class \in Integer : classify_scalar(t, place % 8) = <<class>>
    BY <1>1, <2>2 DEF classify_scalar, classify_integer, Integer
  <2> QED
    BY <1>1, <2>1, <2>3 DEF Integer, SSE
<1>2. CASE t.kind = "float"
  <2>1. t.size = 4 /\ place % 4 = 0
    BY <1>2, ScalarTypes
  <2>2. (place % 8) % 8 = place % 8 /\ (place % 8 = 0 \/ place % 8 = 4)
    BY <2>1
  <2>3. PICK class \in SSE : /\ classify_scalar(t, place % 8) = <<class>>
                            /\ class = IF place % 8 = 0 THEN "SSESF" ELSE "SSE"
    BY <1>2, <2>2 DEF classify_scalar, classify_float, SSE
  <2> QED
    BY <1>2, <2>1, <2>2, <2>3 DEF Integer, SSE
<1>3. CASE t.kind = "double"
  <2>1. t.size = 8 /\ place % 8 = 0
    BY <1>3, ScalarTypes
  <2>2. classify_scalar(t, place % 8) = <<"SSEDF">>
    BY <1>3 DEF classify_scalar
  <2> QED
    BY <1>3, <2>1, <2>2 DEF Integer, SSE
<1> QED
  BY <1>1, <1>2, <1>3, ScalarTypes

\* What is left of the words of a long double, which no value of 16 bytes has but the one that is
\* nothing else.
LEMMA ScalarSettled ==
    ASSUME NEW t \in Scalars, NEW whole, whole.size \in Nat, NEW loose,
           NEW place \in Nat, place % t.alignment = 0, place + t.size <= whole.size
    PROVE  /\ Settled(t, place, classify_scalar(t, place % 8), {Leaf(t, place)}, t.size, whole, loose)
           /\ Straight(t, place)
<1>1. PICK leaf : leaf = Leaf(t, place)
  OBVIOUS
<1>2. leaf = [kind |-> t.kind, first |-> place, last |-> place + t.size - 1]
  BY <1>1 DEF Leaf
<1>3. leaf \in Leaves /\ leaf.first = place /\ leaf.last = place + t.size - 1 /\ leaf.kind = t.kind
  BY <1>2, ScalarTypes DEF Leaves
<1>4. \A l \in {leaf} : place <= l.first /\ l.first <= l.last /\ l.last < place + t.size
  BY <1>3, ScalarTypes
<1>5. CASE t.kind # "longdouble"
  <2>1. place % t.size = 0
    BY ScalarTypes
  <2>2. t.size \in {1, 2, 4, 8}
    BY <1>5, <2>1, ScalarClass
  <2>3. PICK class \in Integer \cup SSE :
            /\ classify_scalar(t, place % 8) = <<class>>
            /\ class \in Integer <=> t.kind = "integer"
            /\ class = "SSESF" => place % 8 = 0 /\ t.size = 4
            /\ class \in {"SSE", "SSEDF"} => (place % 8) + t.size = 8
    BY <1>5, <2>1, ScalarClass
  <2>4. /\ (place % 8) + t.size \in 1 .. 8
        /\ leaf.first \div 8 = leaf.last \div 8
        /\ leaf.first % 8 = place % 8
        /\ leaf.last % 8 = (place % 8) + t.size - 1
    <3>1. PICK n : n = t.size
      OBVIOUS
    <3>2. n \in {1, 2, 4, 8} /\ place % n = 0
      BY <2>1, <2>2, <3>1
    <3>3. leaf.first = place /\ leaf.last = place + n - 1
      BY <1>3, <3>1
    <3>4. /\ (place % 8) + n \in 1 .. 8
          /\ (place + n - 1) \div 8 = place \div 8
          /\ (place + n - 1) % 8 = (place % 8) + n - 1
      BY <3>2, WithinWord
    <3>5. PICK r : r = place % 8
      OBVIOUS
    <3> QED
      BY <3>1, <3>3, <3>4, <3>5
  <2>5. Words(t) = 1 /\ Straight(t, place)
    <3>1. PICK n, r : n = t.size /\ r = place % 8
      OBVIOUS
    <3>2. n \in {1, 2, 4, 8} /\ r \in Nat /\ r + n \in 1 .. 8
      BY <2>2, <2>4, <3>1
    <3>3. (n + 7) \div 8 = 1 /\ (r + n + 7) \div 8 = 1
      BY ONLY <3>2
    <3> QED
      BY <3>1, <3>3 DEF Words, Straight
  <2>6. In({leaf}, place \div 8 + 1) = {leaf}
    BY <1>3 DEF In
  <2>7. Suits(class, {leaf})
    <3>1. class # "NO"
      BY DEF Integer, SSE
    <3>2. class = "SSESF" => leaf.first % 8 = 0 /\ leaf.last % 8 = 3
      BY <2>3, <2>4
    <3>3. class \in {"SSE", "SSEDF"} => leaf.last % 8 = 7
      <4>1. PICK r, n : r = place % 8 /\ n = t.size
        OBVIOUS
      <4>2. r \in 0 .. 7 /\ n \in {1, 2, 4, 8} /\ leaf.last % 8 = r + n - 1
        BY <2>2, <2>4, <4>1
      <4> QED
        BY <2>3, <4>1, <4>2
    <3> QED
      BY <1>3, <2>3, <3>1, <3>2, <3>3 DEF Suits
  <2>8. Plain(t, place, <<class>>, {leaf}, loose)
    <3>1. \A w \in 1 .. Words(t) : w = 1 /\ <<class>>[w] = class
      BY <2>5
    <3>2. \A w \in 1 .. Words(t) : <<class>>[w] \in {"NO"} \cup Integer \cup SSE
      BY <3>1
    <3>3. \A w \in 1 .. Words(t) : Suits(<<class>>[w], In({leaf}, place \div 8 + w))
      BY <2>6, <2>7, <3>1
    <3>4. \A l \in {leaf} : l.kind # "longdouble" /\ l.first \div 8 = l.last \div 8
      BY <1>3, <1>5, <2>4
    <3> QED
      BY <3>2, <3>3, <3>4 DEF Plain
  <2>9. <<class>> \in Seq(AnyClass) /\ Len(<<class>>) = 1
    BY DEF AnyClass, Class
  <2> QED
    BY <1>1, <1>3, <1>4, <2>3, <2>5, <2>8, <2>9 DEF Settled
<1>6. CASE t.kind = "longdouble"
  <2>1. t.size = 16 /\ place % 16 = 0
    BY <1>6, ScalarTypes
  <2>2. classify_scalar(t, place % 8) = <<"X87", "X87UP">>
    BY <1>6 DEF classify_scalar
  <2>3. Words(t) = 2 /\ Straight(t, place)
    <3>1. place % 8 = 0
      BY <2>1
    <3> QED
      BY <2>1, <3>1 DEF Words, Straight
  <2>4. whole.size <= 16 => place = 0
    BY <2>1
  <2>5. whole.size <= 16 => leaf = Lone
    BY <1>2, <1>6, <2>1, <2>4 DEF Lone
  <2>6. <<"X87", "X87UP">> \in Seq(AnyClass) /\ Len(<<"X87", "X87UP">>) = 2
    BY DEF AnyClass, Class, X87
  <2>7. whole.size <= 16 => LongDouble(place, <<"X87", "X87UP">>, {leaf}, t.size)
    BY <2>1, <2>4, <2>5 DEF LongDouble
  <2> QED
    BY <1>1, <1>3, <1>4, <2>2, <2>3, <2>6, <2>7 DEF Settled
<1> QED
  BY <1>5, <1>6

\* Merging two classes of the same word.
LEMMA MergeClasses ==
    ASSUME NEW c \in AnyClass, NEW d \in AnyClass
    PROVE  /\ merge_classes(c, d) \in AnyClass
           /\ d = "NO" => merge_classes(c, d) = c
           /\ c \in {"NO"} \cup Integer \cup SSE /\ d \in {"NO"} \cup Integer \cup SSE =>
                merge_classes(c, d) \in {"NO"} \cup Integer \cup SSE
BY DEF merge_classes, AnyClass, Class, Integer, SSE, X87

LEMMA MergeSuits ==
    ASSUME NEW c \in {"NO"} \cup Integer \cup SSE, NEW d \in {"NO"} \cup Integer \cup SSE,
           NEW A, NEW B, Suits(c, A), Suits(d, B)
    PROVE  Suits(merge_classes(c, d), A \cup B)
<1>1. CASE c = "NO" \/ d = "NO"
  <2>1. c = "NO" => merge_classes(c, d) = d /\ A \cup B = B
    BY DEF merge_classes, Suits
  <2>2. d = "NO" => merge_classes(c, d) = c /\ A \cup B = A
    BY DEF merge_classes, Suits
  <2> QED
    BY <1>1, <2>1, <2>2
<1>2. CASE c # "NO" /\ d # "NO"
  <2>1. A # {} /\ B # {}
    BY <1>2 DEF Suits
  <2>2. merge_classes(c, d) \in Integer \cup SSE
    BY <1>2 DEF merge_classes, Integer, SSE, X87
  <2>3. merge_classes(c, d) \in Integer <=> c \in Integer \/ d \in Integer
    BY <1>2 DEF merge_classes, Integer, SSE, X87
  <2>4. merge_classes(c, d) = "SSESF" => c = "SSESF" /\ d = "SSESF"
    BY <1>2 DEF merge_classes, Integer, SSE, X87
  <2>5. merge_classes(c, d) \in {"SSE", "SSEDF"} => c \in {"SSE", "SSEDF"} \/ d \in {"SSE", "SSEDF"}
    BY <1>2 DEF merge_classes, Integer, SSE, X87
  <2>6. merge_classes(c, d) # "NO" /\ A \cup B # {}
    BY <2>1, <2>2 DEF Integer, SSE
  <2> QED
    BY <2>3, <2>4, <2>5, <2>6 DEF Suits
<1> QED
  BY <1>1, <1>2

\* Words are counted from the one a structure begins in.
LEMMA CountedFromWord ==
    ASSUME NEW place \in Nat, NEW v \in Nat
    PROVE  /\ (place + v) \div 8 = place \div 8 + ((place % 8) + v) \div 8
           /\ (place + v) % 8 = ((place % 8) + v) % 8
<1>1. PICK q, r : q = place \div 8 /\ r = place % 8
  OBVIOUS
<1>2. q \in Nat /\ r \in Nat /\ place = 8 * q + r
  BY <1>1
<1>3. PICK u : u = r + v
  OBVIOUS
<1>4. u \in Nat /\ place + v = 8 * q + u
  BY <1>2, <1>3
<1>5. (8 * q + u) \div 8 = q + u \div 8 /\ (8 * q + u) % 8 = u % 8
  BY ONLY <1>2, <1>4
<1> QED
  BY <1>1, <1>3, <1>4, <1>5

\* A byte of s bytes at q lies in one of the words they lie in.
LEMMA WordsOfBytes ==
    ASSUME NEW q \in Nat, NEW s \in Nat, NEW n \in Nat, NEW byte \in Nat,
           ((q % 8) + s + 7) \div 8 <= n, q <= byte, byte < q + s
    PROVE  byte \div 8 - q \div 8 \in 0 .. n - 1
<1>1. PICK a, b, c, d : a = q \div 8 /\ b = q % 8 /\ c = byte \div 8 /\ d = byte % 8
  OBVIOUS
<1>2. a \in Nat /\ b \in 0 .. 7 /\ c \in Nat /\ d \in 0 .. 7 /\ q = 8 * a + b /\ byte = 8 * c + d
  BY <1>1
<1>3. b + s + 7 < 8 * n + 8
  <2>1. (b + s + 7) \div 8 <= n
    BY <1>1
  <2> QED
    BY ONLY <1>2, <2>1, s \in Nat, n \in Nat
<1>4. 8 * a + b <= 8 * c + d /\ 8 * c + d < 8 * a + b + s
  BY <1>2
<1>5. c - a \in 0 .. n - 1
  BY <1>2, <1>3, <1>4
<1> QED
  BY <1>1, <1>5

\* A field that has been classified is merged into its structure.
LEMMA MergedSettled ==
    ASSUME NEW t \in FfiTypes, t.kind = "struct", NEW k \in 1 .. Len(t.elements),
           NEW whole, whole.size \in Nat, NEW loose,
           NEW place \in Nat, place + t.size <= whole.size,
           NEW classes, NEW leaves, NEW subclasses, NEW subleaves, NEW e, e = t.elements[k],
           Settled(t, place, classes, leaves, FieldEnd(t, k - 1), whole, loose),
           k = 1 => \A w \in 1 .. Words(t) : classes[w] = "NO",
           Settled(e, place + t.offsets[k], subclasses, subleaves, e.size, whole, loose),
           ~loose => Straight(e, place + t.offsets[k])
    PROVE  Settled(t, place, MergeField(classes, (place % 8) + t.offsets[k], subclasses),
                   leaves \cup subleaves, FieldEnd(t, k), whole, loose)
<1>1. PICK o, s, b, q : /\ o = t.offsets[k] /\ s = e.size /\ b = FieldEnd(t, k - 1)
                        /\ q = place + o
  OBVIOUS
<1>2. /\ o \in Nat /\ s \in Nat \ {0} /\ b \in Nat /\ q \in Nat /\ b <= o
      /\ FieldEnd(t, k) = o + s /\ o + s <= t.size /\ t.size \in Nat
  <2>1. Len(t.elements) \in Nat
    BY FieldsInOrder
  <2>2. k \in 0 .. Len(t.elements) /\ k - 1 \in 0 .. Len(t.elements)
    BY <2>1
  <2>3. e \in FfiTypes /\ o \in Nat /\ b <= o /\ FieldEnd(t, k) = o + s
    BY <1>1, FieldsInOrder
  <2>4. b \in Nat /\ FieldEnd(t, k) <= t.size
    BY <1>1, <2>2, FieldsInOrder
  <2>5. s \in Nat \ {0} /\ t.size \in Nat
    BY <1>1, <2>3, EveryType
  <2>6. q \in Nat
    BY <1>1, <2>3
  <2>7. o + s <= t.size
    BY <2>3, <2>4
  <2> QED
    BY <2>3, <2>4, <2>5, <2>6, <2>7
<1>3. PICK offset, pos, merged : /\ offset = (place % 8) + o /\ pos = offset \div 8
                                 /\ merged = MergeField(classes, offset, subclasses)
  OBVIOUS
<1>4. offset \in Nat /\ pos \in Nat /\ q \div 8 = place \div 8 + pos
  <2>1. PICK r : r = place % 8
    OBVIOUS
  <2>2. r \in Nat /\ offset = r + o
    BY <1>3, <2>1
  <2>3. offset \in Nat
    BY <1>2, <2>2
  <2>4. offset \div 8 \in Nat
    BY ONLY <2>3
  <2>5. (place + o) \div 8 = place \div 8 + ((place % 8) + o) \div 8
    BY <1>2, CountedFromWord
  <2> QED
    BY <1>1, <1>3, <2>3, <2>4, <2>5
<1>5. Words(t) \in Nat /\ Words(e) \in Nat
  <2>1. \A n \in Nat : (n + 7) \div 8 \in Nat
    OBVIOUS
  <2> QED
    BY <1>1, <1>2, <2>1 DEF Words
<1>6. classes \in [1 .. Words(t) -> AnyClass] /\ subclasses \in [1 .. Words(e) -> AnyClass]
  BY <1>5, LenProperties DEF Settled
<1>7. /\ merged \in [1 .. Words(t) -> AnyClass]
      /\ \A w \in 1 .. Words(t) :
            merged[w] = IF w - pos \in 1 .. Words(e)
                        THEN merge_classes(subclasses[w - pos], classes[w]) ELSE classes[w]
  <2>1. DOMAIN classes = 1 .. Words(t) /\ DOMAIN subclasses = 1 .. Words(e)
    BY <1>6
  <2>2. merged = [w \in 1 .. Words(t) |-> IF w - pos \in 1 .. Words(e)
                                          THEN merge_classes(subclasses[w - pos], classes[w])
                                          ELSE classes[w]]
    BY <1>3, <2>1 DEF MergeField
  <2>3. \A w \in 1 .. Words(t) : w - pos \in 1 .. Words(e) =>
            merge_classes(subclasses[w - pos], classes[w]) \in AnyClass
    BY <1>6, MergeClasses
  <2> QED
    BY <1>6, <2>2, <2>3
<1>8. merged \in Seq(AnyClass) /\ Len(merged) = Words(t)
  BY <1>5, <1>7
<1>9. /\ leaves \cup subleaves \subseteq Leaves
      /\ \A l \in leaves : place <= l.first /\ l.first <= l.last /\ l.last < place + b
      /\ \A l \in subleaves : q <= l.first /\ l.first <= l.last /\ l.last < q + s
  BY <1>1 DEF Settled
<1>10. \A l \in leaves \cup subleaves : l.first \in Nat /\ l.last \in Nat
  BY <1>9 DEF Leaves
<1>11. \A l \in leaves \cup subleaves :
            place <= l.first /\ l.first <= l.last /\ l.last < place + (o + s)
  <2>1. ASSUME NEW l \in leaves
        PROVE  place <= l.first /\ l.first <= l.last /\ l.last < place + (o + s)
    BY <1>2, <1>9, <1>10
  <2>2. ASSUME NEW l \in subleaves
        PROVE  place <= l.first /\ l.first <= l.last /\ l.last < place + (o + s)
    <3>1. PICK x, y : x = l.first /\ y = l.last
      OBVIOUS
    <3>2. x \in Nat /\ y \in Nat /\ q <= x /\ x <= y /\ y < q + s
      BY <1>9, <1>10, <2>2, <3>1
    <3>3. q = place + o /\ o \in Nat /\ s \in Nat
      BY <1>1, <1>2
    <3> QED
      BY <3>1, <3>2, <3>3
  <2> QED
    BY <2>1, <2>2
<1>12. ASSUME whole.size <= 16
       PROVE  \/ Plain(t, place, merged, leaves \cup subleaves, loose)
              \/ LongDouble(place, merged, leaves \cup subleaves, o + s)
  <2>1. o + s <= 16 /\ place + t.size <= 16
    BY <1>2, <1>12
  <2>2. /\ Plain(t, place, classes, leaves, loose) \/ LongDouble(place, classes, leaves, b)
        /\ Plain(e, q, subclasses, subleaves, loose) \/ LongDouble(q, subclasses, subleaves, s)
    BY <1>1, <1>12 DEF Settled
  <2>3. ~LongDouble(place, classes, leaves, b)
    BY <1>2, <2>1 DEF LongDouble
  <2>4. CASE LongDouble(q, subclasses, subleaves, s)
    <3>1. place = 0 /\ o = 0 /\ b = 0 /\ s = 16 /\ t.size = 16
      <4>1. q = 0 /\ s >= 16
        BY <2>4 DEF LongDouble
      <4>2. q = place + o /\ o \in Nat /\ b \in Nat /\ s \in Nat /\ b <= o
        BY <1>1, <1>2
      <4> QED
        BY <1>2, <2>1, <4>1, <4>2
    <3>2. k = 1
      <4>1. SUFFICES ASSUME k # 1 PROVE FALSE
        OBVIOUS
      <4>2. Len(t.elements) \in Nat
        BY FieldsInOrder
      <4>3. PICK j : j = k - 1
        OBVIOUS
      <4>4. j \in 1 .. Len(t.elements)
        BY <4>1, <4>2, <4>3
      <4>5. /\ t.elements[j] \in FfiTypes /\ t.offsets[j] \in Nat
            /\ FieldEnd(t, j) = t.offsets[j] + t.elements[j].size
        BY <4>4, FieldsInOrder
      <4>6. t.elements[j].size \in Nat \ {0}
        BY <4>5, EveryType
      <4> QED
        BY <1>1, <3>1, <4>3, <4>5, <4>6
    <3>3. leaves = {}
      BY <1>9, <1>10, <3>1
    <3>4. Words(t) = 2 /\ Words(e) = 2 /\ pos = 0
      BY <1>1, <1>3, <3>1 DEF Words
    <3>5. classes[1] = "NO" /\ classes[2] = "NO"
      BY <3>2, <3>4
    <3>6. subclasses[1] = "X87" /\ subclasses[2] = "X87UP"
      BY <2>4 DEF LongDouble
    <3>7. merged[1] = "X87" /\ merged[2] = "X87UP"
      <4>1. /\ merged[1] = merge_classes(subclasses[1], classes[1])
            /\ merged[2] = merge_classes(subclasses[2], classes[2])
        BY <1>7, <3>4
      <4> QED
        BY <3>5, <3>6, <4>1 DEF merge_classes
    <3>8. merged = <<"X87", "X87UP">>
      BY <1>8, <3>4, <3>7
    <3> QED
      BY <2>4, <3>1, <3>3, <3>8 DEF LongDouble
  <2>5. CASE Plain(t, place, classes, leaves, loose) /\ Plain(e, q, subclasses, subleaves, loose)
    <3>1. \A w \in 1 .. Words(t) : merged[w] \in {"NO"} \cup Integer \cup SSE
      <4>1. /\ \A w \in 1 .. Words(t) : classes[w] \in {"NO"} \cup Integer \cup SSE
            /\ \A w \in 1 .. Words(e) : subclasses[w] \in {"NO"} \cup Integer \cup SSE
        BY <2>5 DEF Plain
      <4>2. ASSUME NEW w \in 1 .. Words(t), w - pos \in 1 .. Words(e)
            PROVE  merge_classes(subclasses[w - pos], classes[w]) \in {"NO"} \cup Integer \cup SSE
        <5>1. PICK c, d : c = subclasses[w - pos] /\ d = classes[w]
          OBVIOUS
        <5>2. c \in {"NO"} \cup Integer \cup SSE /\ d \in {"NO"} \cup Integer \cup SSE
          BY <4>1, <4>2, <5>1
        <5>3. c \in AnyClass /\ d \in AnyClass
          BY <5>2 DEF AnyClass, Class
        <5> QED
          BY <5>1, <5>2, <5>3, MergeClasses
      <4> QED
        BY <1>7, <4>1, <4>2
    <3>2. \A l \in leaves \cup subleaves : l.kind # "longdouble" /\ l.first \div 8 = l.last \div 8
      BY <2>5 DEF Plain
    <3>3. ASSUME ~loose, NEW w \in 1 .. Words(t)
          PROVE  Suits(merged[w], In(leaves \cup subleaves, place \div 8 + w))
      <4>1. PICK A, B : A = In(leaves, place \div 8 + w) /\ B = In(subleaves, place \div 8 + w)
        OBVIOUS
      <4>2. In(leaves \cup subleaves, place \div 8 + w) = A \cup B
        BY <4>1 DEF In
      <4>3. Suits(classes[w], A) /\ classes[w] \in {"NO"} \cup Integer \cup SSE
        BY <2>5, <3>3, <4>1 DEF Plain
      <4>4. CASE w - pos \in 1 .. Words(e)
        <5>1. PICK j : j = w - pos
          OBVIOUS
        <5>2. j \in 1 .. Words(e) /\ q \div 8 + j = place \div 8 + w
          BY <1>2, <1>4, <4>4, <5>1
        <5>3. Suits(subclasses[j], B) /\ subclasses[j] \in {"NO"} \cup Integer \cup SSE
          BY <2>5, <3>3, <4>1, <5>2 DEF Plain
        <5>4. merged[w] = merge_classes(subclasses[j], classes[w])
          BY <1>7, <4>4, <5>1
        <5>5. Suits(merge_classes(subclasses[j], classes[w]), B \cup A)
          BY <4>3, <5>3, MergeSuits
        <5>6. B \cup A = A \cup B
          OBVIOUS
        <5> QED
          BY <4>2, <5>4, <5>5, <5>6
      <4>5. CASE w - pos \notin 1 .. Words(e)
        <5>1. ASSUME NEW l \in B PROVE FALSE
          <6>1. l \in subleaves /\ l.first \div 8 + 1 = place \div 8 + w
            BY <4>1, <5>1 DEF In
          <6>2. ((q % 8) + s + 7) \div 8 <= Words(e)
            BY <1>1, <3>3 DEF Straight
          <6>3. l.first \in Nat /\ q <= l.first /\ l.first < q + s
            <7>1. PICK x, y : x = l.first /\ y = l.last
              OBVIOUS
            <7>2. x \in Nat /\ y \in Nat /\ q <= x /\ x <= y /\ y < q + s
              BY <1>9, <1>10, <6>1, <7>1
            <7> QED
              BY <1>2, <7>1, <7>2
          <6>4. PICK byte : byte = l.first
            OBVIOUS
          <6>5. byte \div 8 - q \div 8 \in 0 .. Words(e) - 1
            BY <1>2, <1>5, <6>2, <6>3, <6>4, WordsOfBytes
          <6>6. PICK x, y, z, n : /\ x = byte \div 8 /\ y = place \div 8 /\ n = Words(e)
                                  /\ z = q \div 8
            OBVIOUS
          <6>7. x \in Int /\ y \in Int /\ z \in Int
            <7>1. \A n_ \in Nat : n_ \div 8 \in Int
              OBVIOUS
            <7> QED
              BY <1>2, <6>3, <6>4, <6>6, <7>1
          <6>8. /\ n \in Nat /\ w \in Int /\ pos \in Nat
                /\ x + 1 = y + w /\ z = y + pos /\ x - z \in 0 .. n - 1 /\ w - pos \notin 1 .. n
            BY <1>4, <1>5, <4>5, <6>1, <6>4, <6>5, <6>6
          <6> QED
            BY ONLY <6>7, <6>8
        <5>2. B = {} /\ merged[w] = classes[w]
          BY <1>7, <4>5, <5>1
        <5> QED
          BY <4>2, <4>3, <5>2
      <4> QED
        BY <4>4, <4>5
    <3> QED
      BY <3>1, <3>2, <3>3 DEF Plain
  <2> QED
    BY <2>2, <2>3, <2>4, <2>5
<1> QED
  BY <1>1, <1>2, <1>3, <1>8, <1>9, <1>11, <1>12 DEF Settled

LEMMA SettledLater ==
    ASSUME NEW t, NEW place \in Nat, NEW classes, NEW leaves, NEW end \in Nat, NEW later \in Nat,
           end <= later, NEW whole, NEW loose,
           Settled(t, place, classes, leaves, end, whole, loose)
    PROVE  Settled(t, place, classes, leaves, later, whole, loose)
<1>1. \A l \in leaves : l.first \in Nat /\ l.last \in Nat
  BY DEF Settled, Leaves
<1>2. ASSUME NEW l \in leaves PROVE l.last < place + later
  <2>1. PICK x : x = l.last
    OBVIOUS
  <2>2. x \in Nat /\ x < place + end
    BY <1>1, <2>1 DEF Settled
  <2> QED
    BY <2>1, <2>2
<1>3. LongDouble(place, classes, leaves, end) => LongDouble(place, classes, leaves, later)
  BY DEF LongDouble
<1> QED
  BY <1>2, <1>3 DEF Settled

\* What is known does not get lost when a structure turns out to straddle words.
LEMMA FrameStays ==
    ASSUME NEW f, NEW whole, NEW loose, NEW looser, loose => looser, FrameOK(f, whole, loose)
    PROVE  FrameOK(f, whole, looser)
<1>1. Settled(f.type, f.place, f.classes, f.leaves, Ended(f), whole, looser)
  BY DEF FrameOK, Settled, Plain
<1> QED
  BY <1>1 DEF FrameOK

\* A value of up to 16 bytes is not left to memory.
LEMMA SettledInRegisters ==
    ASSUME NEW t \in FfiTypes, NEW place, NEW classes, NEW leaves, NEW end, NEW whole, NEW loose,
           whole.size <= 16, t.size <= 16,
           Settled(t, place, classes, leaves, end, whole, loose)
    PROVE  ~MustBeMemory(classes)
<1>1. PICK n : n = t.size
  OBVIOUS
<1>2. n \in Nat \ {0} /\ n <= 16
  BY <1>1, EveryType
<1>3. (n + 7) \div 8 \in {1, 2}
  BY ONLY <1>2
<1>4. Words(t) \in {1, 2}
  BY <1>1, <1>3 DEF Words
<1>5. Len(classes) = Words(t) /\ DOMAIN classes = 1 .. Words(t)
  BY LenProperties DEF Settled
<1>6. CASE Plain(t, place, classes, leaves, loose)
  <2>1. \A w \in DOMAIN classes : classes[w] # "MEMORY" /\ classes[w] # "X87UP"
    BY <1>5, <1>6 DEF Plain, Integer, SSE
  <2> QED
    BY <1>4, <1>5, <2>1 DEF MustBeMemory
<1>7. CASE LongDouble(place, classes, leaves, end)
  BY <1>7 DEF LongDouble, MustBeMemory
<1> QED
  BY <1>6, <1>7 DEF Settled

\* A call begins with nothing classified.
LEMMA CalledOK ==
    ASSUME NEW t \in FfiTypes, t.kind = "struct", NEW place \in Nat, place % t.alignment = 0,
           NEW whole, whole.size \in Nat, place + t.size <= whole.size, NEW loose,
           ~loose => Straight(t, place)
    PROVE  LET f == Called(t, place, place % 8) IN
           /\ FrameOK(f, whole, loose) /\ Ready(f) /\ f.type = t /\ f.place = place
<1>1. PICK f : f = Called(t, place, place % 8)
  OBVIOUS
<1>2. /\ f.type = t /\ f.byte_offset = place % 8 /\ f.field = 1 /\ f.place = place /\ f.leaves = {}
      /\ f.classes = [w \in 1 .. Words(t) |-> "NO"]
      /\ f = [type |-> f.type, byte_offset |-> f.byte_offset, field |-> f.field,
              classes |-> f.classes, place |-> f.place, leaves |-> f.leaves]
  BY <1>1 DEF Called
<1>3. Words(t) \in Nat
  <2>1. \A n \in Nat : (n + 7) \div 8 \in Nat
    OBVIOUS
  <2> QED
    BY <2>1, EveryType DEF Words
<1>4. f.classes \in Seq(AnyClass) /\ Len(f.classes) = Words(t)
  BY <1>2, <1>3 DEF AnyClass, Class
<1>5. Ended(f) = 0
  BY <1>2 DEF Ended, FieldEnd
<1>6. Plain(t, place, f.classes, {}, loose)
  <2>1. \A n : In({}, n) = {}
    BY DEF In
  <2>2. Suits("NO", {})
    BY DEF Suits, Integer, SSE
  <2> QED
    BY <1>2, <2>1, <2>2 DEF Plain
<1>7. Settled(t, place, f.classes, {}, 0, whole, loose)
  BY <1>4, <1>6 DEF Settled
<1>8. f \in Frame
  <2>1. \A n \in Nat : n % 8 \in Nat
    OBVIOUS
  <2>2. /\ f.type \in FfiTypes /\ f.byte_offset \in Nat /\ f.field \in Nat \ {0}
        /\ f.place \in Nat /\ f.leaves \in SUBSET Leaves
    BY <1>2, <2>1
  <2> QED
    BY <1>2, <1>4, <2>2 DEF Frame
<1>9. f.field <= Len(t.elements) + 1
  BY <1>2, FieldsInOrder
<1>10. Ready(f)
  BY <1>2, <1>5 DEF Ready
<1> QED
  BY <1>1, <1>2, <1>5, <1>7, <1>8, <1>9, <1>10 DEF FrameOK

\* Where the next field of a running call is: byte_offset, counted from the beginning of a word,
\* agrees with its place in the whole value.
LEMMA NextField ==
    ASSUME NEW whole, whole.size \in Nat, NEW loose, NEW f, FrameOK(f, whole, loose),
           f.field <= Len(f.type.elements)
    PROVE  LET e == f.type.elements[f.field]
               o == f.type.offsets[f.field] IN
           /\ f.field \in 1 .. Len(f.type.elements)
           /\ e \in FfiTypes /\ o \in Nat /\ f.place \in Nat
           /\ (f.place + o) % e.alignment = 0
           /\ f.place + o + e.size <= whole.size
           /\ ALIGN((f.place % 8) + Ended(f), e.alignment) = (f.place % 8) + o
           /\ ((f.place % 8) + o) % 8 = (f.place + o) % 8
<1>1. PICK t, p, k, n, e, o :
        /\ t = f.type /\ p = f.place /\ k = f.field /\ n = Len(t.elements)
        /\ e = t.elements[k] /\ o = t.offsets[k]
  OBVIOUS
<1>2. t \in FfiTypes /\ t.kind = "struct" /\ p \in Nat /\ k \in Nat \ {0} /\ k <= n
      /\ p % t.alignment = 0 /\ p + t.size <= whole.size
  BY <1>1 DEF FrameOK, Frame
<1>3. n \in Nat \ {0}
  BY <1>1, <1>2, FieldsInOrder
<1>4. k \in 1 .. n /\ k \in 0 .. n /\ k - 1 \in 0 .. n
  BY <1>2, <1>3
<1>5. PICK b, a, s, c : b = FieldEnd(t, k - 1) /\ a = e.alignment /\ s = e.size /\ c = t.alignment
  OBVIOUS
<1>6. /\ e \in FfiTypes /\ o \in Nat /\ o = ALIGN(b, a) /\ o % a = 0
      /\ FieldEnd(t, k) = o + s /\ a <= c
  BY <1>1, <1>2, <1>4, <1>5, FieldsInOrder
<1>7. b \in Nat /\ FieldEnd(t, k) <= t.size
  BY <1>1, <1>2, <1>4, <1>5, FieldsInOrder
<1>8. a \in {1, 2, 4, 8, 16} /\ s \in Nat /\ c \in {1, 2, 4, 8, 16} /\ t.size \in Nat
  BY <1>2, <1>5, <1>6, EveryType
<1>9. p % c = 0
  BY <1>2, <1>5
<1>10. ALIGN((p % 8) + b, a) = (p % 8) + ALIGN(b, a) /\ p % a = 0
  <2>1. p \in Nat /\ b \in Nat /\ a <= c /\ p % c = 0
        /\ a \in {1, 2, 4, 8, 16} /\ c \in {1, 2, 4, 8, 16}
    BY <1>2, <1>6, <1>7, <1>8, <1>9
  <2> QED
    BY ONLY <2>1, AlignInWord
<1>11. (p + o) % a = 0
  <2>1. p \in Nat /\ o \in Nat /\ p % a = 0 /\ o % a = 0 /\ a \in {1, 2, 4, 8, 16}
    BY <1>2, <1>6, <1>8, <1>10
  <2>2. CASE a = 1
    BY ONLY <2>1, <2>2
  <2>3. CASE a = 2
    BY ONLY <2>1, <2>3
  <2>4. CASE a = 4
    BY ONLY <2>1, <2>4
  <2>5. CASE a = 8
    BY ONLY <2>1, <2>5
  <2>6. CASE a = 16
    BY ONLY <2>1, <2>6
  <2> QED
    BY <2>1, <2>2, <2>3, <2>4, <2>5, <2>6
<1>12. p + o + s <= whole.size
  <2>1. PICK z, y : z = t.size /\ y = whole.size
    OBVIOUS
  <2>2. z \in Nat /\ y \in Nat /\ o + s <= z /\ p + z <= y
    BY <1>2, <1>6, <1>7, <1>8, <2>1
  <2>3. p + o + s <= y
    BY ONLY <2>2, <1>2, <1>6, <1>8
  <2> QED
    BY <2>1, <2>3
<1>13. (p + o) % 8 = ((p % 8) + o) % 8
  BY <1>2, <1>6, CountedFromWord
<1>14. Ended(f) = b
  BY <1>1, <1>5 DEF Ended
<1> QED
  BY <1>1, <1>2, <1>4, <1>5, <1>6, <1>10, <1>11, <1>12, <1>13, <1>14

\* The field f comes to, and its offset.
NextType(f) == f.type.elements[f.field]
NextOffset(f) == f.type.offsets[f.field]

LEMMA MergedSame ==
    ASSUME NEW f \in Frame, NEW offset, NEW classes, NEW leaves
    PROVE  /\ Merged(f, offset, classes, leaves).type = f.type
           /\ Merged(f, offset, classes, leaves).place = f.place
BY DEF Merged, Frame

\* Merging leaves the frame ready for the field after it.
LEMMA MergedOK ==
    ASSUME NEW whole, whole.size \in Nat, NEW loose, NEW f, FrameOK(f, whole, loose),
           f.field <= Len(f.type.elements),
           NEW subclasses, NEW subleaves,
           Settled(NextType(f), f.place + NextOffset(f), subclasses, subleaves,
                   NextType(f).size, whole, loose),
           ~loose => Straight(NextType(f), f.place + NextOffset(f))
    PROVE  /\ FrameOK(Merged(f, (f.place % 8) + NextOffset(f), subclasses, subleaves), whole, loose)
           /\ Ready(Merged(f, (f.place % 8) + NextOffset(f), subclasses, subleaves))
<1>1. PICK g : g = Merged(f, (f.place % 8) + NextOffset(f), subclasses, subleaves)
  OBVIOUS
<1>2. PICK t, p, k, e, o : /\ t = f.type /\ p = f.place /\ k = f.field
                           /\ e = t.elements[k] /\ o = t.offsets[k]
                           /\ e = NextType(f) /\ o = NextOffset(f)
  BY DEF NextType, NextOffset
<1>3. /\ f \in Frame /\ t \in FfiTypes /\ t.kind = "struct" /\ p \in Nat
      /\ p + t.size <= whole.size /\ p % t.alignment = 0
      /\ Settled(t, p, f.classes, f.leaves, FieldEnd(t, k - 1), whole, loose)
      /\ k = 1 => \A w \in 1 .. Words(t) : f.classes[w] = "NO"
      /\ ~loose => Straight(t, p)
  BY <1>2 DEF FrameOK, Frame, Ended
<1>4. k \in 1 .. Len(t.elements) /\ e \in FfiTypes /\ o \in Nat
  BY <1>2, NextField
<1>5. /\ g.type = t /\ g.place = p /\ g.field = k + 1
      /\ g.byte_offset = (p % 8) + o + e.size
      /\ g.classes = MergeField(f.classes, (p % 8) + o, subclasses)
      /\ g.leaves = f.leaves \cup subleaves
      /\ g = [type |-> g.type, byte_offset |-> g.byte_offset, field |-> g.field,
              classes |-> g.classes, place |-> g.place, leaves |-> g.leaves]
  BY <1>1, <1>2, <1>3 DEF Merged, Frame
<1>6. Settled(t, p, g.classes, g.leaves, FieldEnd(t, k), whole, loose)
  <2>1. /\ e = t.elements[k] /\ o = t.offsets[k]
        /\ Settled(e, p + t.offsets[k], subclasses, subleaves, e.size, whole, loose)
        /\ ~loose => Straight(e, p + t.offsets[k])
    BY <1>2
  <2>2. PICK classes, leaves : classes = f.classes /\ leaves = f.leaves
    OBVIOUS
  <2>3. /\ Settled(t, p, classes, leaves, FieldEnd(t, k - 1), whole, loose)
        /\ k = 1 => \A w \in 1 .. Words(t) : classes[w] = "NO"
    BY <1>3, <2>2
  <2>4. Settled(t, p, MergeField(classes, (p % 8) + t.offsets[k], subclasses),
                leaves \cup subleaves, FieldEnd(t, k), whole, loose)
    BY <1>3, <1>4, <2>1, <2>3, MergedSettled
  <2> QED
    BY <1>5, <2>1, <2>2, <2>4
<1>7. Len(t.elements) \in Nat /\ FieldEnd(t, k) = o + e.size /\ e.size \in Nat
  <2>1. Len(t.elements) \in Nat /\ FieldEnd(t, k) = t.offsets[k] + t.elements[k].size
    BY <1>3, <1>4, FieldsInOrder
  <2> QED
    BY <1>2, <1>4, <2>1, EveryType
<1>8. Ended(g) = FieldEnd(t, k)
  <2>1. k \in Nat /\ k + 1 - 1 = k
    BY <1>4, <1>7
  <2> QED
    BY <1>5, <2>1 DEF Ended
<1>9. Ready(g)
  <2>1. PICK r, s : r = p % 8 /\ s = e.size
    OBVIOUS
  <2>2. r \in Nat /\ s \in Nat /\ g.byte_offset = r + o + s /\ Ended(g) = o + s
    BY <1>3, <1>5, <1>7, <1>8, <2>1
  <2> QED
    BY <1>4, <1>5, <2>1, <2>2 DEF Ready
<1>10. g \in Frame
  <2>1. g.byte_offset \in Nat
    <3>1. PICK r, s : r = p % 8 /\ s = e.size
      OBVIOUS
    <3>2. r \in Nat /\ s \in Nat /\ g.byte_offset = r + o + s
      BY <1>3, <1>5, <1>7, <3>1
    <3> QED
      BY <1>4, <3>2
  <2>2. g.field \in Nat \ {0}
    BY <1>4, <1>5, <1>7
  <2>3. g.classes \in Seq(AnyClass) /\ g.leaves \in SUBSET Leaves
    BY <1>6 DEF Settled
  <2> QED
    BY <1>3, <1>5, <2>1, <2>2, <2>3 DEF Frame
<1>11. g.field <= Len(g.type.elements) + 1 /\ g.field # 1
  BY <1>4, <1>5, <1>7
<1>12. FrameOK(g, whole, loose)
  BY <1>3, <1>5, <1>6, <1>8, <1>10, <1>11 DEF FrameOK
<1> QED
  BY <1>1, <1>9, <1>12

\* The array of MAX_CLASSES entries has room for a field within 32 bytes, also from the word it
\* begins in.
LEMMA RoomForField ==
    ASSUME NEW t \in FfiTypes, NEW v \in Nat, v + t.size <= 32
    PROVE  v \div 8 + Words(t) - 1 \in Int /\ v \div 8 + Words(t) - 1 < MAX_CLASSES
<1>1. PICK s, a : s = t.size /\ a = v \div 8
  OBVIOUS
<1>2. s \in Nat \ {0} /\ a \in Nat /\ 8 * a <= v /\ v + s <= 32
  BY <1>1, EveryType
<1>3. PICK c : c = (s + 7) \div 8
  OBVIOUS
<1>4. c \in Nat /\ 8 * c <= s + 7
  BY <1>2, <1>3
<1>5. a + c - 1 \in Int /\ a + c - 1 < 4
  BY ONLY <1>2, <1>4, v \in Nat
<1> QED
  BY <1>1, <1>3, <1>5 DEF Words, MAX_CLASSES

\* The last call has gone on.
LEMMA RunningOn ==
    ASSUME NEW calls, NEW whole, NEW loose, Running(calls, whole, loose),
           NEW f, FrameOK(f, whole, loose), Ready(f),
           f.type = calls[Len(calls)].type, f.place = calls[Len(calls)].place
    PROVE  Running([calls EXCEPT ![Len(calls)] = f], whole, loose)
<1>1. PICK n, new : n = Len(calls) /\ new = [calls EXCEPT ![n] = f]
  OBVIOUS
<1>2. calls \in Seq(Frame) /\ calls # <<>> /\ f \in Frame
  BY DEF Running, FrameOK
<1>3. n \in Nat \ {0} /\ DOMAIN calls = 1 .. n
  BY <1>1, <1>2, LenProperties, EmptySeq
<1>4. /\ new \in Seq(Frame) /\ Len(new) = n /\ new # <<>>
      /\ \A d \in 1 .. n : new[d] = IF d = n THEN f ELSE calls[d]
  <2>1. /\ new = [d \in 1 .. n |-> IF d = n THEN f ELSE calls[d]]
        /\ \A d \in 1 .. n : calls[d] \in Frame
    BY <1>1, <1>2, <1>3, ElementOfSeq
  <2>2. new \in [1 .. n -> Frame]
    BY <1>2, <2>1
  <2>3. new \in Seq(Frame) /\ Len(new) = n
    BY <1>3, <2>2
  <2> QED
    BY <1>3, <2>1, <2>3
<1>5. \A d \in 1 .. n : /\ FrameOK(new[d], whole, loose)
                       /\ new[d].type = calls[d].type /\ new[d].place = calls[d].place
  BY <1>1, <1>3, <1>4 DEF Running
<1>6. \A d \in 1 .. n - 1 : Waits(new[d], new[d + 1].type, new[d + 1].place)
  <2>1. ASSUME NEW d \in 1 .. n - 1
        PROVE  Waits(new[d], new[d + 1].type, new[d + 1].place)
    <3>1. d \in 1 .. n /\ d # n /\ d + 1 \in 1 .. n
      BY <1>3
    <3>2. Waits(calls[d], calls[d + 1].type, calls[d + 1].place)
      BY <1>1 DEF Running
    <3> QED
      BY <1>4, <1>5, <3>1, <3>2
  <2> QED
    BY <2>1
<1>7. new[1].type = whole /\ new[1].place = 0
  BY <1>3, <1>5 DEF Running
<1>8. Ready(new[n])
  BY <1>3, <1>4
<1> QED
  BY <1>1, <1>4, <1>5, <1>6, <1>7, <1>8 DEF Running

\* The last call, as f, has made a call, g.
LEMMA RunningDeeper ==
    ASSUME NEW calls, NEW whole, NEW loose, Running(calls, whole, loose),
           NEW f, FrameOK(f, whole, loose),
           f.type = calls[Len(calls)].type, f.place = calls[Len(calls)].place,
           NEW g, FrameOK(g, whole, loose), Ready(g), Waits(f, g.type, g.place)
    PROVE  Running(Append([calls EXCEPT ![Len(calls)] = f], g), whole, loose)
<1>1. PICK n, old, new : /\ n = Len(calls) /\ old = [calls EXCEPT ![n] = f]
                         /\ new = Append(old, g)
  OBVIOUS
<1>2. calls \in Seq(Frame) /\ calls # <<>> /\ f \in Frame /\ g \in Frame
  BY DEF Running, FrameOK
<1>3. n \in Nat \ {0} /\ DOMAIN calls = 1 .. n
  BY <1>1, <1>2, LenProperties, EmptySeq
<1>4. /\ old \in Seq(Frame) /\ Len(old) = n
      /\ \A d \in 1 .. n : old[d] = IF d = n THEN f ELSE calls[d]
  <2>1. /\ old = [d \in 1 .. n |-> IF d = n THEN f ELSE calls[d]]
        /\ \A d \in 1 .. n : calls[d] \in Frame
    BY <1>1, <1>2, <1>3, ElementOfSeq
  <2>2. old \in [1 .. n -> Frame]
    BY <1>2, <2>1
  <2> QED
    BY <1>3, <2>1, <2>2
<1>5. /\ new \in Seq(Frame) /\ Len(new) = n + 1 /\ new # <<>> /\ new[n + 1] = g
      /\ \A d \in 1 .. n : new[d] = old[d]
  BY <1>1, <1>2, <1>3, <1>4, AppendProperties
<1>6. \A d \in 1 .. n : /\ FrameOK(new[d], whole, loose)
                       /\ new[d].type = calls[d].type /\ new[d].place = calls[d].place
  BY <1>1, <1>3, <1>4, <1>5 DEF Running
<1>7. \A d \in 1 .. n + 1 : FrameOK(new[d], whole, loose)
  BY <1>3, <1>5, <1>6
<1>8. \A d \in 1 .. n : Waits(new[d], new[d + 1].type, new[d + 1].place)
  <2>1. ASSUME NEW d \in 1 .. n
        PROVE  Waits(new[d], new[d + 1].type, new[d + 1].place)
    <3>1. CASE d = n
      BY <1>3, <1>4, <1>5, <3>1
    <3>2. CASE d # n
      <4>1. d \in 1 .. n - 1 /\ d + 1 \in 1 .. n
        BY <1>3, <3>2
      <4>2. Waits(calls[d], calls[d + 1].type, calls[d + 1].place)
        BY <1>1, <4>1 DEF Running
      <4> QED
        BY <1>4, <1>5, <1>6, <3>2, <4>1, <4>2
    <3> QED
      BY <3>1, <3>2
  <2> QED
    BY <2>1
<1>9. new[1].type = whole /\ new[1].place = 0
  BY <1>3, <1>6 DEF Running
<1>10. n + 1 - 1 = n
  BY <1>3
<1> QED
  BY <1>1, <1>5, <1>7, <1>8, <1>9, <1>10 DEF Running

\* The last call has answered, and the one that waited for it has gone on, as f.
LEMMA RunningBack ==
    ASSUME NEW calls, NEW whole, NEW loose, Running(calls, whole, loose), Len(calls) # 1,
           NEW f, FrameOK(f, whole, loose), Ready(f),
           f.type = calls[Len(calls) - 1].type, f.place = calls[Len(calls) - 1].place
    PROVE  Running(Append(SubSeq(calls, 1, Len(calls) - 2), f), whole, loose)
<1>1. PICK n, old, new : /\ n = Len(calls) /\ old = SubSeq(calls, 1, n - 2)
                         /\ new = Append(old, f)
  OBVIOUS
<1>2. calls \in Seq(Frame) /\ calls # <<>> /\ f \in Frame
  BY DEF Running, FrameOK
<1>3. n \in Nat /\ n >= 2
  BY <1>1, <1>2, LenProperties, EmptySeq
<1>4. /\ old \in Seq(Frame) /\ Len(old) = n - 2
      /\ \A d \in 1 .. n - 2 : old[d] = calls[d]
  <2>1. \A d \in 1 .. n : calls[d] \in Frame
    BY <1>1, <1>2, ElementOfSeq
  <2>2. old = [d \in 1 .. n - 2 |-> calls[d]]
    BY <1>1, <1>2, <1>3
  <2>3. old \in [1 .. n - 2 -> Frame]
    BY <1>3, <2>1, <2>2
  <2> QED
    BY <1>3, <2>2, <2>3
<1>5. /\ new \in Seq(Frame) /\ Len(new) = n - 1 /\ new # <<>> /\ new[n - 1] = f
      /\ \A d \in 1 .. n - 2 : new[d] = calls[d]
  <2>1. PICK m : m = n - 2
    OBVIOUS
  <2>2. m \in Nat /\ m + 1 = n - 1 /\ Len(old) = m
    BY <1>3, <1>4, <2>1
  <2>3. new = Append(old, f) /\ old \in Seq(Frame) /\ f \in Frame
    BY <1>1, <1>2, <1>4
  <2>4. /\ new \in Seq(Frame) /\ new # <<>> /\ Len(new) = Len(old) + 1 /\ new[Len(old) + 1] = f
        /\ \A d \in 1 .. Len(old) : new[d] = old[d]
    BY ONLY <2>3, AppendProperties
  <2> QED
    BY <1>4, <2>1, <2>2, <2>4
<1>6. \A d \in 1 .. n - 1 : /\ FrameOK(new[d], whole, loose)
                           /\ new[d].type = calls[d].type /\ new[d].place = calls[d].place
  <2>1. ASSUME NEW d \in 1 .. n - 1
        PROVE  /\ FrameOK(new[d], whole, loose)
               /\ new[d].type = calls[d].type /\ new[d].place = calls[d].place
    <3>1. d = n - 1 \/ d \in 1 .. n - 2
      BY <1>3
    <3>2. d \in 1 .. n
      BY <1>3
    <3> QED
      BY <1>1, <1>5, <3>1, <3>2 DEF Running
  <2> QED
    BY <2>1
<1>7. \A d \in 1 .. n - 2 : Waits(new[d], new[d + 1].type, new[d + 1].place)
  <2>1. ASSUME NEW d \in 1 .. n - 2
        PROVE  Waits(new[d], new[d + 1].type, new[d + 1].place)
    <3>1. d \in 1 .. n - 1 /\ d + 1 \in 1 .. n - 1
      BY <1>3
    <3>2. Waits(calls[d], calls[d + 1].type, calls[d + 1].place)
      BY <1>1, <3>1 DEF Running
    <3> QED
      BY <1>5, <1>6, <3>1, <3>2
  <2> QED
    BY <2>1
<1>8. new[1].type = whole /\ new[1].place = 0
  <2>1. 1 \in 1 .. n - 1
    BY <1>3
  <2> QED
    BY <1>6, <2>1 DEF Running
<1>9. n - 1 - 1 = n - 2
  BY <1>3
<1> QED
  BY <1>1, <1>5, <1>6, <1>7, <1>8, <1>9 DEF Running

\* The call that runs, in any state of the loop.
LEMMA TopOK ==
    ASSUME ClassifyIInv, stage = "fields"
    PROVE  /\ FrameOK(Top, root, straddled) /\ Ready(Top) /\ Depth \in Nat \ {0}
           /\ Top.type \in FfiTypes /\ Top.place \in Nat
           /\ root \in FfiTypes /\ root.size \in Nat \ {0} /\ root.size <= 32
           /\ Top.byte_offset = (Top.place % 8) + Ended(Top)
<1>1. Running(frames, root, straddled) /\ root \in FfiTypes /\ root.size <= 32
  BY DEF ClassifyIInv
<1>2. Depth \in Nat \ {0}
  BY <1>1, LenProperties, EmptySeq DEF Running, Depth
<1>3. FrameOK(Top, root, straddled) /\ Ready(Top)
  BY <1>1, <1>2 DEF Running, Top, Depth
<1> QED
  BY <1>1, <1>2, <1>3, EveryType DEF FrameOK, Frame, Ready

LEMMA InArray ==
    ASSUME WithinArray, reach \in Int, NEW index \in Int, index < MAX_CLASSES, Written(index)
    PROVE  reach' \in Int /\ WithinArray'
BY DEF WithinArray, Written, Larger, MAX_CLASSES

LEMMA RootScalarInv ==
    ASSUME ClassifyIInv, classify_root_scalar PROVE ClassifyIInv'
<1>1. /\ stage = "called" /\ root \in FfiTypes /\ root.kind # "struct" /\ root' = root
      /\ straddled' = straddled /\ straddled \in BOOLEAN /\ stage' = "answered" /\ frames' = <<>>
      /\ answer' = [classes |-> classify_scalar(root, 0), leaves |-> {Leaf(root, 0)}]
  BY DEF ClassifyIInv, classify_root_scalar, Answered
<1>2. root \in Scalars /\ root.size \in Nat /\ root.size <= 16
  BY <1>1, EveryType, ScalarTypes
<1>3. PICK t, s : t = root /\ s = straddled
  OBVIOUS
<1>4. Settled(t, 0, classify_scalar(t, 0), {Leaf(t, 0)}, t.size, t, s)
  <2>1. 0 % t.alignment = 0 /\ 0 % 8 = 0
    <3>1. \A a \in {1, 2, 4, 8, 16} : 0 % a = 0
      OBVIOUS
    <3> QED
      BY <1>1, <1>3, <3>1, EveryType
  <2>2. 0 + t.size <= t.size /\ t.size \in Nat /\ t \in Scalars
    BY <1>2, <1>3
  <2> QED
    BY <2>1, <2>2, ScalarSettled
<1>5. ~MustBeMemory(classify_scalar(t, 0))
  BY <1>1, <1>2, <1>3, <1>4, SettledInRegisters
<1>6. reach' \in Int /\ WithinArray'
  <2>1. Len(classify_scalar(root, 0)) = Words(root)
    BY <1>3, <1>4 DEF Settled
  <2>2. 0 \div 8 + Words(root) - 1 \in Int /\ 0 \div 8 + Words(root) - 1 < MAX_CLASSES
    BY <1>1, <1>2, RoomForField
  <2>3. PICK n : n = Words(root)
    OBVIOUS
  <2>4. n - 1 \in Int /\ n - 1 < MAX_CLASSES
    <3>1. 0 \div 8 = 0 /\ Words(root) \in Int
      <4>1. \A z \in Nat : (z + 7) \div 8 \in Int
        OBVIOUS
      <4> QED
        BY <1>2, <4>1 DEF Words
    <3> QED
      BY <2>2, <2>3, <3>1
  <2>5. Written(n - 1)
    BY <2>1, <2>3 DEF classify_root_scalar
  <2> QED
    BY <2>4, <2>5, InArray DEF ClassifyIInv
<1> QED
  BY <1>1, <1>2, <1>3, <1>4, <1>5, <1>6 DEF ClassifyIInv

LEMMA RootStructInv ==
    ASSUME ClassifyIInv, classify_root_struct PROVE ClassifyIInv'
<1>1. /\ stage = "called" /\ root \in FfiTypes /\ root.kind = "struct" /\ root' = root
      /\ straddled' = straddled /\ straddled \in BOOLEAN /\ reach \in Int /\ WithinArray
      /\ root.size \in Nat
  BY EveryType DEF ClassifyIInv, classify_root_struct
<1>2. CASE TooLarge(root)
  <2>1. /\ stage' = "answered" /\ frames' = <<>> /\ answer' = Memory /\ reach' = reach
    BY <1>1, <1>2 DEF classify_root_struct, Answered, Memory
  <2>2. root.size > 16
    <3>1. PICK n : n = root.size
      OBVIOUS
    <3> QED
      BY <1>1, <1>2, <3>1 DEF TooLarge
  <2> QED
    BY <1>1, <2>1, <2>2 DEF ClassifyIInv, WithinArray
<1>3. CASE ~TooLarge(root)
  <2>1. /\ stage' = "fields" /\ frames' = <<Called(root, 0, 0)>> /\ Written(Words(root) - 1)
    BY <1>1, <1>3 DEF classify_root_struct
  <2>2. root.size <= 32
    <3>1. PICK n : n = root.size
      OBVIOUS
    <3> QED
      BY <1>1, <1>3, <3>1 DEF TooLarge
  <2>3. PICK t, s, f : t = root /\ s = straddled /\ f = Called(t, 0, 0)
    OBVIOUS
  <2>4. FrameOK(f, t, s) /\ Ready(f) /\ f.type = t /\ f.place = 0
    <3>1. 0 % t.alignment = 0 /\ 0 % 8 = 0
      <4>1. \A a \in {1, 2, 4, 8, 16} : 0 % a = 0
        OBVIOUS
      <4> QED
        BY <1>1, <2>3, <4>1, EveryType
    <3>2. 0 + t.size <= t.size /\ t.size \in Nat
      BY <1>1, <2>3
    <3>3. Straight(t, 0)
      <4>1. PICK n : n = t.size
        OBVIOUS
      <4>2. n \in Nat
        BY <3>2, <4>1
      <4>3. (0 + n + 7) \div 8 <= (n + 7) \div 8
        BY ONLY <4>2
      <4> QED
        BY <3>1, <4>1, <4>3 DEF Straight, Words
    <3> QED
      BY <1>1, <2>3, <3>1, <3>2, <3>3, CalledOK
  <2>5. f \in Frame
    BY <2>4 DEF FrameOK
  <2>6. Running(<<f>>, t, s)
    <3>1. <<f>> \in Seq(Frame) /\ Len(<<f>>) = 1 /\ <<f>>[1] = f /\ <<f>> # <<>>
      BY <2>5
    <3> QED
      BY <2>4, <3>1 DEF Running
  <2>7. reach' \in Int /\ WithinArray'
    <3>1. 0 \div 8 + Words(root) - 1 \in Int /\ 0 \div 8 + Words(root) - 1 < MAX_CLASSES
      BY <1>1, <2>2, RoomForField
    <3>2. PICK n : n = Words(root)
      OBVIOUS
    <3>3. n - 1 \in Int /\ n - 1 < MAX_CLASSES
      <4>1. 0 \div 8 = 0 /\ Words(root) \in Int
        <5>1. \A z \in Nat : (z + 7) \div 8 \in Int
          OBVIOUS
        <5> QED
          BY <1>1, <5>1 DEF Words
      <4> QED
        BY <3>1, <3>2, <4>1
    <3> QED
      BY <1>1, <2>1, <3>2, <3>3, InArray
  <2> QED
    BY <1>1, <2>1, <2>2, <2>3, <2>6, <2>7 DEF ClassifyIInv
<1> QED
  BY <1>2, <1>3

\* What the loop knows of its next field.
LEMMA FieldKnown ==
    ASSUME ClassifyIInv, HasField
    PROVE  /\ stage = "fields" /\ Top.field \in 1 .. Len(Top.type.elements)
           /\ Field \in FfiTypes /\ Field = Top.type.elements[Top.field]
           /\ FieldPlace \in Nat /\ FieldPlace = Top.place + Top.type.offsets[Top.field]
           /\ FieldPlace % Field.alignment = 0
           /\ FieldPlace + Field.size <= root.size
           /\ FieldOffset \in Nat
           /\ FieldOffset = (Top.place % 8) + Top.type.offsets[Top.field]
           /\ FieldOffset % 8 = FieldPlace % 8
           /\ FieldOffset + Field.size <= 32
<1>1. /\ stage = "fields" /\ Top.field <= Len(Top.type.elements)
      /\ Top.field \in 1 .. Len(Top.type.elements) => Field = Top.type.elements[Top.field]
  BY DEF HasField, Field
<1>2. PICK f, s, t, e, o : /\ f = Top /\ s = straddled /\ t = root
                           /\ e = f.type.elements[f.field] /\ o = f.type.offsets[f.field]
  OBVIOUS
<1>3. FrameOK(f, t, s) /\ t.size \in Nat /\ t.size <= 32
      /\ f.byte_offset = (f.place % 8) + Ended(f)
  BY <1>1, <1>2, TopOK
<1>4. /\ f.field \in 1 .. Len(f.type.elements)
      /\ e \in FfiTypes /\ o \in Nat /\ f.place \in Nat
      /\ (f.place + o) % e.alignment = 0
      /\ f.place + o + e.size <= t.size
      /\ ALIGN((f.place % 8) + Ended(f), e.alignment) = (f.place % 8) + o
      /\ ((f.place % 8) + o) % 8 = (f.place + o) % 8
  <2>1. /\ t.size \in Nat /\ FrameOK(f, t, s) /\ f.field <= Len(f.type.elements)
        /\ e = f.type.elements[f.field] /\ o = f.type.offsets[f.field]
    BY <1>1, <1>2, <1>3
  <2> QED
    BY <2>1, NextField
<1>5. Field = e /\ FieldPlace = f.place + o /\ FieldOffset = (f.place % 8) + o
  BY <1>1, <1>2, <1>3, <1>4 DEF Field, FieldPlace, FieldOffset
<1>6. PICK p, r, z, y : p = f.place /\ r = p % 8 /\ z = e.size /\ y = t.size
  OBVIOUS
<1>7. p \in Nat /\ r \in Nat /\ r <= p /\ z \in Nat /\ y \in Nat /\ y <= 32 /\ p + o + z <= y
  <2>1. \A m \in Nat : m % 8 \in Nat /\ m % 8 <= m
    OBVIOUS
  <2>2. e.size \in Nat
    BY <1>4, EveryType
  <2> QED
    BY <1>3, <1>4, <1>6, <2>1, <2>2
<1>8. r + o \in Nat /\ p + o \in Nat /\ r + o + z <= 32
  BY <1>4, <1>7
<1> QED
  BY <1>1, <1>2, <1>4, <1>5, <1>6, <1>8

LEMMA ScalarFieldInv ==
    ASSUME ClassifyIInv, scalar_field PROVE ClassifyIInv'
<1>1. HasField /\ Field.kind # "struct" /\ UNCHANGED <<stage, root, answer, straddled>>
  BY DEF scalar_field
<1>2. stage = "fields" /\ root \in FfiTypes /\ straddled \in BOOLEAN /\ reach \in Int /\ WithinArray
      /\ Running(frames, root, straddled) /\ root.size \in Nat /\ root.size <= 32
  BY <1>1, FieldKnown, EveryType DEF ClassifyIInv
<1>3. PICK f, s, t, e, o, classes, place, leaves :
        /\ f = Top /\ s = straddled /\ t = root
        /\ e = Field /\ o = f.type.offsets[f.field]
        /\ place = FieldPlace /\ classes = classify_scalar(Field, FieldOffset % 8)
        /\ leaves = {Leaf(Field, FieldPlace)}
  OBVIOUS
<1>4. FrameOK(f, t, s)
  BY <1>2, <1>3, TopOK
<1>5. /\ e \in Scalars /\ e = f.type.elements[f.field] /\ f.field <= Len(f.type.elements)
      /\ place = f.place + o /\ place \in Nat /\ place % e.alignment = 0
      /\ place + e.size <= t.size /\ FieldOffset = (f.place % 8) + o
      /\ classes = classify_scalar(e, place % 8)
  BY <1>1, <1>3, FieldKnown, EveryType DEF HasField
<1>6. Settled(e, place, classes, leaves, e.size, t, s) /\ Straight(e, place)
  <2>1. leaves = {Leaf(e, place)} /\ t.size \in Nat
    BY <1>2, <1>3
  <2>2. /\ Settled(e, place, classify_scalar(e, place % 8), {Leaf(e, place)}, e.size, t, s)
        /\ Straight(e, place)
    BY <1>5, <2>1, ScalarSettled
  <2> QED
    BY <1>5, <2>1, <2>2
<1>7. PICK g : g = Merged(f, (f.place % 8) + o, classes, leaves)
  OBVIOUS
<1>8. FrameOK(g, t, s) /\ Ready(g) /\ g.type = f.type /\ g.place = f.place
  <2>1. t.size \in Nat /\ s \in BOOLEAN
    BY <1>2, <1>3
  <2>2. e = NextType(f) /\ o = NextOffset(f)
    BY <1>3, <1>5 DEF NextType, NextOffset
  <2>3. /\ f.field <= Len(f.type.elements)
        /\ Settled(NextType(f), f.place + NextOffset(f), classes, leaves, NextType(f).size, t, s)
        /\ Straight(NextType(f), f.place + NextOffset(f))
    BY <1>5, <1>6, <2>2
  <2>4. g = Merged(f, (f.place % 8) + NextOffset(f), classes, leaves)
    BY <1>7, <2>2
  <2>5. FrameOK(g, t, s) /\ Ready(g)
    BY <1>4, <2>1, <2>3, <2>4, MergedOK
  <2>6. f \in Frame
    BY <1>4 DEF FrameOK
  <2> QED
    BY <2>4, <2>5, <2>6, MergedSame
<1>9. frames' = [frames EXCEPT ![Len(frames)] = g]
  BY <1>3, <1>5, <1>7 DEF scalar_field, Depth, Top
<1>10. Running(frames', t, s)
  <2>1. PICK calls : calls = frames
    OBVIOUS
  <2>2. Running(calls, t, s) /\ g.type = calls[Len(calls)].type /\ g.place = calls[Len(calls)].place
    BY <1>2, <1>3, <1>8, <2>1 DEF Top, Depth
  <2>3. Running([calls EXCEPT ![Len(calls)] = g], t, s)
    BY <1>8, <2>2, RunningOn
  <2> QED
    BY <1>9, <2>1, <2>3
<1>11. reach' \in Int /\ WithinArray'
  <2>1. Len(classes) = Words(Field) /\ Field \in FfiTypes
    BY <1>1, <1>3, <1>6, FieldKnown DEF Settled
  <2>2. PICK v : v = FieldOffset
    OBVIOUS
  <2>3. v \in Nat /\ v + Field.size <= 32
    BY <1>1, <2>2, FieldKnown
  <2>4. PICK n : n = v \div 8 + Words(Field) - 1
    OBVIOUS
  <2>5. n \in Int /\ n < MAX_CLASSES
    BY <2>1, <2>3, <2>4, RoomForField
  <2>6. Written(n)
    BY <1>3, <2>1, <2>2, <2>4 DEF scalar_field, Highest
  <2> QED
    BY <1>2, <2>5, <2>6, InArray
<1> QED
  BY <1>1, <1>2, <1>3, <1>10, <1>11 DEF ClassifyIInv

LEMMA StructFieldInv ==
    ASSUME ClassifyIInv, struct_field PROVE ClassifyIInv'
<1>1. HasField /\ Field.kind = "struct" /\ root' = root
      /\ straddled' = (straddled \/ ~ (((FieldOffset % 8) + Field.size + 7) \div 8 <= Words(Field)))
  <2>1. HasField /\ Field.kind = "struct" /\ root' = root
        /\ straddled' = (straddled \/ ((FieldOffset % 8) + Field.size + 7) \div 8 > Words(Field))
    BY DEF struct_field
  <2>2. PICK n, m : n = Field.size /\ m = FieldOffset
    OBVIOUS
  <2>3. n \in Nat /\ m \in Nat
    BY <2>1, <2>2, FieldKnown, EveryType
  <2>4. PICK x, y : x = (m % 8) + n + 7 /\ y = n + 7
    OBVIOUS
  <2>5. x \in Nat /\ y \in Nat
    BY <2>3, <2>4
  <2>6. x \div 8 > y \div 8 <=> ~(x \div 8 <= y \div 8)
    BY ONLY <2>5
  <2> QED
    BY <2>1, <2>2, <2>4, <2>6 DEF Words
<1>2. stage = "fields" /\ root \in FfiTypes /\ straddled \in BOOLEAN /\ reach \in Int /\ WithinArray
      /\ Running(frames, root, straddled) /\ root.size \in Nat /\ root.size <= 32
  BY <1>1, FieldKnown, EveryType DEF ClassifyIInv
<1>3. PICK f, s, u, t, e, o, place :
        /\ f = Top /\ s = straddled /\ u = straddled' /\ t = root
        /\ e = Field /\ o = f.type.offsets[f.field] /\ place = FieldPlace
  OBVIOUS
<1>4. FrameOK(f, t, s)
  BY <1>2, <1>3, TopOK
<1>5. /\ e \in FfiTypes /\ e = f.type.elements[f.field] /\ f.field <= Len(f.type.elements)
      /\ place = f.place + o /\ place \in Nat /\ place % e.alignment = 0
      /\ place + e.size <= t.size /\ FieldOffset = (f.place % 8) + o
      /\ FieldOffset \in Nat /\ FieldOffset % 8 = place % 8 /\ e.size \in Nat
  BY <1>1, <1>3, FieldKnown, EveryType DEF HasField
<1>6. ~TooLarge(e)
  <2>1. PICK n, p, z : n = e.size /\ p = place /\ z = t.size
    OBVIOUS
  <2>2. n \in Nat /\ p \in Nat /\ z \in Nat /\ z <= 32 /\ p + n <= z
    BY <1>2, <1>3, <1>5, <2>1
  <2> QED
    BY <2>1, <2>2 DEF TooLarge
<1>7. PICK g, h : /\ g = [f EXCEPT !.byte_offset = FieldOffset]
                  /\ h = Called(e, place, place % 8)
  OBVIOUS
<1>8. /\ frames' = Append([frames EXCEPT ![Len(frames)] = g], h)
      /\ Written(Words(e) - 1) /\ stage' = stage /\ answer' = answer
  BY <1>3, <1>5, <1>6, <1>7 DEF struct_field, Depth, Top
<1>9. (s => u) /\ (~u => Straight(e, place)) /\ u \in BOOLEAN
  BY <1>1, <1>2, <1>3, <1>5 DEF Straight
<1>10. FrameOK(h, t, u) /\ Ready(h) /\ h.type = e /\ h.place = place
  BY <1>1, <1>2, <1>3, <1>5, <1>7, <1>9, CalledOK
<1>11. f \in Frame
  BY <1>4 DEF FrameOK
<1>12. /\ g.type = f.type /\ g.place = f.place /\ g.field = f.field /\ g.classes = f.classes
       /\ g.leaves = f.leaves /\ g.byte_offset = FieldOffset /\ g \in Frame
  BY <1>5, <1>7, <1>11 DEF Frame
<1>13. FrameOK(g, t, s)
  BY <1>4, <1>12 DEF FrameOK, Ended
<1>14. Waits(g, h.type, h.place)
  BY <1>3, <1>5, <1>10, <1>12 DEF Waits
<1>15. Running(frames', t, u)
  <2>1. PICK calls : calls = frames
    OBVIOUS
  <2>2. Running(calls, t, s) /\ g.type = calls[Len(calls)].type /\ g.place = calls[Len(calls)].place
    BY <1>2, <1>3, <1>12, <2>1 DEF Top, Depth
  <2>3. Running(calls, t, u)
    <3>1. \A d \in 1 .. Len(calls) : FrameOK(calls[d], t, u)
      <4>1. ASSUME NEW d \in 1 .. Len(calls) PROVE FrameOK(calls[d], t, u)
        <5>1. PICK c : c = calls[d]
          OBVIOUS
        <5>2. FrameOK(c, t, s)
          BY <2>2, <5>1 DEF Running
        <5> QED
          BY <1>9, <5>1, <5>2, FrameStays
      <4> QED
        BY <4>1
    <3> QED
      BY <2>2, <3>1 DEF Running
  <2>4. FrameOK(g, t, u)
    BY <1>9, <1>13, FrameStays
  <2>5. Running(Append([calls EXCEPT ![Len(calls)] = g], h), t, u)
    BY <1>10, <1>14, <2>2, <2>3, <2>4, RunningDeeper
  <2> QED
    BY <1>8, <2>1, <2>5
<1>16. reach' \in Int /\ WithinArray'
  <2>1. 0 \in Nat /\ 0 + e.size <= 32
    <3>1. PICK n, p, z : n = e.size /\ p = place /\ z = t.size
      OBVIOUS
    <3>2. n \in Nat /\ p \in Nat /\ z \in Nat /\ z <= 32 /\ p + n <= z
      BY <1>2, <1>3, <1>5, <3>1
    <3> QED
      BY <3>1, <3>2
  <2>2. 0 \div 8 + Words(e) - 1 \in Int /\ 0 \div 8 + Words(e) - 1 < MAX_CLASSES
    BY <1>5, <2>1, RoomForField
  <2>3. PICK n : n = Words(e)
    OBVIOUS
  <2>4. n - 1 \in Int /\ n - 1 < MAX_CLASSES
    <3>1. 0 \div 8 = 0 /\ Words(e) \in Int
      <4>1. \A z \in Nat : (z + 7) \div 8 \in Int
        OBVIOUS
      <4> QED
        BY <1>5, <4>1 DEF Words
    <3> QED
      BY <2>2, <2>3, <3>1
  <2> QED
    BY <1>2, <1>8, <2>3, <2>4, InArray
<1> QED
  BY <1>1, <1>2, <1>3, <1>8, <1>9, <1>15, <1>16 DEF ClassifyIInv

LEMMA EndFieldsInv ==
    ASSUME ClassifyIInv, end_fields PROVE ClassifyIInv'
<1>1. stage = "fields" /\ ~HasField /\ root' = root /\ straddled' = straddled
  BY DEF end_fields
<1>2. root \in FfiTypes /\ straddled \in BOOLEAN /\ reach \in Int /\ WithinArray
      /\ Running(frames, root, straddled) /\ root.size \in Nat \ {0} /\ root.size <= 32
  BY <1>1, EveryType DEF ClassifyIInv
<1>3. PICK f, s, t, p, z, e : /\ f = Top /\ s = straddled /\ t = root
                              /\ e = f.type /\ p = f.place /\ z = f.type.size
  OBVIOUS
<1>4. FrameOK(f, t, s) /\ Depth \in Nat \ {0} /\ e \in FfiTypes /\ p \in Nat
  BY <1>1, <1>3, TopOK
<1>5. /\ e.kind = "struct" /\ p + z <= t.size /\ z \in Nat \ {0} /\ t.size \in Nat
      /\ Settled(e, p, f.classes, f.leaves, Ended(f), t, s)
      /\ (~s => Straight(e, p))
  BY <1>2, <1>3, <1>4, EveryType DEF FrameOK
<1>6. Settled(e, p, f.classes, f.leaves, z, t, s)
  <2>1. Len(e.elements) \in Nat
    BY <1>4, <1>5, FieldsInOrder
  <2>2. f.field \in Nat \ {0} /\ f.field <= Len(e.elements) + 1 /\ ~(f.field <= Len(e.elements))
    BY <1>1, <1>3, <1>4 DEF FrameOK, Frame, HasField
  <2>3. f.field - 1 = Len(e.elements)
    BY <2>1, <2>2
  <2>4. Ended(f) = FieldEnd(e, Len(e.elements))
    BY <1>3, <2>3 DEF Ended
  <2>5. PICK n : n = Len(e.elements)
    OBVIOUS
  <2>6. n \in 0 .. Len(e.elements)
    BY <2>1, <2>5
  <2>7. FieldEnd(e, n) \in Nat /\ FieldEnd(e, n) <= e.size
    BY <1>4, <1>5, <2>6, FieldsInOrder
  <2>8. PICK end, classes, leaves : end = Ended(f) /\ classes = f.classes /\ leaves = f.leaves
    OBVIOUS
  <2>9. end \in Nat /\ end <= z /\ Settled(e, p, classes, leaves, end, t, s)
    BY <1>3, <1>5, <2>4, <2>5, <2>7, <2>8
  <2>10. Settled(e, p, classes, leaves, z, t, s)
    BY <1>4, <1>5, <2>9, SettledLater
  <2> QED
    BY <2>8, <2>10
<1>7. CASE MustBeMemory(f.classes)
  <2>1. /\ stage' = "answered" /\ frames' = <<>> /\ answer' = Memory /\ reach' = reach
    BY <1>3, <1>7 DEF end_fields, Answered, Memory
  <2>2. root.size > 16
    <3>1. SUFFICES ASSUME ~(root.size > 16) PROVE FALSE
      OBVIOUS
    <3>2. PICK y : y = t.size
      OBVIOUS
    <3>3. y \in Nat /\ y <= 16 /\ p + z <= y
      BY <1>2, <1>3, <1>5, <3>1, <3>2
    <3>4. t.size <= 16 /\ e.size <= 16
      BY <1>3, <1>4, <1>5, <3>2, <3>3
    <3>5. PICK classes, leaves : classes = f.classes /\ leaves = f.leaves
      OBVIOUS
    <3>6. Settled(e, p, classes, leaves, z, t, s)
      BY <1>6, <3>5
    <3>7. ~MustBeMemory(classes)
      BY <1>4, <3>4, <3>6, SettledInRegisters
    <3> QED
      BY <1>7, <3>5, <3>7
  <2> QED
    BY <1>1, <1>2, <2>1, <2>2 DEF ClassifyIInv, WithinArray
<1>8. CASE ~MustBeMemory(f.classes) /\ Depth = 1
  <2>1. /\ stage' = "answered" /\ frames' = <<>> /\ reach' = reach
        /\ answer' = [classes |-> f.classes, leaves |-> f.leaves]
    BY <1>3, <1>8 DEF end_fields, Answered
  <2>2. e = t /\ p = 0 /\ z = t.size
    BY <1>2, <1>3, <1>8 DEF Running, Top
  <2>3. root.size <= 16
    <3>1. Len(f.classes) = (t.size + 7) \div 8 /\ Len(f.classes) \in Nat
      BY <1>6, <2>2, LenProperties DEF Settled, Words
    <3>2. PICK n, y : n = Len(f.classes) /\ y = t.size
      OBVIOUS
    <3>3. n \in Nat /\ y \in Nat /\ n = (y + 7) \div 8 /\ ~(n > 2)
      BY <1>5, <1>8, <3>1, <3>2 DEF MustBeMemory
    <3>4. y <= 16
      BY ONLY <3>3
    <3> QED
      BY <1>3, <3>2, <3>4
  <2>4. Settled(root, 0, f.classes, f.leaves, root.size, root, straddled)
    BY <1>3, <1>6, <2>2
  <2>5. /\ answer' = [classes |-> answer'.classes, leaves |-> answer'.leaves]
        /\ answer'.classes = f.classes /\ answer'.leaves = f.leaves
    BY <2>1
  <2> QED
    BY <1>1, <1>2, <1>8, <2>1, <2>3, <2>4, <2>5 DEF ClassifyIInv, WithinArray
<1>9. CASE ~MustBeMemory(f.classes) /\ Depth # 1
  <2>1. PICK caller, calls : caller = frames[Depth - 1] /\ calls = frames
    OBVIOUS
  <2>2. Running(calls, t, s) /\ Len(calls) = Depth /\ Len(calls) # 1 /\ f = calls[Len(calls)]
        /\ caller = calls[Len(calls) - 1]
    BY <1>2, <1>3, <1>9, <2>1 DEF Top, Depth
  <2>3. PICK n : n = Len(calls) - 1
    OBVIOUS
  <2>4. n \in 1 .. Len(calls) - 1 /\ n \in 1 .. Len(calls) /\ n + 1 = Len(calls)
    BY <1>4, <2>2, <2>3
  <2>5. FrameOK(caller, t, s) /\ Waits(caller, e, p)
    <3>1. FrameOK(calls[n], t, s) /\ Waits(calls[n], calls[n + 1].type, calls[n + 1].place)
      BY <2>2, <2>4 DEF Running
    <3> QED
      BY <1>3, <2>2, <2>3, <2>4, <3>1
  <2>6. PICK g : g = Merged(caller, (caller.place % 8) + NextOffset(caller), f.classes, f.leaves)
    OBVIOUS
  <2>7. FrameOK(g, t, s) /\ Ready(g) /\ g.type = caller.type /\ g.place = caller.place
    <3>1. PICK classes, leaves : classes = f.classes /\ leaves = f.leaves
      OBVIOUS
    <3>2. /\ caller.field <= Len(caller.type.elements)
          /\ e = NextType(caller) /\ p = caller.place + NextOffset(caller)
      BY <2>5 DEF Waits, NextType, NextOffset
    <3>3. /\ Settled(NextType(caller), caller.place + NextOffset(caller), classes, leaves,
                     NextType(caller).size, t, s)
          /\ ~s => Straight(NextType(caller), caller.place + NextOffset(caller))
      BY <1>3, <1>5, <1>6, <3>1, <3>2
    <3>4. g = Merged(caller, (caller.place % 8) + NextOffset(caller), classes, leaves)
      BY <2>6, <3>1
    <3>5. t.size \in Nat /\ FrameOK(caller, t, s) /\ s \in BOOLEAN
      BY <1>2, <1>3, <1>5, <2>5
    <3>6. FrameOK(g, t, s) /\ Ready(g)
      BY <3>2, <3>3, <3>4, <3>5, MergedOK
    <3>7. caller \in Frame
      BY <3>5 DEF FrameOK
    <3> QED
      BY <3>4, <3>6, <3>7, MergedSame
  <2>8. /\ frames' = Append(SubSeq(frames, 1, Depth - 2), g) /\ stage' = stage /\ answer' = answer
        /\ Written(Highest(caller.byte_offset, f.classes))
    <3>1. caller.byte_offset = (caller.place % 8) + NextOffset(caller)
      BY <2>5 DEF Waits, NextOffset
    <3> QED
      BY <1>3, <1>9, <2>1, <2>6, <3>1 DEF end_fields
  <2>9. Running(frames', t, s)
    <3>1. g.type = calls[Len(calls) - 1].type /\ g.place = calls[Len(calls) - 1].place
      BY <2>2, <2>7
    <3>2. Running(Append(SubSeq(calls, 1, Len(calls) - 2), g), t, s)
      BY <2>2, <2>7, <3>1, RunningBack
    <3> QED
      BY <2>1, <2>2, <2>8, <3>2
  <2>10. reach' \in Int /\ WithinArray'
    <3>1. PICK v, o, r, y : /\ v = caller.byte_offset /\ o = caller.type.offsets[caller.field]
                            /\ r = caller.place % 8 /\ y = t.size
      OBVIOUS
    <3>2. o \in Nat /\ caller.place \in Nat /\ v = r + o /\ p = caller.place + o
      <4>1. caller.field <= Len(caller.type.elements)
        BY <2>5 DEF Waits
      <4>2. o \in Nat /\ caller.place \in Nat
        BY <1>5, <2>5, <3>1, <4>1, NextField
      <4> QED
        BY <2>5, <3>1, <4>2 DEF Waits
    <3>3. \A m \in Nat : m % 8 \in Nat /\ m % 8 <= m
      OBVIOUS
    <3>4. v \in Nat /\ v <= p
      BY <3>1, <3>2, <3>3
    <3>5. v + e.size <= 32
      <4>1. y \in Nat /\ y <= 32 /\ p + z <= y /\ z \in Nat /\ p \in Nat
        BY <1>2, <1>3, <1>4, <1>5, <3>1
      <4> QED
        BY <1>3, <3>4, <4>1
    <3>6. PICK m : m = v \div 8 + Words(e) - 1
      OBVIOUS
    <3>7. m \in Int /\ m < MAX_CLASSES
      BY <1>4, <3>4, <3>5, <3>6, RoomForField
    <3>8. Written(m)
      <4>1. Len(f.classes) = Words(e)
        BY <1>6 DEF Settled
      <4> QED
        BY <2>8, <3>1, <3>6, <4>1 DEF Highest
    <3> QED
      BY <1>2, <3>7, <3>8, InArray
  <2> QED
    BY <1>1, <1>2, <1>3, <2>8, <2>9, <2>10 DEF ClassifyIInv
<1> QED
  BY <1>7, <1>8, <1>9

LEMMA ClassifyInvariance == ClassifySpec => []ClassifyIInv
<1>1. ClassifyInit => ClassifyIInv
  <2>1. -1 \in Int /\ -1 < 4 /\ FALSE \in BOOLEAN
    OBVIOUS
  <2> QED
    BY <2>1 DEF ClassifyInit, ClassifyIInv, WithinArray, MAX_CLASSES
<1>2. ClassifyIInv /\ [ClassifyNext]_classifyVars => ClassifyIInv'
  <2>1. ASSUME ClassifyIInv, UNCHANGED classifyVars PROVE ClassifyIInv'
    BY <2>1 DEF classifyVars, ClassifyIInv, WithinArray
  <2> QED
    BY <2>1, RootScalarInv, RootStructInv, ScalarFieldInv, StructFieldInv, EndFieldsInv
       DEF ClassifyNext
<1> QED
  BY <1>1, <1>2, PTL DEF ClassifySpec

\* No call writes past the array of MAX_CLASSES entries, however structures are nested: what is
\* looked into ends within 32 bytes, and byte_offset is never more than the place.
THEOREM ArrayIsLargeEnough == ClassifySpec => []WithinArray
<1>1. ClassifyIInv => WithinArray
  BY DEF ClassifyIInv
<1> QED
  BY <1>1, ClassifyInvariance, PTL

\* What an answer is, if it is not memory.
LEMMA AnswerKnown ==
    ASSUME ClassifyIInv, stage = "answered"
    PROVE  \/ answer = Memory /\ root.size > 16
           \/ /\ root.size \in 1 .. 16 /\ Words(root) \in {1, 2}
              /\ DOMAIN answer.classes = 1 .. Words(root) /\ answer.classes # <<>>
              /\ answer.leaves \subseteq Leaves
              /\ \A l \in answer.leaves : l.first <= l.last /\ l.last < root.size
              /\ \/ Plain(root, 0, answer.classes, answer.leaves, straddled)
                 \/ LongDouble(0, answer.classes, answer.leaves, root.size)
<1>1. root.size \in Nat \ {0}
  BY EveryType DEF ClassifyIInv
<1>2. SUFFICES ASSUME root.size <= 16,
                      Settled(root, 0, answer.classes, answer.leaves, root.size, root, straddled)
               PROVE  /\ root.size \in 1 .. 16 /\ Words(root) \in {1, 2}
                      /\ DOMAIN answer.classes = 1 .. Words(root) /\ answer.classes # <<>>
                      /\ answer.leaves \subseteq Leaves
                      /\ \A l \in answer.leaves : l.first <= l.last /\ l.last < root.size
                      /\ \/ Plain(root, 0, answer.classes, answer.leaves, straddled)
                         \/ LongDouble(0, answer.classes, answer.leaves, root.size)
  BY DEF ClassifyIInv
<1>3. PICK n : n = root.size
  OBVIOUS
<1>4. n \in 1 .. 16 /\ (n + 7) \div 8 \in {1, 2}
  BY <1>1, <1>2, <1>3
<1>5. Words(root) \in {1, 2}
  BY <1>3, <1>4 DEF Words
<1>6. DOMAIN answer.classes = 1 .. Words(root) /\ answer.classes # <<>>
  BY <1>2, <1>5, LenProperties, EmptySeq DEF Settled
<1>7. \A l \in answer.leaves : l.first <= l.last /\ l.last < root.size
  <2>1. ASSUME NEW l \in answer.leaves PROVE l.first <= l.last /\ l.last < root.size
    <3>1. PICK y : y = l.last
      OBVIOUS
    <3>2. y \in Nat /\ l.first <= y /\ y < 0 + root.size
      BY <1>2, <2>1, <3>1 DEF Settled, Leaves
    <3> QED
      BY <1>1, <3>1, <3>2
  <2> QED
    BY <2>1
<1> QED
  BY <1>2, <1>3, <1>4, <1>5, <1>6, <1>7 DEF Settled

\* The classes of an answer without long doubles.
LEMMA WordKnown ==
    ASSUME ClassifyIInv, stage = "answered", ~straddled, root.size <= 16,
           Plain(root, 0, answer.classes, answer.leaves, straddled),
           NEW w \in DOMAIN answer.classes
    PROVE  /\ w \in 1 .. Words(root)
           /\ answer.classes[w] \in {"NO"} \cup Integer \cup SSE
           /\ Suits(answer.classes[w], In(answer.leaves, w))
           /\ \A l \in In(answer.leaves, w) :
                /\ l \in answer.leaves /\ l.kind # "longdouble"
                /\ l.last \in Nat /\ l.last < root.size /\ l.last \div 8 = w - 1
<1>1. w \in 1 .. Words(root) /\ root.size \in Nat /\ root.size # 0
  BY AnswerKnown, EveryType DEF ClassifyIInv, Memory
<1>2. 0 \div 8 + w = w
  <2>1. \A n \in Int : 0 \div 8 + n = n
    OBVIOUS
  <2>2. w \in Int
    <3>1. \A n \in Nat : (n + 7) \div 8 \in Int
      OBVIOUS
    <3> QED
      BY <1>1, <3>1 DEF Words
  <2> QED
    BY <2>1, <2>2
<1>3. Suits(answer.classes[w], In(answer.leaves, w))
  BY <1>1, <1>2 DEF Plain
<1>4. ASSUME NEW l \in In(answer.leaves, w)
      PROVE  /\ l \in answer.leaves /\ l.kind # "longdouble"
             /\ l.last \in Nat /\ l.last < root.size /\ l.last \div 8 = w - 1
  <2>1. l \in answer.leaves /\ l.first \div 8 + 1 = w
    BY <1>4 DEF In
  <2>2. l \in Leaves /\ l.last < root.size
    <3>1. ~(answer = Memory /\ root.size > 16)
      <4>1. PICK n : n = root.size
        OBVIOUS
      <4> QED
        BY <1>1, <4>1
    <3> QED
      BY <2>1, <3>1, AnswerKnown
  <2>3. l.kind # "longdouble" /\ l.first \div 8 = l.last \div 8
    BY <2>1 DEF Plain
  <2>4. PICK x, y : x = l.first /\ y = l.last
    OBVIOUS
  <2>5. x \in Nat /\ y \in Nat /\ x \div 8 + 1 = w /\ x \div 8 = y \div 8
    BY <2>1, <2>2, <2>3, <2>4 DEF Leaves
  <2>6. y \div 8 = w - 1
    BY <1>1, <2>5
  <2> QED
    BY <2>1, <2>2, <2>3, <2>4, <2>5, <2>6
<1> QED
  BY <1>1, <1>3, <1>4 DEF Plain

\* What is left to memory, and the class of each word, are the ABI's (x86/ffi64.c:107-305).
THEOREM ClassesCorrect == ClassifySpec => []ClassesAreAbis
<1>1. ASSUME ClassifyIInv, stage = "answered"
      PROVE  /\ answer.classes = <<>> <=> root.size > 16
             /\ ~straddled =>
                  \A w \in DOMAIN answer.classes :
                     In(answer.leaves, w) # {} => Agree(answer.classes[w], In(answer.leaves, w))
  <2>1. CASE answer = Memory /\ root.size > 16
    <3>1. answer.classes = <<>> /\ DOMAIN answer.classes = {}
      BY <2>1 DEF Memory
    <3> QED
      BY <2>1, <3>1
  <2>2. CASE ~(answer = Memory /\ root.size > 16)
    <3>1. /\ root.size \in 1 .. 16 /\ answer.classes # <<>>
          /\ \/ Plain(root, 0, answer.classes, answer.leaves, straddled)
             \/ LongDouble(0, answer.classes, answer.leaves, root.size)
      BY <1>1, <2>2, AnswerKnown
    <3>2. ~(root.size > 16) /\ root.size <= 16
      <4>1. PICK n : n = root.size
        OBVIOUS
      <4> QED
        BY <3>1, <4>1
    <3>3. ASSUME ~straddled, NEW w \in DOMAIN answer.classes, In(answer.leaves, w) # {}
          PROVE  Agree(answer.classes[w], In(answer.leaves, w))
      <4>1. CASE Plain(root, 0, answer.classes, answer.leaves, straddled)
        <5>1. /\ answer.classes[w] \in {"NO"} \cup Integer \cup SSE
              /\ Suits(answer.classes[w], In(answer.leaves, w))
              /\ \A l \in In(answer.leaves, w) : l.kind # "longdouble"
          BY <1>1, <3>2, <3>3, <4>1, WordKnown
        <5> QED
          BY <3>3, <5>1 DEF Agree, Suits
      <4>2. CASE LongDouble(0, answer.classes, answer.leaves, root.size)
        <5>1. answer.classes = <<"X87", "X87UP">> /\ answer.leaves = {Lone}
          BY <4>2 DEF LongDouble
        <5>2. In(answer.leaves, w) = {Lone} /\ Lone.kind = "longdouble"
          BY <3>3, <5>1 DEF In, Lone
        <5>3. answer.classes[w] \in X87
          BY <5>1 DEF X87
        <5> QED
          BY <5>2, <5>3 DEF Agree
      <4> QED
        BY <3>1, <4>1, <4>2
    <3> QED
      BY <3>1, <3>2, <3>3
  <2> QED
    BY <2>1, <2>2
<1>2. ClassifyIInv => ClassesAreAbis
  BY <1>1 DEF ClassesAreAbis
<1> QED
  BY <1>2, ClassifyInvariance, PTL

\* What ffi_call copies of a word reaches to the end of every field in it, and not behind the
\* value (x86/ffi64.c:487-520).
THEOREM CopiesCorrect == ClassifySpec => []CopiedWhole
<1>1. ASSUME ClassifyIInv, stage = "answered", ~straddled,
             "X87" \notin {answer.classes[w] : w \in DOMAIN answer.classes},
             NEW w \in DOMAIN answer.classes
      PROVE  LET end == 8 * (w - 1) + Copied(root, answer.classes[w], w)
             IN  end <= root.size /\ \A l \in In(answer.leaves, w) : l.last < end
  <2>1. /\ root.size \in 1 .. 16
        /\ \/ Plain(root, 0, answer.classes, answer.leaves, straddled)
           \/ LongDouble(0, answer.classes, answer.leaves, root.size)
    <3>1. answer # Memory
      BY <1>1 DEF Memory
    <3> QED
      BY <1>1, <3>1, AnswerKnown
  <2>2. ~LongDouble(0, answer.classes, answer.leaves, root.size)
    <3>1. SUFFICES ASSUME answer.classes = <<"X87", "X87UP">> PROVE FALSE
      BY DEF LongDouble
    <3>2. 1 \in DOMAIN answer.classes /\ answer.classes[1] = "X87"
      BY <3>1
    <3> QED
      BY <1>1, <3>2
  <2>3. PICK class, n, lasts : /\ class = answer.classes[w] /\ n = root.size
                               /\ lasts = {l.last : l \in In(answer.leaves, w)}
    OBVIOUS
  <2>4. n \in 1 .. 16 /\ root.size <= 16
    BY <2>1, <2>3
  <2>5. /\ w \in 1 .. Words(root) /\ class \in {"NO"} \cup Integer \cup SSE
        /\ Suits(class, In(answer.leaves, w))
        /\ \A l \in In(answer.leaves, w) :
                l.last \in Nat /\ l.last < root.size /\ l.last \div 8 = w - 1
    BY <1>1, <2>1, <2>2, <2>3, <2>4, WordKnown
  <2>6. w \in Nat \ {0} /\ 8 * (w - 1) < n
    <3>1. w \in 1 .. (n + 7) \div 8
      BY <2>3, <2>5 DEF Words
    <3> QED
      BY ONLY <2>4, <3>1
  <2>7. /\ \A y \in lasts : y \in Nat /\ y < n /\ y \div 8 = w - 1
        /\ class = "NO" <=> lasts = {}
        /\ class = "SSESF" => \A y \in lasts : y % 8 = 3
        /\ class \in {"SSE", "SSEDF"} => \E y \in lasts : y % 8 = 7
    BY <2>3, <2>5 DEF Suits
  <2>8. PICK m : m = Copied(root, class, w)
    OBVIOUS
  <2>9. m \in Nat /\ 8 * (w - 1) + m <= n /\ \A y \in lasts : y < 8 * (w - 1) + m
    <3>1. CASE class \in Integer
      <4>1. m = Smaller(n - 8 * (w - 1), 8)
        BY <2>3, <2>8, <3>1 DEF Copied, Integer
      <4>2. m = IF n - 8 * (w - 1) < 8 THEN n - 8 * (w - 1) ELSE 8
        BY <4>1 DEF Smaller
      <4>3. ASSUME NEW y \in lasts PROVE y < 8 * (w - 1) + m
        <5>1. y \in Nat /\ y < n /\ y \div 8 = w - 1
          BY <2>7
        <5> QED
          BY ONLY <2>4, <2>6, <4>2, <5>1
      <4> QED
        BY <2>4, <2>6, <4>2, <4>3
    <3>2. CASE class \in {"SSE", "SSEDF"}
      <4>1. m = 8
        BY <2>8, <3>2 DEF Copied, Integer
      <4>2. PICK y \in lasts : y % 8 = 7
        BY <2>7, <3>2
      <4>3. y \in Nat /\ y < n /\ y \div 8 = w - 1
        BY <2>7
      <4>4. 8 * (w - 1) + 8 <= n
        BY ONLY <2>4, <2>6, <4>2, <4>3
      <4>5. ASSUME NEW z \in lasts PROVE z < 8 * (w - 1) + 8
        <5>1. z \in Nat /\ z \div 8 = w - 1
          BY <2>7
        <5> QED
          BY ONLY <2>6, <5>1
      <4> QED
        BY <4>1, <4>4, <4>5
    <3>3. CASE class = "SSESF"
      <4>1. m = 4
        BY <2>8, <3>3 DEF Copied, Integer
      <4>2. PICK y : y \in lasts
        BY <2>7, <3>3
      <4>3. y \in Nat /\ y < n /\ y \div 8 = w - 1 /\ y % 8 = 3
        BY <2>7, <3>3, <4>2
      <4>4. 8 * (w - 1) + 4 <= n
        BY ONLY <2>4, <2>6, <4>3
      <4>5. ASSUME NEW z \in lasts PROVE z < 8 * (w - 1) + 4
        <5>1. z \in Nat /\ z \div 8 = w - 1 /\ z % 8 = 3
          BY <2>7, <3>3
        <5> QED
          BY ONLY <2>6, <5>1
      <4> QED
        BY <4>1, <4>4, <4>5
    <3>4. CASE class = "NO"
      <4>1. m = 0
        BY <2>8, <3>4 DEF Copied, Integer
      <4> QED
        BY <2>4, <2>6, <2>7, <3>4, <4>1
    <3> QED
      BY <2>5, <3>1, <3>2, <3>3, <3>4 DEF SSE
  <2> QED
    BY <2>3, <2>8, <2>9
<1>2. ClassifyIInv => CopiedWhole
  BY <1>1 DEF CopiedWhole
<1> QED
  BY <1>2, ClassifyInvariance, PTL

\* An answer is what the rest of libffi takes for granted: memory only for structures, else one or
\* two words without MEMORY among them, and X87 only in a value that is a long double and nothing
\* else (examine_argument, x86/ffi64.c:311-352).
THEOREM AnswersAreExpected ==
    ClassifySpec => [](stage = "answered" =>
        /\ answer.classes \in Seq(Class) /\ Len(answer.classes) <= 2
        /\ answer.classes = <<>> => root.kind = "struct"
        /\ (\E w \in DOMAIN answer.classes : answer.classes[w] \in X87) =>
                answer.classes = <<"X87", "X87UP">>)
<1>1. ASSUME ClassifyIInv, stage = "answered"
      PROVE  /\ answer.classes \in Seq(Class) /\ Len(answer.classes) <= 2
             /\ answer.classes = <<>> => root.kind = "struct"
             /\ (\E w \in DOMAIN answer.classes : answer.classes[w] \in X87) =>
                     answer.classes = <<"X87", "X87UP">>
  <2>1. CASE answer = Memory /\ root.size > 16
    <3>1. answer.classes = <<>> /\ DOMAIN answer.classes = {} /\ Len(answer.classes) = 0
      BY <2>1 DEF Memory
    <3>2. root.kind = "struct"
      <4>1. SUFFICES ASSUME root \in Scalars PROVE FALSE
        BY <1>1, EveryType DEF ClassifyIInv
      <4>2. root.size \in {1, 2, 4, 8, 16}
        BY <4>1, ScalarTypes
      <4> QED
        BY <2>1, <4>2
    <3> QED
      BY <3>1, <3>2
  <2>2. CASE ~(answer = Memory /\ root.size > 16)
    <3>1. /\ Words(root) \in {1, 2} /\ DOMAIN answer.classes = 1 .. Words(root)
          /\ answer.classes # <<>>
          /\ \/ Plain(root, 0, answer.classes, answer.leaves, straddled)
             \/ LongDouble(0, answer.classes, answer.leaves, root.size)
      BY <1>1, <2>2, AnswerKnown
    <3>2. CASE Plain(root, 0, answer.classes, answer.leaves, straddled)
      <4>1. \A w \in DOMAIN answer.classes : answer.classes[w] \in {"NO"} \cup Integer \cup SSE
        BY <3>1, <3>2 DEF Plain
      <4>2. answer.classes \in Seq(AnyClass)
        BY <1>1, <2>2 DEF ClassifyIInv, Settled
      <4>3. Len(answer.classes) = Words(root)
        BY <3>1, <4>2, LenProperties
      <4>4. \A w \in 1 .. Len(answer.classes) : answer.classes[w] \in Class
        BY <3>1, <4>1, <4>3 DEF Class
      <4>5. answer.classes \in Seq(Class)
        BY <4>2, <4>4
      <4>6. \A w \in DOMAIN answer.classes : answer.classes[w] \notin X87
        BY <4>1 DEF X87, Integer, SSE
      <4> QED
        BY <3>1, <4>3, <4>5, <4>6
    <3>3. CASE LongDouble(0, answer.classes, answer.leaves, root.size)
      BY <3>1, <3>3 DEF LongDouble, Class, X87
    <3> QED
      BY <3>1, <3>2, <3>3
  <2> QED
    BY <2>1, <2>2
<1> QED
  BY <1>1, ClassifyInvariance, PTL
=============================================================================
