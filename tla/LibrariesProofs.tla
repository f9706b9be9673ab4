-------------------------- MODULE LibrariesProofs --------------------------
(***************************************************************************)
(* Theorems about the libraries of CNA objects, for any number of objects, *)
(* libraries and handles.                                                  *)
(***************************************************************************)
EXTENDS Libraries, FiniteSetTheorems, TLAPS

(* An object that is not there has nothing. *)
AbsentHasNothing ==
    \A o \in Object : phase[o] = "absent" => arrays[o] = {} /\ held[o] = <<>>

(* The invariant of libcna and of the arrays, whatever the clients do. *)
OwnIInv ==
    /\ TypeOK
    /\ AbsentHasNothing
    /\ OnlyErrorsKeepLibcna
    /\ OnlyErrorsLeaveArrays

(* A client that frees each library before it loads another has one at most. *)
AtMostOne == \A o \in Object : Len(held[o]) <= 1

(* The invariant of the libraries of such clients. *)
LeaseIInv ==
    /\ TypeOK
    /\ AtMostOne
    /\ HandleIsOwn
    /\ ReferencesMatch

USE LibrariesAssumption

-----------------------------------------------------------------------------
(* Counting.                                                               *)

LEMMA SubsetsFinite ==
    ASSUME NEW S \in SUBSET Object
    PROVE  IsFiniteSet(S) /\ Cardinality(S) \in Nat
BY FS_Subset, FS_CardinalityType

LEMMA OneMore ==
    ASSUME NEW S \in SUBSET Object, NEW T \in SUBSET Object,
           NEW o, o \notin S, T = S \cup {o}
    PROVE  Cardinality(T) = Cardinality(S) + 1
BY SubsetsFinite, FS_AddElement

LEMMA OneLess ==
    ASSUME NEW S \in SUBSET Object, NEW T \in SUBSET Object,
           NEW o \in S, T = S \ {o}
    PROVE  Cardinality(T) = Cardinality(S) - 1
BY SubsetsFinite, FS_RemoveElement

LEMMA HoldsTyped ==
    ASSUME NEW s \in Seq(Library), NEW l
    PROVE  Cardinality({k \in DOMAIN s : s[k] = l}) \in Nat
<1>1. DOMAIN s = 1 .. Len(s) /\ Len(s) \in Nat
  OBVIOUS
<1>2. IsFiniteSet(DOMAIN s)
  BY <1>1, FS_Interval
<1>3. {k \in DOMAIN s : s[k] = l} \in SUBSET DOMAIN s
  OBVIOUS
<1>4. QED
  BY <1>2, <1>3, FS_Subset, FS_CardinalityType

Count(s, l) == Cardinality({k \in DOMAIN s : s[k] = l})

LEMMA HoldsOne ==
    ASSUME NEW s \in Seq(Library), Len(s) <= 1, NEW l
    PROVE  Count(s, l) = IF s = <<l>> THEN 1 ELSE 0
<1>. USE DEF Count
<1>1. s = <<>> \/ Len(s) = 1
  OBVIOUS
<1>2. CASE s = <<>>
  <2>1. {k \in DOMAIN s : s[k] = l} = {}
    BY <1>2
  <2>2. s # <<l>>
    BY <1>2
  <2>3. QED
    BY <1>2, <2>1, <2>2, FS_EmptySet
<1>3. CASE Len(s) = 1
  <2>1. s = <<s[1]>> /\ DOMAIN s = {1}
    BY <1>3
  <2>2. CASE s[1] = l
    <3>1. {k \in DOMAIN s : s[k] = l} = {1}
      BY <2>1, <2>2
    <3>2. QED
      BY <2>1, <2>2, <3>1, FS_Singleton
  <2>3. CASE s[1] # l
    <3>1. {k \in DOMAIN s : s[k] = l} = {}
      BY <2>1, <2>3
    <3>2. s # <<l>>
      BY <2>1, <2>3
    <3>3. QED
      BY <2>1, <3>1, <3>2, FS_EmptySet
  <2>4. QED
    BY <2>2, <2>3
<1>4. QED
  BY <1>1, <1>2, <1>3

-----------------------------------------------------------------------------
(* Type correctness.                                                       *)

LEMMA InitTyped == Init => TypeOK
<1>. SUFFICES ASSUME Init PROVE TypeOK
  OBVIOUS
<1>1. PICK h \in [Resident -> Handle] :
        /\ \A l, m \in Resident : h[l] = h[m] => l = m
        /\ table = [g \in {h[l] : l \in Resident} |->
                        [library |-> CHOOSE l \in Resident : h[l] = g, references |-> 1]]
  BY DEF Init
<1>2. DOMAIN table = {h[l] : l \in Resident}
  BY <1>1
<1>3. ASSUME NEW g \in DOMAIN table
      PROVE  table[g] \in [library : Library, references : Nat \ {0}]
  <2>1. PICK l \in Resident : h[l] = g
    BY <1>2, <1>3
  <2>2. (CHOOSE m \in Resident : h[m] = g) \in Resident
    BY <2>1
  <2>3. QED
    BY <1>1, <1>2, <1>3, <2>2
<1>4. <<>> \in Seq(Library)
  OBVIOUS
<1>5. QED
  BY <1>2, <1>3, <1>4 DEF Init, TypeOK

(* The loader's table after dlopen and dlclose. *)
LEMMA OpenTyped ==
    ASSUME TypeOK, NEW l \in Library, NEW h \in Handle, dlopen(l, h)
    PROVE  /\ DOMAIN table' = DOMAIN table \cup {h}
           /\ \A g \in DOMAIN table' :
                table'[g] \in [library : Library, references : Nat \ {0}]
           /\ \A g \in DOMAIN table : table'[g].library = table[g].library
           /\ \A g \in DOMAIN table \ {h} : table'[g] = table[g]
           /\ table'[h].library = l
           /\ \/ /\ h \in DOMAIN table /\ table[h].library = l
                 /\ table'[h].references = table[h].references + 1
              \/ /\ h \notin DOMAIN table
                 /\ \A g \in DOMAIN table : table[g].library # l
                 /\ table'[h].references = 1
<1>0. \A g \in DOMAIN table : table[g] \in [library : Library, references : Nat \ {0}]
  BY DEF TypeOK
<1>1. CASE /\ h \in DOMAIN table
           /\ table[h].library = l
           /\ table' = [table EXCEPT ![h].references = @ + 1]
  <2>1. DOMAIN table' = DOMAIN table
    BY <1>1
  <2>2. \A g \in DOMAIN table \ {h} : table'[g] = table[g]
    BY <1>1
  <2>3. table'[h] = [table[h] EXCEPT !.references = @ + 1]
    BY <1>1
  <2>4. /\ table'[h].library = l
        /\ table'[h].references = table[h].references + 1
        /\ table'[h] \in [library : Library, references : Nat \ {0}]
    BY <1>0, <1>1, <2>3
  <2>5. QED
    BY <1>0, <1>1, <2>1, <2>2, <2>4, ZenonT(60)
<1>2. CASE /\ h \notin DOMAIN table
           /\ \A g \in DOMAIN table : table[g].library # l
           /\ table' = [g \in DOMAIN table \cup {h} |->
                            IF g = h THEN [library |-> l, references |-> 1] ELSE table[g]]
  BY <1>0, <1>2
<1>3. QED
  BY <1>1, <1>2 DEF dlopen

LEMMA CloseTyped ==
    ASSUME TypeOK, NEW h \in DOMAIN table, dlclose(h)
    PROVE  /\ DOMAIN table' \subseteq DOMAIN table
           /\ \A g \in DOMAIN table' :
                table'[g] \in [library : Library, references : Nat \ {0}]
           /\ \A g \in DOMAIN table \ {h} : g \in DOMAIN table' /\ table'[g] = table[g]
           /\ \/ /\ h \in DOMAIN table'
                 /\ table'[h].library = table[h].library
                 /\ table'[h].references = table[h].references - 1
              \/ h \notin DOMAIN table' /\ table[h].references = 1
<1>0. \A g \in DOMAIN table : table[g] \in [library : Library, references : Nat \ {0}]
  BY DEF TypeOK
<1>1. CASE /\ table[h].references > 1
           /\ table' = [table EXCEPT ![h].references = @ - 1]
  <2>1. DOMAIN table' = DOMAIN table
    BY <1>1
  <2>2. \A g \in DOMAIN table \ {h} : table'[g] = table[g]
    BY <1>1
  <2>3. table'[h] = [table[h] EXCEPT !.references = @ - 1]
    BY <1>1
  <2>4. /\ table'[h].library = table[h].library
        /\ table'[h].references = table[h].references - 1
        /\ table'[h] \in [library : Library, references : Nat \ {0}]
    BY <1>0, <1>1, <2>3
  <2>5. QED
    BY <1>0, <2>1, <2>2, <2>4
<1>2. CASE /\ ~(table[h].references > 1)
           /\ table' = [g \in DOMAIN table \ {h} |-> table[g]]
  <2>1. table[h].references = 1
    BY <1>0, <1>2
  <2>2. QED
    BY <1>0, <1>2, <2>1
<1>3. QED
  BY <1>1, <1>2 DEF dlclose

LEMMA GoneTyped ==
    ASSUME TypeOK, NEW o \in Object, Gone(o), UNCHANGED table
    PROVE  /\ alive' \in BOOLEAN
           /\ phase' \in [Object -> {"absent", "open", "draining"}]
           /\ LibId' \in [Object -> Handle \cup {NoHandle}]
           /\ arrays' \in [Object -> SUBSET Array] /\ heap' \in SUBSET Array
           /\ DOMAIN table' \subseteq Handle
           /\ \A h \in DOMAIN table' :
                table'[h] \in [library : Library, references : Nat \ {0}]
           /\ held' \in [Object -> Seq(Library)]
           /\ found' \in Library \cup {NoHandle}
           /\ abandoned' \in [Library -> Nat]
<1>1. <<>> \in Seq(Library)
  OBVIOUS
<1>2. ASSUME NEW l \in Library
      PROVE  abandoned[l] + Holds(o, l) \in Nat
  <2>1. held[o] \in Seq(Library) /\ abandoned[l] \in Nat
    BY DEF TypeOK
  <2>2. Cardinality({k \in DOMAIN held[o] : held[o][k] = l}) \in Nat
    BY <2>1, HoldsTyped
  <2>3. QED
    BY <2>1, <2>2 DEF Holds
<1>3. abandoned' \in [Library -> Nat]
  BY <1>2 DEF Gone
<1>4. QED
  BY <1>1, <1>3 DEF TypeOK, Gone

(* All of a sequence but its last element, if it has one. *)
LEMMA FrontTyped ==
    ASSUME NEW S, NEW s \in Seq(S)
    PROVE  SubSeq(s, 1, Len(s) - 1) \in Seq(S)
<1>1. CASE s = <<>>
  <2>1. SubSeq(s, 1, Len(s) - 1) = <<>>
    BY <1>1
  <2>2. QED
    BY <2>1
<1>2. CASE s # <<>>
  BY <1>2
<1>3. QED
  BY <1>1, <1>2

LEMMA InitOwn == Init => OwnIInv
<1>. SUFFICES ASSUME Init PROVE OwnIInv
  OBVIOUS
<1>1. Present = {}
  BY DEF Init, Present
<1>2. OnlyErrorsKeepLibcna
  BY <1>1, FS_EmptySet DEF Init, OnlyErrorsKeepLibcna
<1>3. AbsentHasNothing /\ OnlyErrorsLeaveArrays
  BY DEF Init, AbsentHasNothing, OnlyErrorsLeaveArrays
<1>4. QED
  BY <1>2, <1>3, InitTyped DEF OwnIInv

(* What libcna's references do when o comes or goes. *)
LEMMA PresentChanges ==
    ASSUME TypeOK, OnlyErrorsKeepLibcna, NEW o \in Object,
           NEW p \in {"absent", "open", "draining"}, phase' = [phase EXCEPT ![o] = p]
    PROVE  /\ Cardinality(Present') \in Nat /\ Cardinality(Present) \in Nat
           /\ (phase[o] = "absent") = (p = "absent") => Present' = Present
           /\ phase[o] = "absent" /\ p # "absent" =>
                Cardinality(Present') = Cardinality(Present) + 1
           /\ phase[o] # "absent" /\ p = "absent" =>
                Cardinality(Present') = Cardinality(Present) - 1
<1>1. phase \in [Object -> {"absent", "open", "draining"}]
  BY DEF TypeOK
<1>2. Present \in SUBSET Object /\ Present' \in SUBSET Object
  BY DEF Present
<1>3. \A q \in Object \ {o} : q \in Present' <=> q \in Present
  BY <1>1 DEF Present
<1>4. (o \in Present <=> phase[o] # "absent") /\ (o \in Present' <=> p # "absent")
  BY <1>1 DEF Present
<1>5. (phase[o] = "absent") = (p = "absent") => Present' = Present
  BY <1>2, <1>3, <1>4
<1>6. ASSUME phase[o] = "absent", p # "absent"
      PROVE  Cardinality(Present') = Cardinality(Present) + 1
  <2>1. o \notin Present /\ Present' = Present \cup {o}
    BY <1>2, <1>3, <1>4, <1>6
  <2>2. QED
    BY <1>2, <2>1, OneMore
<1>7. ASSUME phase[o] # "absent", p = "absent"
      PROVE  Cardinality(Present') = Cardinality(Present) - 1
  <2>1. o \in Present /\ Present' = Present \ {o}
    BY <1>2, <1>3, <1>4, <1>7
  <2>2. QED
    BY <1>2, <2>1, OneLess
<1>8. QED
  BY <1>2, <1>5, <1>6, <1>7, SubsetsFinite

(* An object that goes takes its arrays with it, freed or left behind. *)
LEMMA GoneOwn ==
    ASSUME OwnIInv, NEW o \in Object, phase[o] = "draining", Gone(o), UNCHANGED table,
           \/ cna' = cna - 1 /\ arrays[o] = {} /\ UNCHANGED <<orphans, lost>>
           \/ lost' = lost + 1 /\ orphans' = orphans \cup arrays[o] /\ UNCHANGED cna
    PROVE  OwnIInv'
<1>. USE DEF OwnIInv
<1>1. /\ phase \in [Object -> {"absent", "open", "draining"}]
      /\ arrays \in [Object -> SUBSET Array] /\ held \in [Object -> Seq(Library)]
      /\ phase' = [phase EXCEPT ![o] = "absent"]
      /\ arrays' = [arrays EXCEPT ![o] = {}] /\ held' = [held EXCEPT ![o] = <<>>]
      /\ heap' = heap
      /\ cna \in Nat /\ lost \in Nat /\ orphans \in SUBSET Array
  BY DEF TypeOK, Gone
<1>2. Cardinality(Present') \in Nat /\ Cardinality(Present') = Cardinality(Present) - 1
  BY <1>1, PresentChanges
<1>3. cna = Cardinality(Present) + lost
  BY DEF OnlyErrorsKeepLibcna
<1>4. cna' \in Nat /\ lost' \in Nat /\ cna' = Cardinality(Present') + lost'
  <2>. DEFINE n == Cardinality(Present)
              m == Cardinality(Present')
  <2>1. n \in Nat /\ m \in Nat /\ m = n - 1 /\ cna = n + lost /\ lost \in Nat
    BY <1>1, <1>2, <1>3, SubsetsFinite DEF Present
  <2>. HIDE DEF n, m
  <2>2. \/ cna' = cna - 1 /\ lost' = lost
        \/ cna' = cna /\ lost' = lost + 1
    OBVIOUS
  <2>3. cna' \in Nat /\ lost' \in Nat /\ cna' = m + lost'
    BY <2>1, <2>2
  <2>4. QED
    BY <2>3 DEF m
<1>5. orphans' \in SUBSET Array
  BY <1>1
<1>6. TypeOK'
  BY <1>4, <1>5, GoneTyped DEF TypeOK
<1>7. AbsentHasNothing'
  BY <1>1 DEF AbsentHasNothing
<1>8. OnlyErrorsLeaveArrays'
  <2>1. orphans' = orphans \cup arrays[o]
    BY <1>1
  <2>2. /\ heap = orphans \cup UNION {arrays[p] : p \in Object}
        /\ \A p \in Object :
            /\ arrays[p] \cap orphans = {}
            /\ \A q \in Object \ {p} : arrays[p] \cap arrays[q] = {}
    BY DEF OnlyErrorsLeaveArrays
  <2>3. heap' = orphans' \cup UNION {arrays'[p] : p \in Object}
    BY <1>1, <2>1, <2>2
  <2>4. ASSUME NEW p \in Object
        PROVE  /\ arrays'[p] \cap orphans' = {}
               /\ \A q \in Object \ {p} : arrays'[p] \cap arrays'[q] = {}
    BY <1>1, <2>1, <2>2
  <2>5. QED
    BY <2>3, <2>4 DEF OnlyErrorsLeaveArrays
<1>9. QED
  BY <1>4, <1>6, <1>7, <1>8 DEF OnlyErrorsKeepLibcna

LEMMA NextOwn == OwnIInv /\ [Next]_vars => OwnIInv'
<1>. SUFFICES ASSUME OwnIInv, [Next]_vars
              PROVE  OwnIInv'
  OBVIOUS
<1>. USE DEF OwnIInv
<1>0. /\ phase \in [Object -> {"absent", "open", "draining"}]
      /\ cna \in Nat /\ lost \in Nat
      /\ cna = Cardinality(Present) + lost
      /\ Cardinality(Present) \in Nat
  BY SubsetsFinite DEF TypeOK, OnlyErrorsKeepLibcna, Present
<1>1. ASSUME NEW o \in Object, OnNew(o)
      PROVE  OwnIInv'
  <2>1. Cardinality(Present') = Cardinality(Present) + 1
    BY <1>1, PresentChanges DEF OnNew
  <2>2. TypeOK' /\ AbsentHasNothing' /\ OnlyErrorsLeaveArrays'
    BY <1>0, <1>1 DEF OnNew, TypeOK, AbsentHasNothing, OnlyErrorsLeaveArrays, client, history
  <2>3. OnlyErrorsKeepLibcna'
    BY <1>0, <1>1, <2>1 DEF OnNew, OnlyErrorsKeepLibcna, history
  <2>4. QED
    BY <2>2, <2>3
<1>2. ASSUME NEW o \in Object, OnNew_error(o)
      PROVE  OwnIInv'
  <2>0. /\ phase' \in [Object -> {"absent", "open", "draining"}]
        /\ lost' \in Nat /\ cna' \in Nat
        /\ \A p \in Object : phase'[p] = "absent" => phase[p] = "absent"
        /\ UNCHANGED <<alive, client, arrays, heap, abandoned, orphans>>
    BY <1>0, <1>2 DEF OnNew_error
  <2>1. TypeOK' /\ AbsentHasNothing' /\ OnlyErrorsLeaveArrays'
    BY <2>0 DEF TypeOK, AbsentHasNothing, OnlyErrorsLeaveArrays, client
  <2>2. CASE phase' = [phase EXCEPT ![o] = "draining"] /\ UNCHANGED lost
    <3>1. Cardinality(Present') = Cardinality(Present) + 1
      BY <1>2, <2>2, PresentChanges DEF OnNew_error
    <3>2. QED
      BY <1>0, <1>2, <2>1, <2>2, <3>1 DEF OnNew_error, OnlyErrorsKeepLibcna
  <2>3. CASE lost' = lost + 1 /\ UNCHANGED phase
    BY <1>0, <1>2, <2>1, <2>3 DEF OnNew_error, OnlyErrorsKeepLibcna, Present
  <2>4. QED
    BY <1>2, <2>2, <2>3 DEF OnNew_error
<1>3. ASSUME NEW o \in Object, MakeArray(o)
      PROVE  OwnIInv'
  <2>1. PICK a \in Array \ heap :
          heap' = heap \cup {a} /\ arrays' = [arrays EXCEPT ![o] = @ \cup {a}]
    BY <1>3 DEF MakeArray
  <2>2. TypeOK' /\ OnlyErrorsKeepLibcna'
    BY <1>0, <1>3, <2>1 DEF MakeArray, TypeOK, OnlyErrorsKeepLibcna, Present, client, history
  <2>3. AbsentHasNothing'
    BY <1>3, <2>1 DEF MakeArray, Open, AbsentHasNothing, TypeOK, client
  <2>4. arrays \in [Object -> SUBSET Array] /\ orphans' = orphans
    BY <1>3 DEF MakeArray, TypeOK, history
  <2>5. OnlyErrorsLeaveArrays'
    BY <2>1, <2>4 DEF OnlyErrorsLeaveArrays
  <2>6. QED
    BY <2>2, <2>3, <2>5
<1>4. ASSUME NEW o \in Object, NEW l \in Library, LoadLibrary(o, l)
      PROVE  OwnIInv'
  <2>1. PICK h \in Handle : dlopen(l, h) /\ LibId' = [LibId EXCEPT ![o] = h]
    BY <1>4 DEF LoadLibrary
  <2>2. held' \in [Object -> Seq(Library)]
    BY <1>4 DEF LoadLibrary, TypeOK
  <2>3. /\ DOMAIN table' \subseteq Handle
        /\ \A g \in DOMAIN table' :
            table'[g] \in [library : Library, references : Nat \ {0}]
    <3>1. DOMAIN table' = DOMAIN table \cup {h} /\ DOMAIN table \subseteq Handle
      BY <2>1, OpenTyped DEF TypeOK
    <3>2. \A g \in DOMAIN table' :
            table'[g] \in [library : Library, references : Nat \ {0}]
      BY <2>1, OpenTyped
    <3>3. QED
      BY <3>1, <3>2
  <2>4. TypeOK'
    BY <1>4, <2>1, <2>2, <2>3 DEF LoadLibrary, TypeOK, history
  <2>5. AbsentHasNothing'
    BY <1>4 DEF LoadLibrary, Open, AbsentHasNothing, TypeOK
  <2>6. OnlyErrorsKeepLibcna' /\ OnlyErrorsLeaveArrays'
    BY <1>4 DEF LoadLibrary, OnlyErrorsKeepLibcna, OnlyErrorsLeaveArrays, Present, history
  <2>7. QED
    BY <2>4, <2>5, <2>6
<1>5. ASSUME NEW o \in Object, FreeLibrary(o)
      PROVE  OwnIInv'
  <2>1. OnlyErrorsKeepLibcna' /\ OnlyErrorsLeaveArrays'
    BY <1>5 DEF FreeLibrary, OnlyErrorsKeepLibcna, OnlyErrorsLeaveArrays, Present, history
  <2>2. CASE LibId[o] \in DOMAIN table
    <3>1. dlclose(LibId[o])
      BY <1>5, <2>2 DEF FreeLibrary
    <3>2. held[o] \in Seq(Library)
      BY DEF TypeOK
    <3>3. SubSeq(held[o], 1, Len(held[o]) - 1) \in Seq(Library)
      BY <3>2, FrontTyped
    <3>4. held' = [held EXCEPT ![o] = SubSeq(held[o], 1, Len(held[o]) - 1)]
      BY <1>5, <2>2 DEF FreeLibrary
    <3>5. /\ DOMAIN table' \subseteq Handle
          /\ \A g \in DOMAIN table' :
                table'[g] \in [library : Library, references : Nat \ {0}]
      BY <2>2, <3>1, CloseTyped DEF TypeOK
    <3>6. TypeOK'
      BY <1>5, <2>2, <3>3, <3>4, <3>5 DEF FreeLibrary, TypeOK, history
    <3>7. AbsentHasNothing'
      BY <1>5, <3>4 DEF FreeLibrary, Open, AbsentHasNothing, TypeOK
    <3>8. QED
      BY <2>1, <3>6, <3>7
  <2>3. CASE LibId[o] \notin DOMAIN table
    BY <1>5, <2>1, <2>3 DEF FreeLibrary, TypeOK, AbsentHasNothing, history
  <2>4. QED
    BY <2>2, <2>3
<1>6. ASSUME NEW o \in Object, CallFunction(o)
      PROVE  OwnIInv'
  <2>1. /\ OnlyErrorsKeepLibcna' /\ OnlyErrorsLeaveArrays' /\ AbsentHasNothing'
    BY <1>6 DEF CallFunction, OnlyErrorsKeepLibcna, OnlyErrorsLeaveArrays, Present,
                AbsentHasNothing, history
  <2>2. found' \in Library \cup {NoHandle} /\ alive' \in BOOLEAN
    BY <1>6 DEF CallFunction, TypeOK
  <2>3. TypeOK'
    BY <1>6, <2>2 DEF CallFunction, TypeOK, history
  <2>4. QED
    BY <2>1, <2>3
<1>7. ASSUME NEW o \in Object, OnClose(o)
      PROVE  OwnIInv'
  <2>1. Present' = Present
    BY <1>0, <1>7, PresentChanges DEF OnClose, Open
  <2>2. QED
    BY <1>0, <1>7, <2>1 DEF OnClose, Open, TypeOK, AbsentHasNothing, OnlyErrorsKeepLibcna,
                            OnlyErrorsLeaveArrays, client, history
<1>8. ASSUME NEW o \in Object, OnClose_free(o)
      PROVE  OwnIInv'
  <2>1. PICK a \in arrays[o] :
          heap' = heap \ {a} /\ arrays' = [arrays EXCEPT ![o] = @ \ {a}]
    BY <1>8 DEF OnClose_free
  <2>2. TypeOK' /\ OnlyErrorsKeepLibcna'
    BY <1>0, <1>8, <2>1
    DEF OnClose_free, TypeOK, OnlyErrorsKeepLibcna, Present, client, history
  <2>3. AbsentHasNothing'
    BY <1>8, <2>1 DEF OnClose_free, AbsentHasNothing, TypeOK, client
  <2>4. arrays \in [Object -> SUBSET Array] /\ orphans' = orphans
    BY <1>8 DEF OnClose_free, TypeOK, history
  <2>5. OnlyErrorsLeaveArrays'
    BY <2>1, <2>4 DEF OnlyErrorsLeaveArrays
  <2>6. QED
    BY <2>2, <2>3, <2>5
<1>9. ASSUME NEW o \in Object, OnClose_unload(o)
      PROVE  OwnIInv'
  BY <1>9, GoneOwn DEF OnClose_unload
<1>10. ASSUME NEW o \in Object, OnClose_error(o)
      PROVE  OwnIInv'
  BY <1>10, GoneOwn DEF OnClose_error
<1>11. ASSUME UNCHANGED vars
      PROVE  OwnIInv'
  BY <1>11 DEF vars, client, history, TypeOK, AbsentHasNothing, OnlyErrorsKeepLibcna,
               OnlyErrorsLeaveArrays, Present
<1>12. QED
  BY <1>1, <1>2, <1>3, <1>4, <1>5, <1>6, <1>7, <1>8, <1>9, <1>10, <1>11 DEF Next

LEMMA OwnInvariance == Spec => []OwnIInv
BY InitOwn, NextOwn, PTL DEF Spec

(* The state keeps its types; references are never counted below zero         *)
(* (cna.xml:511-571).                                                         *)
THEOREM TypeCorrect == Spec => []TypeOK
BY OwnInvariance, PTL DEF OwnIInv

(* Libcna is loaded as often as objects are there or errors have lost it      *)
(* (cna.xml:540, 564).                                                        *)
THEOREM LibcnaCounted == Spec => []OnlyErrorsKeepLibcna
BY OwnInvariance, PTL DEF OwnIInv

(* No object, and no %OnClose with arrays to free, is left without libcna     *)
(* (cna.xml:558-564).                                                         *)
THEOREM LibcnaNeverMissing == Spec => []LibcnaServes
<1>1. OwnIInv => LibcnaServes
  <2>. SUFFICES ASSUME OwnIInv, Present # {} PROVE cna > 0
    BY DEF LibcnaServes
  <2>1. Present \in SUBSET Object
    BY DEF Present
  <2>2. Cardinality(Present) \in Nat /\ Cardinality(Present) # 0
    BY <2>1, SubsetsFinite, FS_EmptySet
  <2>3. QED
    BY <2>2 DEF OwnIInv, OnlyErrorsKeepLibcna, TypeOK
<1>2. QED
  BY <1>1, OwnInvariance, PTL

(* No array is freed by two objects, and only an error in %OnClose leaves one *)
(* behind (cna.xml:560-567).                                                  *)
THEOREM ArraysHaveOneOwner == Spec => []OnlyErrorsLeaveArrays
BY OwnInvariance, PTL DEF OwnIInv

-----------------------------------------------------------------------------
(* The libraries of clients that free each before they load another.       *)

LEMMA InitLease == Init => LeaseIInv
<1>. SUFFICES ASSUME Init PROVE LeaseIInv
  OBVIOUS
<1>1. PICK h \in [Resident -> Handle] :
        /\ \A l, m \in Resident : h[l] = h[m] => l = m
        /\ table = [g \in {h[l] : l \in Resident} |->
                        [library |-> CHOOSE l \in Resident : h[l] = g, references |-> 1]]
  BY DEF Init
<1>2. DOMAIN table = {h[l] : l \in Resident}
  BY <1>1
<1>3. ASSUME NEW l \in Resident
      PROVE  table[h[l]] = [library |-> l, references |-> 1]
  <2>1. (CHOOSE m \in Resident : h[m] = h[l]) = l
    BY <1>1, <1>3
  <2>2. QED
    BY <1>1, <1>2, <1>3, <2>1
<1>4. ASSUME NEW l
      PROVE  Cardinality({o \in Object : held[o] = <<l>>}) = 0
  <2>1. \A o \in Object : held[o] # <<l>>
    BY DEF Init
  <2>2. {o \in Object : held[o] = <<l>>} = {}
    BY <2>1
  <2>3. QED
    BY <2>2, FS_EmptySet
<1>5. ASSUME NEW l \in Library
      PROVE  Owed[l] = IF l \in Resident THEN 1 ELSE 0
  <2>1. abandoned[l] = 0
    BY DEF Init
  <2>2. Cardinality({o \in Object : held[o] = <<l>>}) = 0
    BY <1>4
  <2>3. QED
    BY <2>1, <2>2 DEF Owed
<1>6. ReferencesMatch
  <2>0. ASSUME NEW g \in DOMAIN table
        PROVE  \E l \in Resident :
                    g = h[l] /\ table[g].library = l /\ table[g].references = 1
    <3>1. PICK l \in Resident : g = h[l]
      BY <1>2
    <3>2. table[g] = [library |-> l, references |-> 1]
      BY <1>3, <3>1
    <3>3. QED
      BY <3>1, <3>2
  <2>1. ASSUME NEW g \in DOMAIN table
        PROVE  table[g].references = Owed[table[g].library]
    BY <1>5, <2>0
  <2>2. ASSUME NEW l \in Library, \A g \in DOMAIN table : table[g].library # l
        PROVE  Owed[l] = 0
    <3>1. ASSUME l \in Resident PROVE FALSE
      <4>0. table[h[l]] = [library |-> l, references |-> 1]
        BY <1>3, <3>1
      <4>1. h[l] \in DOMAIN table /\ table[h[l]].library = l
        BY <1>2, <3>1, <4>0
      <4>2. QED
        BY <2>2, <4>1
    <3>2. QED
      BY <1>5, <3>1
  <2>3. ASSUME NEW f \in DOMAIN table, NEW g \in DOMAIN table,
               table[f].library = table[g].library
        PROVE  f = g
    BY <2>0, <2>3
  <2>4. QED
    BY <2>1, <2>2, <2>3 DEF ReferencesMatch
<1>7. AtMostOne /\ HandleIsOwn
  BY DEF Init, AtMostOne, HandleIsOwn
<1>8. QED
  BY <1>6, <1>7, InitTyped DEF LeaseIInv

Holders(l) == {o \in Object : held[o] = <<l>>}

LEMMA OwedTyped ==
    ASSUME TypeOK
    PROVE  \A l \in Library :
            /\ Owed[l] = (IF l \in Resident THEN 1 ELSE 0)
                            + Cardinality(Holders(l)) + abandoned[l]
            /\ Cardinality(Holders(l)) \in Nat /\ abandoned[l] \in Nat
<1>1. \A l \in Library : Cardinality(Holders(l)) \in Nat
  BY SubsetsFinite DEF Holders
<1>2. QED
  BY <1>1 DEF Owed, Holders, TypeOK

(* Nothing the libraries depend on changes. *)
LEMMA OtherSteps ==
    ASSUME LeaseIInv, TypeOK', UNCHANGED <<LibId, table, held, abandoned>>
    PROVE  LeaseIInv'
<1>1. Owed' = Owed
  BY DEF Owed
<1>2. QED
  BY <1>1 DEF LeaseIInv, AtMostOne, HandleIsOwn, ReferencesMatch

(* o, which held nothing, holds l; and o, which held l, holds nothing. *)
LEMMA HoldersGain ==
    ASSUME TypeOK, NEW o \in Object, NEW l \in Library, held[o] = <<>>,
           held' = [held EXCEPT ![o] = <<l>>]
    PROVE  /\ Cardinality(Holders(l)') = Cardinality(Holders(l)) + 1
           /\ \A m \in Library \ {l} : Holders(m)' = Holders(m)
<1>1. \A m \in Library : Holders(m) \in SUBSET Object /\ Holders(m)' \in SUBSET Object
  BY DEF Holders
<1>2. held \in [Object -> Seq(Library)]
  BY DEF TypeOK
<1>3. <<l>> # <<>> /\ \A m \in Library : <<>> # <<m>> /\ (<<l>> = <<m>> => l = m)
  OBVIOUS
<1>4. \A p \in Object : held'[p] = IF p = o THEN <<l>> ELSE held[p]
  BY <1>2
<1>5. o \notin Holders(l) /\ Holders(l)' = Holders(l) \cup {o}
  BY <1>3, <1>4 DEF Holders
<1>6. \A m \in Library \ {l} : Holders(m)' = Holders(m)
  BY <1>3, <1>4 DEF Holders
<1>7. QED
  BY <1>1, <1>5, <1>6, OneMore

LEMMA HoldersLose ==
    ASSUME TypeOK, NEW o \in Object, NEW l \in Library, held[o] = <<l>>,
           held' = [held EXCEPT ![o] = <<>>]
    PROVE  /\ o \in Holders(l)
           /\ Holders(l)' = Holders(l) \ {o}
           /\ Cardinality(Holders(l)') = Cardinality(Holders(l)) - 1
           /\ Cardinality(Holders(l)') \in Nat
           /\ \A m \in Library \ {l} : Holders(m)' = Holders(m)
<1>1. \A m \in Library : Holders(m) \in SUBSET Object /\ Holders(m)' \in SUBSET Object
  BY DEF Holders
<1>2. held \in [Object -> Seq(Library)]
  BY DEF TypeOK
<1>3. <<l>> # <<>> /\ \A m \in Library : <<>> # <<m>> /\ (<<l>> = <<m>> => l = m)
  OBVIOUS
<1>4. \A p \in Object : held'[p] = IF p = o THEN <<>> ELSE held[p]
  BY <1>2
<1>5. o \in Holders(l) /\ Holders(l)' = Holders(l) \ {o}
  BY <1>3, <1>4 DEF Holders
<1>6. \A m \in Library \ {l} : Holders(m)' = Holders(m)
  BY <1>3, <1>4 DEF Holders
<1>7. QED
  BY <1>1, <1>5, <1>6, OneLess, SubsetsFinite

(* What HandleIsOwn and ReferencesMatch say of sequences of at most one element. *)
LEMMA OwnOne ==
    ASSUME LeaseIInv, NEW o \in Object
    PROVE  \/ held[o] = <<>>
           \/ \E l \in Library : /\ held[o] = <<l>>
                                 /\ LibId[o] \in DOMAIN table
                                 /\ table[LibId[o]].library = l
<1>1. held[o] \in Seq(Library) /\ Len(held[o]) <= 1
  BY DEF LeaseIInv, TypeOK, AtMostOne
<1>2. CASE Len(held[o]) = 0
  <2>1. held[o] = <<>>
    BY <1>1, <1>2
  <2>2. QED
    BY <2>1
<1>3. CASE Len(held[o]) = 1
  <2>1. held[o] = <<held[o][1]>> /\ held[o][1] \in Library /\ held[o] # <<>>
    BY <1>1, <1>3
  <2>2. /\ LibId[o] \in DOMAIN table
        /\ table[LibId[o]].library = held[o][1]
    BY <1>3, <2>1 DEF LeaseIInv, HandleIsOwn
  <2>3. QED
    BY <2>1, <2>2
<1>4. Len(held[o]) \in Nat
  BY <1>1
<1>5. Len(held[o]) = 0 \/ Len(held[o]) = 1
  <2>. DEFINE n == Len(held[o])
  <2>1. n \in Nat /\ n <= 1
    BY <1>1, <1>4
  <2>. HIDE DEF n
  <2>2. n = 0 \/ n = 1
    BY <2>1
  <2>3. QED
    BY <2>2 DEF n
<1>6. QED
  BY <1>2, <1>3, <1>5

LEMMA LoadKeepsLease ==
    ASSUME LeaseIInv, OneAtATime, TypeOK', NEW o \in Object, NEW l \in Library,
           MayLoad(o), LoadLibrary(o, l)
    PROVE  LeaseIInv'
<1>. USE DEF LeaseIInv
<1>1. PICK h \in Handle : dlopen(l, h) /\ LibId' = [LibId EXCEPT ![o] = h]
  BY DEF LoadLibrary
<1>2. held[o] = <<>>
  <2>1. Len(held[o]) < 1 /\ held[o] \in Seq(Library)
    BY DEF MayLoad, TypeOK
  <2>2. QED
    BY <2>1
<1>3. held' = [held EXCEPT ![o] = <<l>>]
  BY <1>2 DEF LoadLibrary, TypeOK
<1>4. /\ held \in [Object -> Seq(Library)]
      /\ LibId \in [Object -> Handle \cup {NoHandle}]
      /\ abandoned' = abandoned
  BY DEF TypeOK, LoadLibrary, history
<1>5. \A p \in Object : /\ held'[p] = IF p = o THEN <<l>> ELSE held[p]
                        /\ LibId'[p] = IF p = o THEN h ELSE LibId[p]
  BY <1>1, <1>3, <1>4
<1>6. /\ DOMAIN table' = DOMAIN table \cup {h}
      /\ \A g \in DOMAIN table : table'[g].library = table[g].library
      /\ \A g \in DOMAIN table \ {h} : table'[g] = table[g]
      /\ table'[h].library = l
      /\ \/ /\ h \in DOMAIN table /\ table[h].library = l
            /\ table'[h].references = table[h].references + 1
         \/ /\ h \notin DOMAIN table
            /\ \A g \in DOMAIN table : table[g].library # l
            /\ table'[h].references = 1
  BY <1>1, OpenTyped
<1>7. AtMostOne'
  <2>1. Len(<<l>>) <= 1
    OBVIOUS
  <2>2. QED
    BY <1>5, <2>1 DEF AtMostOne
<1>8. HandleIsOwn'
  <2>1. ASSUME NEW p \in Object, held'[p] # <<>>
        PROVE  /\ LibId'[p] \in DOMAIN table'
               /\ table'[LibId'[p]].library = held'[p][Len(held'[p])]
    <3>1. CASE p = o
      <4>1. LibId'[p] = h /\ held'[p] = <<l>>
        BY <1>5, <3>1
      <4>2. h \in DOMAIN table' /\ table'[h].library = l
        BY <1>6
      <4>3. <<l>>[Len(<<l>>)] = l
        OBVIOUS
      <4>4. QED
        BY <4>1, <4>2, <4>3
    <3>2. CASE p # o
      BY <1>5, <1>6, <2>1, <3>2 DEF HandleIsOwn
    <3>3. QED
      BY <3>1, <3>2
  <2>2. QED
    BY <2>1 DEF HandleIsOwn
<1>9. /\ Owed'[l] = Owed[l] + 1
      /\ \A m \in Library \ {l} : Owed'[m] = Owed[m]
  <2>1. /\ Cardinality(Holders(l)') = Cardinality(Holders(l)) + 1
        /\ \A m \in Library \ {l} : Holders(m)' = Holders(m)
    BY <1>2, <1>3, HoldersGain
  <2>2. \A m \in Library : Owed'[m] = (IF m \in Resident THEN 1 ELSE 0)
                            + Cardinality(Holders(m)') + abandoned[m]
    BY <1>4 DEF Owed, Holders
  <2>3. \A m \in Library :
            /\ Owed[m] = (IF m \in Resident THEN 1 ELSE 0)
                            + Cardinality(Holders(m)) + abandoned[m]
            /\ Cardinality(Holders(m)) \in Nat /\ abandoned[m] \in Nat
    BY OwedTyped
  <2>4. Owed'[l] = Owed[l] + 1
    BY <2>1, <2>2, <2>3
  <2>5. \A m \in Library \ {l} : Owed'[m] = Owed[m]
    BY <2>1, <2>2, <2>3
  <2>6. QED
    BY <2>4, <2>5
<1>10. ReferencesMatch'
  <2>1. ASSUME NEW g \in DOMAIN table'
        PROVE  table'[g].references = Owed'[table'[g].library]
    <3>1. CASE g = h /\ h \in DOMAIN table
      BY <1>6, <1>9, <3>1 DEF ReferencesMatch
    <3>2. CASE g = h /\ h \notin DOMAIN table
      <4>1. Owed[l] = 0 /\ Owed'[l] = 1
        BY <1>6, <1>9, <3>2 DEF ReferencesMatch
      <4>2. QED
        BY <1>6, <3>2, <4>1
    <3>3. CASE g # h
      <4>1. g \in DOMAIN table /\ table'[g] = table[g] /\ table[g].library \in Library
        BY <1>6, <2>1, <3>3 DEF TypeOK
      <4>2. table[g].library # l
        BY <1>6, <3>3, <4>1 DEF ReferencesMatch
      <4>3. QED
        BY <1>9, <4>1, <4>2 DEF ReferencesMatch
    <3>4. QED
      BY <3>1, <3>2, <3>3
  <2>2. ASSUME NEW m \in Library, \A g \in DOMAIN table' : table'[g].library # m
        PROVE  Owed'[m] = 0
    <3>1. m # l /\ \A g \in DOMAIN table : table[g].library # m
      BY <1>6, <2>2
    <3>2. QED
      BY <1>9, <3>1 DEF ReferencesMatch
  <2>3. ASSUME NEW f \in DOMAIN table', NEW g \in DOMAIN table',
               table'[f].library = table'[g].library
        PROVE  f = g
    BY <1>6, <2>3 DEF ReferencesMatch
  <2>4. QED
    BY <2>1, <2>2, <2>3 DEF ReferencesMatch
<1>11. QED
  BY <1>7, <1>8, <1>10

LEMMA FreeKeepsLease ==
    ASSUME LeaseIInv, OneAtATime, TypeOK', NEW o \in Object, MayUse(o), FreeLibrary(o)
    PROVE  LeaseIInv'
<1>. USE DEF LeaseIInv
<1>1. PICK l \in Library : /\ held[o] = <<l>>
                           /\ LibId[o] \in DOMAIN table
                           /\ table[LibId[o]].library = l
  BY OwnOne DEF MayUse
<1>. DEFINE h == LibId[o]
<1>2. dlclose(h)
  BY <1>1 DEF FreeLibrary
<1>3. held' = [held EXCEPT ![o] = <<>>]
  <2>1. SubSeq(held[o], 1, Len(held[o]) - 1) = <<>>
    BY <1>1
  <2>2. QED
    BY <1>1, <2>1 DEF FreeLibrary, TypeOK
<1>4. /\ held \in [Object -> Seq(Library)]
      /\ LibId' = LibId /\ abandoned' = abandoned
  BY DEF TypeOK, FreeLibrary, history
<1>5. \A p \in Object : held'[p] = IF p = o THEN <<>> ELSE held[p]
  BY <1>3, <1>4
<1>6. /\ DOMAIN table' \subseteq DOMAIN table
      /\ \A g \in DOMAIN table \ {h} : g \in DOMAIN table' /\ table'[g] = table[g]
      /\ \/ /\ h \in DOMAIN table'
            /\ table'[h].library = table[h].library
            /\ table'[h].references = table[h].references - 1
         \/ h \notin DOMAIN table' /\ table[h].references = 1
  BY <1>1, <1>2, CloseTyped
<1>. HIDE DEF h
<1>h. h = LibId[o] /\ h \in DOMAIN table /\ table[h].library = l
  BY <1>1 DEF h
<1>7. AtMostOne'
  BY <1>5 DEF AtMostOne
<1>8. /\ o \in Holders(l) /\ Holders(l)' = Holders(l) \ {o}
      /\ Cardinality(Holders(l)') = Cardinality(Holders(l)) - 1
      /\ Cardinality(Holders(l)') \in Nat
      /\ \A m \in Library \ {l} : Holders(m)' = Holders(m)
  BY <1>1, <1>3, HoldersLose
<1>9. /\ Owed'[l] = Owed[l] - 1
      /\ \A m \in Library \ {l} : Owed'[m] = Owed[m]
  <2>1. \A m \in Library : Owed'[m] = (IF m \in Resident THEN 1 ELSE 0)
                            + Cardinality(Holders(m)') + abandoned[m]
    BY <1>4 DEF Owed, Holders
  <2>2. \A m \in Library :
            /\ Owed[m] = (IF m \in Resident THEN 1 ELSE 0)
                            + Cardinality(Holders(m)) + abandoned[m]
            /\ Cardinality(Holders(m)) \in Nat /\ abandoned[m] \in Nat
    BY OwedTyped
  <2>3. Owed'[l] = Owed[l] - 1
    <3>1. Owed'[l] = (IF l \in Resident THEN 1 ELSE 0)
                            + (Cardinality(Holders(l)) - 1) + abandoned[l]
      BY <1>8, <2>1
    <3>2. /\ Owed[l] = (IF l \in Resident THEN 1 ELSE 0)
                            + Cardinality(Holders(l)) + abandoned[l]
          /\ Cardinality(Holders(l)) \in Nat /\ abandoned[l] \in Nat
      BY <2>2
    <3>3. QED
      BY <3>1, <3>2
  <2>4. \A m \in Library \ {l} : Owed'[m] = Owed[m]
    BY <1>8, <2>1, <2>2
  <2>5. QED
    BY <2>3, <2>4
<1>10. table[h].references = Owed[l]
  BY <1>h DEF ReferencesMatch
<1>11. HandleIsOwn'
  <2>1. ASSUME NEW p \in Object, held'[p] # <<>>
        PROVE  /\ LibId'[p] \in DOMAIN table'
               /\ table'[LibId'[p]].library = held'[p][Len(held'[p])]
    <3>1. p # o /\ held'[p] = held[p]
      BY <1>5, <2>1
    <3>2. PICK m \in Library : /\ held[p] = <<m>>
                               /\ LibId[p] \in DOMAIN table
                               /\ table[LibId[p]].library = m
      BY <2>1, <3>1, OwnOne
    <3>3. CASE LibId[p] # h
      BY <1>4, <1>6, <3>1, <3>2, <3>3
    <3>4. CASE LibId[p] = h
      <4>1. m = l /\ p \in Holders(l)'
        BY <1>h, <1>8, <3>1, <3>2, <3>4 DEF Holders
      <4>2. Holders(l)' \in SUBSET Object
        BY DEF Holders
      <4>3. Cardinality(Holders(l)') # 0
        BY <4>1, <4>2, SubsetsFinite, FS_EmptySet
      <4>4. Owed[l] > 1
        BY <1>8, <4>3, OwedTyped
      <4>5. h \in DOMAIN table' /\ table'[h].library = l
        BY <1>h, <1>6, <1>10, <4>4
      <4>6. QED
        BY <1>4, <3>1, <3>2, <3>4, <4>1, <4>5
    <3>5. QED
      BY <3>3, <3>4
  <2>2. QED
    BY <2>1 DEF HandleIsOwn
<1>12. ReferencesMatch'
  <2>1. ASSUME NEW g \in DOMAIN table'
        PROVE  table'[g].references = Owed'[table'[g].library]
    <3>1. CASE g = h
      BY <1>h, <1>6, <1>9, <1>10, <2>1, <3>1
    <3>2. CASE g # h
      <4>1. g \in DOMAIN table /\ table'[g] = table[g] /\ table[g].library \in Library
        BY <1>6, <2>1, <3>2 DEF TypeOK
      <4>2. table[g].library # l
        BY <1>h, <3>2, <4>1 DEF ReferencesMatch
      <4>3. QED
        BY <1>9, <4>1, <4>2 DEF ReferencesMatch
    <3>3. QED
      BY <3>1, <3>2
  <2>2. ASSUME NEW m \in Library, \A g \in DOMAIN table' : table'[g].library # m
        PROVE  Owed'[m] = 0
    <3>1. CASE m = l
      <4>1. h \notin DOMAIN table' /\ table[h].references = 1
        BY <1>h, <1>6, <2>2, <3>1
      <4>2. QED
        BY <1>9, <1>10, <3>1, <4>1
    <3>2. CASE m # l
      <4>1. \A g \in DOMAIN table : table[g].library # m
        BY <1>h, <1>6, <2>2, <3>2
      <4>2. QED
        BY <1>9, <3>2, <4>1 DEF ReferencesMatch
    <3>3. QED
      BY <3>1, <3>2
  <2>3. ASSUME NEW f \in DOMAIN table', NEW g \in DOMAIN table',
               table'[f].library = table'[g].library
        PROVE  f = g
    BY <1>h, <1>6, <2>3 DEF ReferencesMatch
  <2>4. QED
    BY <2>1, <2>2, <2>3 DEF ReferencesMatch
<1>13. QED
  BY <1>7, <1>11, <1>12

(* The references of an object that goes are abandoned, not returned. *)
LEMMA GoneKeepsLease ==
    ASSUME LeaseIInv, TypeOK', NEW o \in Object, Gone(o), UNCHANGED table
    PROVE  LeaseIInv'
<1>. USE DEF LeaseIInv
<1>1. /\ held \in [Object -> Seq(Library)] /\ held' = [held EXCEPT ![o] = <<>>]
      /\ LibId \in [Object -> Handle \cup {NoHandle}]
      /\ LibId' = [LibId EXCEPT ![o] = NoHandle]
  BY DEF TypeOK, Gone
<1>2. \A p \in Object : /\ held'[p] = IF p = o THEN <<>> ELSE held[p]
                        /\ LibId'[p] = IF p = o THEN NoHandle ELSE LibId[p]
  BY <1>1
<1>3. AtMostOne' /\ HandleIsOwn'
  BY <1>2 DEF AtMostOne, HandleIsOwn
<1>4. \A l \in Library : abandoned'[l] = abandoned[l] + IF held[o] = <<l>> THEN 1 ELSE 0
  <2>1. held[o] \in Seq(Library) /\ Len(held[o]) <= 1
    BY <1>1 DEF AtMostOne
  <2>2. ASSUME NEW l \in Library
        PROVE  Holds(o, l) = IF held[o] = <<l>> THEN 1 ELSE 0
    <3>1. Count(held[o], l) = IF held[o] = <<l>> THEN 1 ELSE 0
      BY <2>1, HoldsOne
    <3>2. QED
      BY <3>1 DEF Holds, Count
  <2>3. QED
    BY <2>2 DEF Gone
<1>5. \A m \in Library : Owed'[m] = (IF m \in Resident THEN 1 ELSE 0)
                            + Cardinality(Holders(m)') + abandoned'[m]
  BY DEF Owed, Holders
<1>6. \A m \in Library : Owed'[m] = Owed[m]
  <2>1. CASE held[o] = <<>>
    <3>1. \A m \in Library : held[o] # <<m>>
      BY <2>1
    <3>2. \A m \in Library : Holders(m)' = Holders(m)
      BY <1>2, <2>1, <3>1 DEF Holders
    <3>3. QED
      BY <1>4, <1>5, <3>1, <3>2, OwedTyped
  <2>2. ASSUME NEW l \in Library, held[o] = <<l>>
        PROVE  \A m \in Library : Owed'[m] = Owed[m]
    <3>1. /\ Cardinality(Holders(l)') = Cardinality(Holders(l)) - 1
          /\ \A m \in Library \ {l} : Holders(m)' = Holders(m)
      BY <1>1, <2>2, HoldersLose
    <3>2. \A m \in Library : abandoned'[m] = abandoned[m] + IF m = l THEN 1 ELSE 0
      BY <1>4, <2>2
    <3>3. QED
      BY <1>5, <3>1, <3>2, OwedTyped
  <2>3. QED
    BY <2>1, <2>2, OwnOne
<1>7. ReferencesMatch'
  <2>1. \A g \in DOMAIN table : table[g].library \in Library
    BY DEF TypeOK
  <2>2. QED
    BY <1>6, <2>1 DEF ReferencesMatch
<1>8. QED
  BY <1>3, <1>7

LEMMA NextLease ==
    ASSUME OneAtATime, OwnIInv, LeaseIInv, [Next]_vars
    PROVE  LeaseIInv'
<1>1. TypeOK'
  BY NextOwn DEF OwnIInv
<1>2. ASSUME NEW o \in Object, \/ OnNew(o) \/ OnNew_error(o) \/ MakeArray(o)
                               \/ CallFunction(o) \/ OnClose(o) \/ OnClose_free(o)
      PROVE  LeaseIInv'
  <2>1. UNCHANGED <<LibId, table, held, abandoned>>
    BY <1>2 DEF OnNew, OnNew_error, MakeArray, CallFunction, OnClose, OnClose_free,
                client, history
  <2>2. QED
    BY <1>1, <2>1, OtherSteps
<1>3. ASSUME NEW o \in Object, NEW l \in Library, MayLoad(o), LoadLibrary(o, l)
      PROVE  LeaseIInv'
  BY <1>1, <1>3, LoadKeepsLease
<1>4. ASSUME NEW o \in Object, MayUse(o), FreeLibrary(o)
      PROVE  LeaseIInv'
  BY <1>1, <1>4, FreeKeepsLease
<1>5. ASSUME NEW o \in Object, OnClose_unload(o) \/ OnClose_error(o)
      PROVE  LeaseIInv'
  BY <1>1, <1>5, GoneKeepsLease DEF OnClose_unload, OnClose_error
<1>6. ASSUME UNCHANGED vars
      PROVE  LeaseIInv'
  BY <1>1, <1>6, OtherSteps DEF vars, client, history
<1>7. QED
  BY <1>2, <1>3, <1>4, <1>5, <1>6 DEF Next

LEMMA LeaseInvariance ==
    ASSUME OneAtATime
    PROVE  Spec => []LeaseIInv
<1>1. OwnIInv /\ LeaseIInv /\ [Next]_vars => LeaseIInv'
  BY NextLease
<1>2. QED
  BY <1>1, InitLease, OwnInvariance, PTL DEF Spec

(* Clients that free each library before they load another always have an     *)
(* open handle to their own library (cna.xml:511-528).                        *)
THEOREM OwnHandles ==
    ASSUME OneAtATime
    PROVE  Spec => []HandleIsOwn
BY LeaseInvariance, PTL DEF LeaseIInv

(* The loader's references are those of the process, of the clients, and of   *)
(* objects closed too early (cna.c:82-106, cna.xml:554-571).                  *)
THEOREM ReferencesAccounted ==
    ASSUME OneAtATime
    PROVE  Spec => []ReferencesMatch
BY LeaseInvariance, PTL DEF LeaseIInv

-----------------------------------------------------------------------------
(* The refinement of Lease.                                                *)

\* What the refinement mapping makes of the state.
Mapped == [o \in Object |->
    IF held[o] # <<>> /\ LibId[o] \in DOMAIN table
    THEN table[LibId[o]].library ELSE NoHandle]

MappedIsHeld ==
    \A o \in Object : \/ held[o] = <<>> /\ Mapped[o] = NoHandle
                      \/ \E l \in Library : held[o] = <<l>> /\ Mapped[o] = l

LEMMA MappedOne == LeaseIInv => MappedIsHeld
<1>. SUFFICES ASSUME LeaseIInv, NEW o \in Object
              PROVE  \/ held[o] = <<>> /\ Mapped[o] = NoHandle
                     \/ \E l \in Library : held[o] = <<l>> /\ Mapped[o] = l
  BY DEF MappedIsHeld
<1>1. CASE held[o] = <<>>
  BY <1>1 DEF Mapped
<1>2. ASSUME NEW l \in Library, held[o] = <<l>>, LibId[o] \in DOMAIN table,
             table[LibId[o]].library = l
      PROVE  Mapped[o] = l
  <2>1. Len(<<l>>) = 1 /\ Len(<< >>) = 0
    OBVIOUS
  <2>2. held[o] # <<>>
    BY <1>2, <2>1
  <2>3. Mapped[o] = IF held[o] # <<>> /\ LibId[o] \in DOMAIN table
                    THEN table[LibId[o]].library ELSE NoHandle
    BY DEF Mapped
  <2>4. QED
    BY <1>2, <2>2, <2>3
<1>3. \/ held[o] = <<>>
      \/ \E l \in Library : /\ held[o] = <<l>> /\ LibId[o] \in DOMAIN table
                             /\ table[LibId[o]].library = l
  BY OwnOne
<1>4. QED
  BY <1>1, <1>2, <1>3

LEMMA MappedOneNext == LeaseIInv' => MappedIsHeld'
BY MappedOne, PTL

LEMMA InitLeases == Init => Promise!Init
BY DEF Init, Promise!Init

LEMMA NextLeases ==
    ASSUME OneAtATime, LeaseIInv, LeaseIInv', [Next]_vars
    PROVE  [Promise!Next]_Promise!leaseVars
<1>1. held \in [Object -> Seq(Library)] /\ MappedIsHeld /\ MappedIsHeld'
  BY MappedOne, MappedOneNext DEF LeaseIInv, TypeOK
<1>2. ASSUME UNCHANGED held
      PROVE  Mapped' = Mapped
  <2>1. \A o \in Object : Mapped'[o] = Mapped[o]
    BY <1>1, <1>2, SMTT(40) DEF MappedIsHeld
  <2>2. QED
    BY <2>1 DEF Mapped
<1>3. ASSUME NEW o \in Object, \A p \in Object \ {o} : held'[p] = held[p]
      PROVE  Mapped' = [Mapped EXCEPT ![o] = Mapped'[o]]
  <2>1. \A p \in Object \ {o} : Mapped'[p] = Mapped[p]
    BY <1>1, <1>3, SMTT(40) DEF MappedIsHeld
  <2>2. QED
    BY <2>1 DEF Mapped
<1>4. ASSUME NEW o \in Object, NEW l \in Library, MayLoad(o), LoadLibrary(o, l)
      PROVE  Promise!Load(o, l)
  <2>1. held[o] = <<>>
    BY <1>1, <1>4 DEF MayLoad
  <2>2. held' = [held EXCEPT ![o] = <<l>>] /\ found' = found
    BY <1>1, <1>4, <2>1 DEF LoadLibrary
  <2>3. held'[o] = <<l>> /\ \A p \in Object \ {o} : held'[p] = held[p]
    BY <1>1, <2>2
  <2>4. Mapped[o] = NoHandle /\ Mapped'[o] = l
    BY <1>1, <2>1, <2>3 DEF MappedIsHeld
  <2>5. Mapped' = [Mapped EXCEPT ![o] = l]
    BY <1>3, <2>3, <2>4
  <2>6. QED
    BY <2>2, <2>4, <2>5 DEF Promise!Load, Mapped
<1>5. ASSUME NEW o \in Object, held' = [held EXCEPT ![o] = <<>>], found' = found
      PROVE  [Promise!Free(o)]_Promise!leaseVars
  <2>0. held'[o] = <<>> /\ \A p \in Object \ {o} : held'[p] = held[p]
    BY <1>1, <1>5
  <2>1. Mapped' = [Mapped EXCEPT ![o] = NoHandle]
    <3>1. Mapped'[o] = NoHandle
      BY <1>1, <2>0 DEF MappedIsHeld
    <3>2. QED
      BY <1>3, <2>0, <3>1
  <2>2. CASE held[o] = <<>>
    <3>1. Mapped' = Mapped
      BY <1>1, <2>1, <2>2 DEF MappedIsHeld, Mapped
    <3>2. QED
      BY <1>5, <3>1 DEF Promise!leaseVars, Mapped
  <2>3. CASE held[o] # <<>>
    <3>1. Mapped[o] \in Library
      BY <1>1, <2>3 DEF MappedIsHeld
    <3>2. Mapped[o] # NoHandle
      BY <3>1
    <3>3. QED
      BY <1>5, <2>1, <3>2 DEF Promise!Free, Mapped
  <2>4. QED
    BY <2>2, <2>3
<1>6. ASSUME NEW o \in Object, MayUse(o), FreeLibrary(o)
      PROVE  [Promise!Free(o)]_Promise!leaseVars
  <2>1. PICK l \in Library : /\ held[o] = <<l>>
                             /\ LibId[o] \in DOMAIN table
                             /\ table[LibId[o]].library = l
    BY <1>6, OwnOne DEF MayUse
  <2>2. SubSeq(held[o], 1, Len(held[o]) - 1) = <<>>
    BY <2>1
  <2>3. held' = [held EXCEPT ![o] = <<>>] /\ found' = found
    BY <1>1, <1>6, <2>1, <2>2 DEF FreeLibrary
  <2>4. QED
    BY <1>5, <2>3
<1>7. ASSUME NEW o \in Object, MayUse(o), CallFunction(o)
      PROVE  Promise!Call(o)
  <2>1. PICK l \in Library : /\ held[o] = <<l>>
                             /\ LibId[o] \in DOMAIN table
                             /\ table[LibId[o]].library = l
    BY <1>7, OwnOne DEF MayUse
  <2>2. held[o] # <<>>
    BY <1>7 DEF MayUse
  <2>3. Mapped[o] = l /\ l # NoHandle
    BY <2>1, <2>2 DEF Mapped
  <2>4. found' = l /\ UNCHANGED held
    BY <1>7, <2>1 DEF CallFunction
  <2>5. Mapped' = Mapped
    BY <1>2, <2>4
  <2>6. QED
    BY <2>3, <2>4, <2>5 DEF Promise!Call, Mapped
<1>8. ASSUME NEW o \in Object, OnClose_unload(o) \/ OnClose_error(o)
      PROVE  [Promise!Free(o)]_Promise!leaseVars
  <2>1. held' = [held EXCEPT ![o] = <<>>] /\ found' = found
    BY <1>8 DEF OnClose_unload, OnClose_error, Gone
  <2>2. QED
    BY <1>5, <2>1
<1>9. ASSUME \/ UNCHANGED vars
             \/ \E o \in Object : \/ OnNew(o) \/ OnNew_error(o) \/ MakeArray(o)
                                  \/ OnClose(o) \/ OnClose_free(o)
      PROVE  UNCHANGED Promise!leaseVars
  <2>1. UNCHANGED <<held, found>>
    BY <1>9 DEF vars, OnNew, OnNew_error, MakeArray, OnClose, OnClose_free, client
  <2>2. Mapped' = Mapped
    BY <1>2, <2>1
  <2>3. QED
    BY <2>1, <2>2 DEF Promise!leaseVars, Mapped
<1>10. QED
  BY <1>4, <1>6, <1>7, <1>8, <1>9 DEF Next, Promise!Next

(* To clients that free each library before they load another, every object   *)
(* has a library of its own, and CallFunction finds its functions there, as   *)
(* module Lease says.                                                         *)
THEOREM Refinement ==
    ASSUME OneAtATime
    PROVE  Spec => ImplementsLease
<1>1. LeaseIInv /\ LeaseIInv' /\ [Next]_vars => [Promise!Next]_Promise!leaseVars
  BY NextLeases
<1>2. QED
  BY <1>1, InitLeases, LeaseInvariance, PTL DEF Spec, ImplementsLease, Promise!Spec
=============================================================================
