------------------------------- MODULE Ffi64 -------------------------------
(***************************************************************************)
(* A call through libffi on x86-64 (x86/ffi64.c, x86/unix64.S).  Where an  *)
(* argument goes is computed three times, by code that passes no result of *)
(* it on: ffi_prep_cif_machdep counts registers and bytes, ffi_call fills  *)
(* the registers and the bytes it has allocated after that count, and a    *)
(* function made with ffi_prep_closure finds its arguments again           *)
(* (ffi_closure_unix64_inner).  Where the result is, is computed twice, in *)
(* bits of the flags the assembly code looks at.                           *)
(*                                                                         *)
(* A word of 8 bytes is a pair of an argument's number and the word's      *)
(* number in it; the result is number 0.  i, gprcount, ssecount and argp   *)
(* are locals of the function that is running.                             *)
(***************************************************************************)
EXTENDS ArgumentClasses

CONSTANTS
    Types, Void,        \* types, and the type of no result
    Structs,            \* those of Types that are structures
    Size, Alignment,    \* of each type
    Classes,            \* what classify_argument answers for it; <<>>: memory
    ArgumentLists,      \* what functions take
    MAX_GPR_REGS, MAX_SSE_REGS,
    Stack               \* the address alloca gives, which is a multiple of 16

\* A type that is left to registers has one or two words; X87 is the class of long double and
\* of a structure of nothing else.
ASSUME TypesAssumption ==
    /\ Void \notin Types
    /\ Structs \subseteq Types
    /\ Size \in [Types -> Nat \ {0}]
    /\ Alignment \in [Types -> {1, 2, 4, 8, 16}]
    /\ Classes \in [Types -> Seq(Class)]
    /\ \A t \in Types : /\ Len(Classes[t]) <= 2
                        /\ Classes[t] = <<>> => t \in Structs
    /\ ArgumentLists \subseteq Seq(Types)

ASSUME RegistersAssumption ==
    /\ MAX_GPR_REGS \in Nat \ {0}
    /\ MAX_SSE_REGS \in Nat
    /\ Stack \in Nat /\ Stack % 16 = 0

VARIABLES
    rtype, types,       \* the cif: what the function returns, and takes
    callee,             \* "closure" of libffi, or a function a C compiler has "compiled"
    pc,
    i, gprcount, ssecount,
    bytes,              \* counted by ffi_prep_cif_machdep
    flags,              \* cif->flags: type, the bit for the result, and bit 11
    argp,
    gpr, sse,           \* reg_args: the words that have been written there, in order
    memory,             \* the arguments in memory, and their addresses
    avalue,             \* what the closure finds for each argument
    rvalue,             \* where the callee writes a result that is in memory
    result,             \* the words the assembly code stores for the caller
    plan                \* a history: what was counted before each argument, and at the end

cif == <<rtype, types, callee>>
prepared == <<bytes, flags, plan>>
passed == <<gpr, sse, memory>>
vars == <<cif, pc, i, gprcount, ssecount, argp, prepared, passed, avalue, rvalue, result>>

Junk == <<"junk">>
RValue == <<"rvalue">>      \* the address of the memory for the result
Found(file, k) == IF k \in DOMAIN file THEN file[k] ELSE Junk

\* struct register_args, of which ssecount entries are aligned to 16 bytes.
SizeOfRegisterArgs_NoPadding == 8 * MAX_GPR_REGS + 16 * MAX_SSE_REGS - 8
SizeOfRegisterArgs == ALIGN(8 * MAX_GPR_REGS, 16) + 16 * MAX_SSE_REGS
Arguments == Stack + SizeOfRegisterArgs

\* Is word w of t of a class of S?
Is(t, w, S) == w <= Len(Classes[t]) /\ Classes[t][w] \in S
One(p) == IF p THEN 1 ELSE 0

\* examine_argument: the number it answers, and the registers that are needed.
examine_argument(t, in_return) ==
    IF Is(t, 1, X87) \/ Is(t, 2, X87) THEN One(in_return) ELSE Len(Classes[t])
Need(t, S) == One(Is(t, 1, S)) + One(Is(t, 2, S))

InRegisters(t) ==
    /\ examine_argument(t, FALSE) # 0
    /\ gprcount + Need(t, Integer) <= MAX_GPR_REGS
    /\ ssecount + Need(t, SSE) <= MAX_SSE_REGS

Align(t) == Larger(Alignment[t], 8)

ReturnsInMemory == rtype # Void /\ examine_argument(rtype, TRUE) = 0

-----------------------------------------------------------------------------
Init ==
    /\ rtype \in Types \cup {Void}
    /\ types \in ArgumentLists
    /\ callee \in {"closure", "compiled"}
    /\ pc = "prep"
    /\ i = 0 /\ gprcount = 0 /\ ssecount = 0
    /\ bytes = 0
    /\ flags = [type |-> Void, bit |-> 0, sse |-> FALSE]
    /\ argp = Arguments
    /\ gpr = <<>> /\ sse = <<>> /\ memory = {}
    /\ avalue = <<>>
    /\ rvalue = Junk
    /\ result = <<>>
    /\ plan = <<>>

\* The bit that tells which registers a structure is returned in.
ResultBit_Swapped(t) ==
    LET sse0 == Is(t, 1, SSE)
        sse1 == examine_argument(t, TRUE) = 2 /\ Is(t, 2, SSE)
    IN  IF t \notin Structs \/ ~(sse0 \/ sse1) THEN 0
        ELSE IF ~sse0 THEN 8 ELSE IF ~sse1 THEN 9 ELSE 10
ResultBit(t) ==
    LET sse0 == Is(t, 1, SSE)
        sse1 == examine_argument(t, TRUE) = 2 /\ Is(t, 2, SSE)
    IN  IF t \notin Structs \/ ~(sse0 \/ sse1) THEN 0
        ELSE IF ~sse1 THEN 8 ELSE IF ~sse0 THEN 9 ELSE 10

\* ffi_prep_cif_machdep before the arguments: a pointer to the result's memory takes a
\* register, and there is nothing to be done in asm for the return.
prep_return ==
    /\ pc = "prep" /\ i = 0
    /\ i' = 1
    /\ IF ReturnsInMemory
       THEN gprcount' = gprcount + 1 /\ UNCHANGED flags
       ELSE /\ UNCHANGED gprcount
            /\ flags' = [flags EXCEPT !.type = rtype,
                                      !.bit = IF rtype = Void THEN 0 ELSE ResultBit(rtype)]
    /\ plan' = <<[gpr |-> gprcount', sse |-> ssecount, bytes |-> bytes]>>
    /\ UNCHANGED <<cif, pc, ssecount, bytes, argp, passed, avalue, rvalue, result>>

\* One argument is counted.
prep_argument ==
    /\ pc = "prep" /\ i \in 1 .. Len(types)
    /\ LET t == types[i] IN
        IF InRegisters(t)
        THEN /\ gprcount' = gprcount + Need(t, Integer)
             /\ ssecount' = ssecount + Need(t, SSE)
             /\ UNCHANGED bytes
        ELSE /\ bytes' = ALIGN(bytes, Align(t)) + Size[t]
             /\ UNCHANGED <<gprcount, ssecount>>
    /\ plan' = Append(plan, [gpr |-> gprcount', sse |-> ssecount', bytes |-> bytes'])
    /\ i' = i + 1
    /\ UNCHANGED <<cif, pc, flags, argp, passed, avalue, rvalue, result>>

prep_end ==
    /\ pc = "prep" /\ i = Len(types) + 1
    /\ flags' = [flags EXCEPT !.sse = ssecount # 0]
    /\ bytes' = ALIGN(bytes, 8)
    /\ pc' = "call"
    /\ i' = 0
    /\ UNCHANGED <<cif, gprcount, ssecount, plan, argp, passed, avalue, rvalue, result>>

-----------------------------------------------------------------------------
\* ffi_call before the arguments.
call_begin ==
    /\ pc = "call" /\ i = 0
    /\ i' = 1
    /\ IF rtype \in Structs /\ flags.type = Void
       THEN gpr' = <<RValue>> /\ gprcount' = 1
       ELSE gpr' = <<>> /\ gprcount' = 0
    /\ ssecount' = 0
    /\ argp' = Arguments
    /\ UNCHANGED <<cif, pc, prepared, sse, memory, avalue, rvalue, result>>

\* Pass an argument in memory.
call_memory ==
    /\ pc = "call" /\ i \in 1 .. Len(types)
    /\ ~InRegisters(types[i])
    /\ LET address == ALIGN(argp, Align(types[i]))
       IN  /\ memory' = memory \cup {[argument |-> i, address |-> address]}
           /\ argp' = address + Size[types[i]]
    /\ i' = i + 1
    /\ UNCHANGED <<cif, pc, gprcount, ssecount, prepared, gpr, sse, avalue, rvalue, result>>

\* The words of argument a of classes S.
Part(a, t, S) ==
    (IF Is(t, 1, S) THEN << <<a, 1>> >> ELSE <<>>) \o (IF Is(t, 2, S) THEN << <<a, 2>> >> ELSE <<>>)

\* The argument is passed entirely in registers.
call_registers ==
    /\ pc = "call" /\ i \in 1 .. Len(types)
    /\ LET t == types[i] IN
        /\ InRegisters(t)
        /\ ~Is(t, 1, {"NO"}) /\ ~Is(t, 2, {"NO"})
        /\ gpr' = gpr \o Part(i, t, Integer)
        /\ sse' = sse \o Part(i, t, SSE)
        /\ gprcount' = gprcount + Need(t, Integer)
        /\ ssecount' = ssecount + Need(t, SSE)
    /\ i' = i + 1
    /\ UNCHANGED <<cif, pc, argp, prepared, memory, avalue, rvalue, result>>

\* A word of another class is abort().
call_abort ==
    /\ pc = "call" /\ i \in 1 .. Len(types)
    /\ InRegisters(types[i])
    /\ Is(types[i], 1, {"NO"}) \/ Is(types[i], 2, {"NO"})
    /\ pc' = "aborted"
    /\ UNCHANGED <<cif, i, gprcount, ssecount, argp, prepared, passed, avalue, rvalue, result>>

\* ffi_call_unix64 up to the call: all registers are loaded, the SSE registers if there is an
\* argument in them.
call_function ==
    /\ pc = "call" /\ i = Len(types) + 1
    /\ pc' = callee
    /\ i' = 0
    /\ UNCHANGED <<cif, gprcount, ssecount, argp, prepared, passed, avalue, rvalue, result>>

-----------------------------------------------------------------------------
\* ffi_closure_unix64, and ffi_closure_unix64_inner before the arguments.  The SSE registers
\* are saved if the trampoline, made after bit 11 of the flags, has set the carry flag.
Saved == IF flags.sse THEN sse ELSE <<>>

closure_begin ==
    /\ pc = "closure" /\ i = 0
    /\ i' = 1
    /\ IF ReturnsInMemory
       THEN rvalue' = Found(gpr, 1) /\ gprcount' = 1
       ELSE UNCHANGED rvalue /\ gprcount' = 0
    /\ ssecount' = 0
    /\ argp' = Arguments
    /\ UNCHANGED <<cif, pc, prepared, passed, avalue, result>>

closure_memory_Unaligned ==
    /\ pc = "closure" /\ i \in 1 .. Len(types)
    /\ ~InRegisters(types[i])
    /\ avalue' = Append(avalue, <<argp>>)
    /\ argp' = argp + Size[types[i]]
    /\ i' = i + 1
    /\ UNCHANGED <<cif, pc, gprcount, ssecount, prepared, passed, rvalue, result>>
closure_memory ==
    /\ pc = "closure" /\ i \in 1 .. Len(types)
    /\ ~InRegisters(types[i])
    /\ LET address == ALIGN(argp, Align(types[i]))
       IN  /\ avalue' = Append(avalue, <<address>>)
           /\ argp' = address + Size[types[i]]
    /\ i' = i + 1
    /\ UNCHANGED <<cif, pc, gprcount, ssecount, prepared, passed, rvalue, result>>

\* A single register, or two consecutive integer registers, are used where they are saved.
closure_register ==
    /\ pc = "closure" /\ i \in 1 .. Len(types)
    /\ LET t == types[i]
           n == Len(Classes[t]) IN
        /\ InRegisters(t)
        /\ n = 1 \/ (n = 2 /\ Need(t, SSE) = 0)
        /\ IF Is(t, 1, SSE)
           THEN /\ avalue' = Append(avalue, <<Found(Saved, ssecount + 1)>>)
                /\ ssecount' = ssecount + n
                /\ UNCHANGED gprcount
           ELSE /\ avalue' = Append(avalue, [w \in 1 .. n |-> Found(gpr, gprcount + w)])
                /\ gprcount' = gprcount + n
                /\ UNCHANGED ssecount
    /\ i' = i + 1
    /\ UNCHANGED <<cif, pc, argp, prepared, passed, rvalue, result>>

\* Otherwise the words are copied to make them consecutive.
closure_registers ==
    /\ pc = "closure" /\ i \in 1 .. Len(types)
    /\ LET t == types[i] IN
        /\ InRegisters(t)
        /\ Len(Classes[t]) = 2 /\ Need(t, SSE) # 0
        /\ avalue' = Append(avalue,
             << IF Is(t, 1, SSE) THEN Found(Saved, ssecount + 1) ELSE Found(gpr, gprcount + 1),
                IF Is(t, 2, SSE) THEN Found(Saved, ssecount + Need(t, SSE))
                                 ELSE Found(gpr, gprcount + 2 - Need(t, SSE)) >>)
        /\ gprcount' = gprcount + 2 - Need(t, SSE)
        /\ ssecount' = ssecount + Need(t, SSE)
    /\ i' = i + 1
    /\ UNCHANGED <<cif, pc, argp, prepared, passed, rvalue, result>>

-----------------------------------------------------------------------------
Word(w) == <<0, w>>
Nowhere == [rax |-> Junk, rdx |-> Junk, xmm0 |-> Junk, xmm1 |-> Junk, st0 |-> Junk]

\* Where a closure leaves a result of type t that is not in memory: ret of
\* ffi_closure_unix64_inner, and .Lload_table.
ClosureResult(t) ==
    IF t \in Structs
    THEN LET two == Len(Classes[t]) = 2 /\ examine_argument(t, TRUE) = 2
             bit8 == two /\ ~Is(t, 1, SSE) /\ Is(t, 2, SSE)
             bit9 == two /\ Is(t, 1, SSE) /\ ~Is(t, 2, SSE)
         IN  [Nowhere EXCEPT !.rax = Word(IF bit9 THEN 2 ELSE 1), !.rdx = Word(2),
                             !.xmm0 = Word(IF bit8 THEN 2 ELSE 1), !.xmm1 = Word(2)]
    ELSE IF Is(t, 1, X87) THEN [Nowhere EXCEPT !.st0 = Word(1)]
    ELSE IF Is(t, 1, SSE) THEN [Nowhere EXCEPT !.xmm0 = Word(1)]
    ELSE [Nowhere EXCEPT !.rax = Word(1)]

\* Where a compiler leaves it: each word in the next register of its class.
CompiledResult(t) ==
    LET integers == Part(0, t, Integer)
        sses == Part(0, t, SSE)
    IN  [rax |-> Found(integers, 1), rdx |-> Found(integers, 2),
         xmm0 |-> Found(sses, 1), xmm1 |-> Found(sses, 2),
         st0 |-> IF Is(t, 1, X87) THEN Word(1) ELSE Junk]

\* .Lstore_table: what the caller's memory gets from registers r.
Stored(r) ==
    IF flags.type = Void THEN <<>>
    ELSE IF flags.type \in Structs
    THEN CASE flags.bit = 8 -> <<r.xmm0, r.rax>>
           [] flags.bit = 9 -> <<r.rax, r.xmm0>>
           [] flags.bit = 10 -> <<r.xmm0, r.xmm1>>
           [] OTHER -> <<r.rax, r.rdx>>
    ELSE IF Is(flags.type, 1, X87) THEN <<r.st0>>
    ELSE IF Is(flags.type, 1, SSE) THEN <<r.xmm0>>
    ELSE <<r.rax>>

closure_return ==
    /\ pc = "closure" /\ i = Len(types) + 1
    /\ result' = Stored(IF rtype = Void \/ ReturnsInMemory THEN Nowhere ELSE ClosureResult(rtype))
    /\ pc' = "done"
    /\ UNCHANGED <<cif, i, gprcount, ssecount, argp, prepared, passed, avalue, rvalue>>

compiled_return ==
    /\ pc = "compiled"
    /\ rvalue' = IF ReturnsInMemory THEN Found(gpr, 1) ELSE rvalue
    /\ result' = Stored(IF rtype = Void \/ ReturnsInMemory THEN Nowhere ELSE CompiledResult(rtype))
    /\ pc' = "done"
    /\ UNCHANGED <<cif, i, gprcount, ssecount, argp, prepared, passed, avalue>>

Next ==
    \/ prep_return \/ prep_argument \/ prep_end
    \/ call_begin \/ call_memory \/ call_registers \/ call_abort \/ call_function
    \/ closure_begin \/ closure_memory \/ closure_register \/ closure_registers
    \/ closure_return \/ compiled_return

Spec == Init /\ [][Next]_vars

-----------------------------------------------------------------------------
Place == [gpr : 0 .. MAX_GPR_REGS, sse : 0 .. MAX_SSE_REGS, bytes : Nat]

\* The variables keep their types; what each function counts stays within the registers.
TypeOK ==
    /\ rtype \in Types \cup {Void}
    /\ types \in ArgumentLists
    /\ callee \in {"closure", "compiled"}
    /\ pc \in {"prep", "call", "closure", "compiled", "done", "aborted"}
    /\ i \in 0 .. Len(types) + 1
    /\ gprcount \in 0 .. MAX_GPR_REGS
    /\ ssecount \in 0 .. MAX_SSE_REGS
    /\ bytes \in Nat /\ argp \in Nat
    /\ flags \in [type : Types \cup {Void}, bit : {0, 8, 9, 10}, sse : BOOLEAN]
    /\ plan \in Seq(Place)

\* ffi_call writes within what it has allocated: the arguments in memory end before the
\* frame that ffi_call_unix64 builds behind cif->bytes, and no register is written past
\* the end of its array, though the room was counted by another function.
NoOverrun ==
    pc = "call" /\ i > 0 =>
        /\ argp <= Arguments + bytes
        /\ Len(gpr) <= MAX_GPR_REGS
        /\ Len(sse) <= MAX_SSE_REGS

End(m) == m.address + Size[types[m.argument]]

\* No argument in memory overlaps another one, and each lies where its type is aligned.
MemoryApart ==
    \A m \in memory :
        /\ m.address % Alignment[types[m.argument]] = 0
        /\ \A n \in memory : m = n \/ End(m) <= n.address \/ End(n) <= m.address

\* Argument a, when the closure has found it: the address of its copy, or all its words.
Whole(a) ==
    IF \E m \in memory : m.argument = a
    THEN [argument |-> a, address |-> avalue[a][1]] \in memory
    ELSE avalue[a] = [w \in 1 .. Len(Classes[types[a]]) |-> <<a, w>>]

\* A closure finds every argument of ffi_call whole and where it was put, whatever mixture of
\* integer, SSE and memory arguments comes before it: when an argument does not fit, later
\* and smaller ones still go to the registers that are left.
ArgumentsArrive ==
    pc \in {"closure", "done"} => \A a \in DOMAIN avalue : Whole(a)

\* A type without what ffi64.c gets wrong: every word of a structure has a class of registers
\* (no word was forgotten, and it is no structure of nothing but a long double), and what is
\* no structure is one word or a long double.
Ordinary(t) ==
    IF t \in Structs
    THEN \A w \in 1 .. Len(Classes[t]) : Classes[t][w] \in Integer \cup SSE
    ELSE \/ Classes[t] = <<"X87", "X87UP">>
         \/ Len(Classes[t]) = 1 /\ Classes[t][1] \in Integer \cup SSE

\* Through the pointer that was passed, or each word from the register it was left in.
ResultArrives ==
    IF ReturnsInMemory THEN rvalue = RValue
    ELSE \A w \in DOMAIN Classes[rtype] :
            Classes[rtype][w] \in Integer \cup SSE \cup {"X87"} => result[w] = Word(w)

\* The result of an ordinary type is where the caller expects it, from a closure or from
\* compiled code: the bits of the flags, of which one word takes one and two words a pair, say
\* of every structure which registers it is in (ffi64.c:375-386).
ResultFound == pc = "done" /\ rtype # Void /\ Ordinary(rtype) => ResultArrives

\* "Mark which registers the result appears in." (ffi64.c:377), whatever the type is.  But a
\* structure of one long double has no bit of its own: compiled code leaves it in st(0), and
\* the assembly code stores rax.
EveryResultFound == pc = "done" /\ rtype # Void => ResultArrives
=============================================================================
