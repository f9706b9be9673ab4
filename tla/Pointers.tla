------------------------------ MODULE Pointers ------------------------------
(***************************************************************************)
(* The C arrays that objects of class CNA.CNA make from strings and        *)
(* streams and free when they are closed (ConvertStringToPointer,          *)
(* ConvertStreamToPointer, %OnNew and %OnClose in cna.xml, on top of       *)
(* string_to_pointer, append_to_pointer and free_pointer in cna.c).        *)
(*                                                                         *)
(* A process has one thread, but stream.Read is code of the stream's       *)
(* class, which may itself use CNA objects: stack holds the conversions of *)
(* streams that wait for Read, innermost last, and whatever is done while  *)
(* it is not empty is done by the innermost Read.                          *)
(***************************************************************************)
EXTENDS Integers, Sequences

CONSTANTS
    Object,         \* the CNA objects of a process
    Addr,           \* addresses malloc can return
    NULL,           \* the null pointer
    Junk,           \* what a byte nobody has written holds
    Characters,     \* the characters of strings and streams; 0 ends a C string
    MaxText,        \* bound on the length of a string or stream
    MaxArrays,      \* bound on the number of arrays an object makes
    MaxDepth        \* bound on the number of conversions that wait for Read

ASSUME PointersAssumption ==
    /\ NULL \notin Addr
    /\ Characters \subseteq Nat
    /\ Junk \notin Nat
    /\ MaxText \in Nat /\ MaxArrays \in Nat /\ MaxDepth \in Nat

VARIABLES
    alive,              \* the process has not been killed
    phase,              \* of each object: "closed" (or not created yet), "open", "draining"
    AllocatedMemory,    \* of each object: the list of pointers it will free
    origin,             \* of each object: the texts these pointers were made from (history)
    freed,              \* of each object: how many of them %OnClose has freed
    heap,               \* contents of the live blocks, by address
    stack,              \* the conversions of streams in progress
    lost                \* blocks a conversion had when an exception ended it (history)

objects == <<phase, AllocatedMemory, origin, freed>>
vars == <<alive, objects, heap, stack, lost>>

Init ==
    /\ alive = TRUE
    /\ phase = [o \in Object |-> "closed"]
    /\ AllocatedMemory = [o \in Object |-> <<>>]
    /\ origin = [o \in Object |-> <<>>]
    /\ freed = [o \in Object |-> 0]
    /\ heap = [a \in {} |-> <<>>]
    /\ stack = <<>>
    /\ lost = {}

-----------------------------------------------------------------------------
NUL == 0
Strings(m) == UNION {[1 .. l -> Characters] : l \in 0 .. m}

\* strlen: the bytes in front of the first NUL, where C sees the string end.
strlen(s) ==
    CHOOSE l \in 0 .. Len(s) :
        /\ l = Len(s) \/ s[l + 1] = NUL
        /\ \A k \in 1 .. l : s[k] # NUL

Put(h, a, bytes) == [x \in DOMAIN h \cup {a} |-> IF x = a THEN bytes ELSE h[x]]
Drop(h, a) == [x \in DOMAIN h \ {a} |-> h[x]]

\* The bytes of the array string_to_pointer makes.
string_to_pointer_NoRoom(s) == SubSeq(s, 1, strlen(s))
string_to_pointer(s) == SubSeq(s, 1, strlen(s)) \o <<NUL>>

\* The bytes of the array after append_to_pointer: realloc keeps what was there,
\* strcpy writes from oldsize on.
append_to_pointer(old, oldsize, s) ==
    [x \in 1 .. oldsize + strlen(s) + 1 |->
        CASE x <= oldsize               -> IF x <= Len(old) THEN old[x] ELSE Junk
          [] x = oldsize + strlen(s) + 1 -> NUL
          [] OTHER                      -> s[x - oldsize]]

\* free(p) of free_pointer: NULL is ignored.
free_pointer(h, p) == Drop(h, p)

\* Insert(pointer) in an object's list, and the text it was made from.
Insert(o, p, text) ==
    /\ AllocatedMemory' = [AllocatedMemory EXCEPT ![o] = Append(@, p)]
    /\ origin' = [origin EXCEPT ![o] = Append(@, text)]
    /\ UNCHANGED <<phase, freed>>

\* The process runs code that may use CNA: no %OnClose is in the middle of its loop.
Running == alive /\ \A o \in Object : phase[o] # "draining"

\* o is open, and MaxArrays leaves room for the arrays in the making and one more.
MayConvert(o) ==
    /\ Running
    /\ phase[o] = "open"
    /\ Len(AllocatedMemory[o]) + Len(stack) < MaxArrays

-----------------------------------------------------------------------------
OnNew(o) ==
    /\ Running
    /\ phase[o] = "closed"
    /\ phase' = [phase EXCEPT ![o] = "open"]
    /\ UNCHANGED <<alive, AllocatedMemory, origin, freed, heap, stack, lost>>

\* malloc is not tested: strcpy to NULL kills the process.
ConvertStringToPointer(o) ==
    /\ MayConvert(o)
    /\ \/ \E s \in Strings(MaxText), a \in Addr \ DOMAIN heap :
            /\ heap' = Put(heap, a, string_to_pointer(s))
            /\ Insert(o, a, s)
            /\ UNCHANGED <<alive, stack, lost>>
       \/ /\ alive' = FALSE
          /\ UNCHANGED <<objects, heap, stack, lost>>

\* ConvertStreamToPointer, up to its first call of Read.
ConvertStreamToPointer(o) ==
    /\ MayConvert(o)
    /\ Len(stack) < MaxDepth
    /\ stack' = Append(stack, [object |-> o, pointer |-> NULL, fullLen |-> 0, text |-> <<>>])
    /\ UNCHANGED <<alive, objects, heap, lost>>

\* The conversion whose Read is running, and the conversions that called it.
top == stack[Len(stack)]
callers == SubSeq(stack, 1, Len(stack) - 1)

\* An exception ends the conversion: only its local variable knew the array.
Throw ==
    /\ stack' = callers
    /\ lost' = lost \cup ({top.pointer} \ {NULL})
    /\ UNCHANGED <<alive, objects, heap>>

\* realloc moved the array to d, or kept it there, and strcpy appended s.
Appended(d, s) ==
    heap' = Put(Drop(heap, top.pointer), d,
                append_to_pointer(IF top.pointer = NULL THEN <<>> ELSE heap[top.pointer],
                                  top.fullLen, s))

\* Where realloc may put the array.
Places == ({top.pointer} \ {NULL}) \cup (Addr \ DOMAIN heap)

\* Read returned the string s.
FullLength_WithNul(s) == top.fullLen + Len(s) + 1
FullLength(s) == top.fullLen + Len(s)

ReadChunk ==
    /\ \E s \in Strings(MaxText - Len(top.text)) \ {<<>>} :
        \/ \E d \in Places :
            /\ Appended(d, s)
            /\ stack' = Append(callers,
                            [object |-> top.object, pointer |-> d,
                             fullLen |-> FullLength(s), text |-> top.text \o s])
            /\ UNCHANGED <<alive, objects, lost>>
        \/ Throw

\* Read found the stream at its end, and returned the empty string.
EndOfStream_Loops ==
    \E d \in Places :
        /\ Appended(d, <<>>)
        /\ stack' = Append(callers, [top EXCEPT !.pointer = d])
        /\ UNCHANGED <<alive, objects, lost>>
EndOfStream ==
    \/ \E d \in Places :
        /\ Appended(d, <<>>)
        /\ Insert(top.object, d, top.text)
        /\ stack' = callers
        /\ UNCHANGED <<alive, lost>>
    \/ Throw

\* Read reported an error: the array so far is listed before the exception is thrown.
ReadError_Unlisted ==
    /\ stack' = callers
    /\ UNCHANGED <<alive, objects, heap, lost>>
ReadError_NotThrown ==
    /\ Insert(top.object, top.pointer, top.text)
    /\ UNCHANGED <<alive, heap, stack, lost>>
ReadError ==
    /\ Insert(top.object, top.pointer, top.text)
    /\ stack' = callers
    /\ UNCHANGED <<alive, heap, lost>>

\* Read of the k-th conversion of the stack returns, or throws an exception itself.
ReadReturns(k) ==
    /\ Running
    /\ Len(stack) = k
    /\ \/ ReadChunk
       \/ EndOfStream
       \/ ReadError
       \/ Throw

\* %OnClose, called when the last reference goes: not while a method is running.
OnClose(o) ==
    /\ Running
    /\ phase[o] = "open"
    /\ \A k \in 1 .. Len(stack) : stack[k].object # o
    /\ phase' = [phase EXCEPT ![o] = "draining"]
    /\ UNCHANGED <<alive, AllocatedMemory, origin, freed, heap, stack, lost>>

\* %OnClose, one iteration of its loop.
OnClose_free(o) ==
    /\ phase[o] = "draining"
    /\ freed[o] < Len(AllocatedMemory[o])
    /\ heap' = free_pointer(heap, AllocatedMemory[o][freed[o] + 1])
    /\ freed' = [freed EXCEPT ![o] = @ + 1]
    /\ UNCHANGED <<alive, phase, AllocatedMemory, origin, stack, lost>>

\* %OnClose returns, and the object is gone.
OnClose_end_Early(o) ==
    /\ phase[o] = "draining"
    /\ phase' = [phase EXCEPT ![o] = "closed"]
    /\ AllocatedMemory' = [AllocatedMemory EXCEPT ![o] = <<>>]
    /\ origin' = [origin EXCEPT ![o] = <<>>]
    /\ freed' = [freed EXCEPT ![o] = 0]
    /\ UNCHANGED <<alive, heap, stack, lost>>
OnClose_end(o) ==
    /\ phase[o] = "draining"
    /\ freed[o] = Len(AllocatedMemory[o])
    /\ phase' = [phase EXCEPT ![o] = "closed"]
    /\ AllocatedMemory' = [AllocatedMemory EXCEPT ![o] = <<>>]
    /\ origin' = [origin EXCEPT ![o] = <<>>]
    /\ freed' = [freed EXCEPT ![o] = 0]
    /\ UNCHANGED <<alive, heap, stack, lost>>

Closing(o) == OnClose_free(o) \/ OnClose_end(o)

Next ==
    \/ \E o \in Object :
        \/ OnNew(o)
        \/ ConvertStringToPointer(o)
        \/ ConvertStreamToPointer(o)
        \/ OnClose(o)
        \/ Closing(o)
    \/ \E k \in 1 .. MaxDepth : ReadReturns(k)

\* A loop of %OnClose runs on.  Every call of Read returns, even if it uses CNA itself,
\* and MaxText makes streams finite.
Fairness ==
    /\ \A o \in Object : WF_vars(Closing(o))
    /\ \A k \in 1 .. MaxDepth : SF_vars(ReadReturns(k))

Spec == Init /\ [][Next]_vars /\ Fairness

-----------------------------------------------------------------------------
\* The entries of its list an object still has to free.
Pending(o) == freed[o] + 1 .. Len(AllocatedMemory[o])
Listed(o) == {AllocatedMemory[o][k] : k \in Pending(o)} \ {NULL}

\* The arrays of conversions in progress.
Local == {stack[k].pointer : k \in 1 .. Len(stack)} \ {NULL}

Owned == Local \cup UNION {Listed(o) : o \in Object}

(* Type invariant. *)
TypeOK ==
    /\ alive \in BOOLEAN
    /\ phase \in [Object -> {"closed", "open", "draining"}]
    /\ DOMAIN AllocatedMemory = Object /\ DOMAIN origin = Object
    /\ \A o \in Object :
        /\ AllocatedMemory[o] \in Seq(Addr \cup {NULL})
        /\ origin[o] \in Seq(Seq(Characters))
        /\ Len(origin[o]) = Len(AllocatedMemory[o])
    /\ freed \in [Object -> Nat]
    /\ \A o \in Object : freed[o] <= Len(AllocatedMemory[o])
    /\ DOMAIN heap \subseteq Addr
    /\ \A a \in DOMAIN heap : heap[a] \in Seq(Characters \cup {NUL, Junk})
    /\ stack \in Seq([object : Object, pointer : Addr \cup {NULL},
                      fullLen : Nat, text : Seq(Characters)])
    /\ lost \subseteq Addr

(* No array is freed twice, whichever objects are closed in whichever order,  *)
(* conversions are nested and addresses are used again: what is still to be   *)
(* freed is live, and every live block has one owner - one entry of the list  *)
(* of one object, or one conversion in progress (cna.xml:560-562, 617,        *)
(* 648-655).                                                                  *)
OneOwner ==
    /\ Owned \subseteq DOMAIN heap \ lost
    /\ \A o \in Object : \A k \in Pending(o) :
        LET p == AllocatedMemory[o][k]
        IN  p # NULL =>
                /\ p \notin Local
                /\ \A q \in Object : \A l \in Pending(q) :
                    AllocatedMemory[q][l] = p => q = o /\ l = k
    /\ \A k, l \in 1 .. Len(stack) :
        stack[k].pointer = stack[l].pointer /\ stack[k].pointer # NULL => k = l

(* Nothing is out of every owner's reach but the arrays of conversions that   *)
(* an exception ended - Read threw one, or append_to_pointer failed: an error *)
(* that Read reports loses nothing (cna.xml:646-651).                         *)
OnlyExceptionsLeak == DOMAIN heap \subseteq Owned \cup lost

\* What a pointer leads to is the text as a C string: all its bytes, then NUL.
Holds(p, text) == heap[p] = text \o <<NUL>>
HasNoNul(text) == \A k \in 1 .. Len(text) : text[k] # NUL

(* A text without NUL arrives whole and in order, however Read cuts it into   *)
(* strings and realloc moves the array, and even if an error cuts it off: all *)
(* arrays, made or in the making, hold what was read so far.  (A conversion   *)
(* that has read nothing has no array.)  (cna.c:463-489, cna.xml:644-655)     *)
TextArrives ==
    /\ \A o \in Object : \A k \in Pending(o) :
        LET p == AllocatedMemory[o][k]
        IN  HasNoNul(origin[o][k]) =>
                IF p = NULL THEN origin[o][k] = <<>> ELSE Holds(p, origin[o][k])
    /\ \A k \in 1 .. Len(stack) :
        LET f == stack[k]
        IN  HasNoNul(f.text) =>
                IF f.pointer = NULL THEN f.text = <<>> ELSE Holds(f.pointer, f.text)

(* Whatever the text, NULs or none, a C string ends inside the array, at any  *)
(* time: pointer_to_string, or a native function that takes a string, never   *)
(* reads beyond it (cna.c:379-390, 373-374, 477-484).                         *)
Terminated == \A a \in DOMAIN heap : heap[a] # <<>> /\ heap[a][Len(heap[a])] = NUL

(* A pointer the client was given stays good until its own object is closed:  *)
(* no conversion, no realloc and no other object's %OnClose moves, frees or   *)
(* changes the array (cna.xml:554-562, 651).                                  *)
ClientsArraysStay ==
    [][\A o \in Object :
        phase[o] = "open" /\ phase'[o] = "open" =>
            \A p \in Listed(o) : p \in DOMAIN heap' /\ heap'[p] = heap[p]]_vars

(* A conversion ends, however Read nests others in it (cna.xml:644-655).      *)
ConversionEnds == stack # <<>> ~> stack = <<>> \/ ~alive

(* Each object is to its client an arena: it hands out arrays as long as it   *)
(* is open, and is closed only when each of them has been freed once.         *)
Promise(o) == INSTANCE Arena WITH
    Block <- Addr,
    phase <- IF alive \/ phase[o] = "closed" THEN phase[o] ELSE "lost",
    live <- Listed(o)
ImplementsArena ==
    /\ \A o \in Object : Promise(o)!Init
    /\ [][\A o \in Object : [Promise(o)!Next]_(Promise(o)!arenaVars)]_vars
=============================================================================
