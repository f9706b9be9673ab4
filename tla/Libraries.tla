------------------------------ MODULE Libraries ------------------------------
(***************************************************************************)
(* The libraries a process has loaded through CNA objects: libcna itself,  *)
(* loaded by %OnNew and unloaded by %OnClose, which needs it for every     *)
(* array it frees; and the client's libraries, which LoadLibrary opens and *)
(* FreeLibrary closes through a handle kept in LibId (cna.xml:511-571,     *)
(* cna.c:82-106, 338-359).                                                 *)
(*                                                                         *)
(* The loader counts references: all objects that load one library have    *)
(* the same handle, and a handle that was closed for good may be given to  *)
(* another library.  Whether a handle is good cannot be seen from it.      *)
(***************************************************************************)
EXTENDS Integers, Sequences, FiniteSets

CONSTANTS
    Object,         \* the CNA objects of a process
    Library,        \* the native libraries, by path
    Resident,       \* the libraries the process itself holds open, such as libc
    Handle,         \* handles dlopen can return
    NoHandle,       \* LibId of an object that has loaded nothing
    OneAtATime,     \* clients free a library before they load another, and only once
    MaxLoads,       \* bound on the references to one library
    Array,          \* the arrays the C heap has room for
    MaxLost         \* bound on the references of each kind that errors lose

ASSUME LibrariesAssumption ==
    /\ IsFiniteSet(Object)
    /\ Resident \subseteq Library
    /\ NoHandle \notin Handle /\ NoHandle \notin Library
    /\ OneAtATime \in BOOLEAN
    /\ MaxLoads \in Nat /\ MaxLost \in Nat

VARIABLES
    alive,          \* the process has not been killed
    phase,          \* of each object: "absent", "open", "draining" (in %OnClose)
    LibId,          \* of each object: its handle
    arrays,         \* of each object: the arrays it has not freed
    heap,           \* the arrays allocated
    cna,            \* references to libcna
    table,          \* the loader: of each open handle its library and references
    held,           \* of each object: the libraries loaded and not freed (history)
    found,          \* where the last CallFunction found its function (history)
    abandoned,      \* of each library: references of objects that are gone (history)
    orphans,        \* arrays of objects that are gone (history)
    lost            \* references to libcna nobody returns (history)

client == <<LibId, table, held, found>>
history == <<abandoned, orphans, lost>>
vars == <<alive, phase, client, arrays, heap, cna, history>>

Init ==
    /\ alive = TRUE
    /\ phase = [o \in Object |-> "absent"]
    /\ LibId = [o \in Object |-> NoHandle]
    /\ arrays = [o \in Object |-> {}]
    /\ heap = {}
    /\ cna = 0
    /\ \E h \in [Resident -> Handle] :
        /\ \A l, m \in Resident : h[l] = h[m] => l = m
        /\ table = [g \in {h[l] : l \in Resident} |->
                        [library |-> CHOOSE l \in Resident : h[l] = g, references |-> 1]]
    /\ held = [o \in Object |-> <<>>]
    /\ found = NoHandle
    /\ abandoned = [l \in Library |-> 0]
    /\ orphans = {}
    /\ lost = 0

-----------------------------------------------------------------------------
\* dlopen(l) returns h: the handle l has already, or one that nothing has.
dlopen(l, h) ==
    \/ /\ h \in DOMAIN table
       /\ table[h].library = l
       /\ table[h].references < MaxLoads
       /\ table' = [table EXCEPT ![h].references = @ + 1]
    \/ /\ h \notin DOMAIN table
       /\ \A g \in DOMAIN table : table[g].library # l
       /\ table' = [g \in DOMAIN table \cup {h} |->
                        IF g = h THEN [library |-> l, references |-> 1] ELSE table[g]]

\* dlclose(h) of an open handle: the last reference unloads the library.
dlclose(h) ==
    table' = IF table[h].references > 1
             THEN [table EXCEPT ![h].references = @ - 1]
             ELSE [g \in DOMAIN table \ {h} |-> table[g]]

\* A method of o runs.
Open(o) == alive /\ phase[o] = "open"

\* How often o holds l.
Holds(o, l) == Cardinality({k \in DOMAIN held[o] : held[o][k] = l})

-----------------------------------------------------------------------------
\* %OnNew.  An error before libcna is loaded changes nothing.
OnNew(o) ==
    /\ alive
    /\ phase[o] = "absent"
    /\ cna' = cna + 1
    /\ phase' = [phase EXCEPT ![o] = "open"]
    /\ UNCHANGED <<alive, client, arrays, heap, history>>

\* An error after libcna is loaded: %OnNew returns the status.  The object that was
\* not finished is closed like any other, or it is simply dropped.
OnNew_error(o) ==
    /\ alive
    /\ phase[o] = "absent"
    /\ cna' = cna + 1
    /\ \/ /\ phase' = [phase EXCEPT ![o] = "draining"]
          /\ UNCHANGED lost
       \/ /\ lost < MaxLost
          /\ lost' = lost + 1
          /\ UNCHANGED phase
    /\ UNCHANGED <<alive, client, arrays, heap, abandoned, orphans>>

\* ConvertStringToPointer and ConvertStreamToPointer, for what %OnClose will free.
MakeArray(o) ==
    /\ Open(o)
    /\ \E a \in Array \ heap :
        /\ heap' = heap \cup {a}
        /\ arrays' = [arrays EXCEPT ![o] = @ \cup {a}]
    /\ UNCHANGED <<alive, phase, client, cna, history>>

\* LoadLibrary.  If dlopen fails nothing changes, LibId included.
LoadLibrary_Shared(o, l) ==
    /\ Open(o)
    /\ \E h \in Handle : dlopen(l, h) /\ LibId' = [p \in Object |-> h]
    /\ held' = [held EXCEPT ![o] = Append(@, l)]
    /\ UNCHANGED <<alive, phase, arrays, heap, cna, found, history>>
LoadLibrary(o, l) ==
    /\ Open(o)
    /\ \E h \in Handle : dlopen(l, h) /\ LibId' = [LibId EXCEPT ![o] = h]
    /\ held' = [held EXCEPT ![o] = Append(@, l)]
    /\ UNCHANGED <<alive, phase, arrays, heap, cna, found, history>>

\* FreeLibrary, of whatever LibId has been left at: only an empty one is refused.  On a closed
\* handle dlclose reports an error, which changes nothing, or is the end of the process; a
\* handle that was closed and has been given out again is another object's.
FreeLibrary_KeptOpen(o) ==
    /\ Open(o)
    /\ LibId[o] # NoHandle
    /\ held' = [held EXCEPT ![o] = SubSeq(@, 1, Len(@) - 1)]
    /\ UNCHANGED <<alive, phase, LibId, table, found, arrays, heap, cna, history>>
FreeLibrary(o) ==
    /\ Open(o)
    /\ LibId[o] # NoHandle
    /\ IF LibId[o] \in DOMAIN table
       THEN /\ dlclose(LibId[o])
            /\ held' = [held EXCEPT ![o] = SubSeq(@, 1, Len(@) - 1)]
            /\ UNCHANGED alive
       ELSE /\ alive' = FALSE
            /\ UNCHANGED <<table, held>>
    /\ UNCHANGED <<phase, LibId, found, arrays, heap, cna, history>>

\* CallFunction, through LibId in the same way.
CallFunction(o) ==
    /\ Open(o)
    /\ LibId[o] # NoHandle
    /\ IF LibId[o] \in DOMAIN table
       THEN found' = table[LibId[o]].library /\ UNCHANGED alive
       ELSE alive' = FALSE /\ UNCHANGED found
    /\ UNCHANGED <<phase, LibId, table, held, arrays, heap, cna, history>>

\* %OnClose, up to its loop.
OnClose_UnloadsFirst(o) ==
    /\ Open(o)
    /\ \A l \in Library : abandoned[l] + Holds(o, l) <= MaxLost
    /\ phase' = [phase EXCEPT ![o] = "draining"]
    /\ cna' = cna - 1
    /\ UNCHANGED <<alive, client, arrays, heap, history>>
OnClose(o) ==
    /\ Open(o)
    /\ \A l \in Library : abandoned[l] + Holds(o, l) <= MaxLost
    /\ phase' = [phase EXCEPT ![o] = "draining"]
    /\ UNCHANGED <<alive, client, arrays, heap, cna, history>>

\* %OnClose, one iteration of its loop: free_pointer is a function of libcna.
OnClose_free(o) ==
    /\ alive
    /\ phase[o] = "draining"
    /\ cna > 0
    /\ \E a \in arrays[o] :
        /\ heap' = heap \ {a}
        /\ arrays' = [arrays EXCEPT ![o] = @ \ {a}]
    /\ UNCHANGED <<alive, phase, client, cna, history>>

\* The object is gone, and with it all it remembers.  Nobody frees its library.
Gone(o) ==
    /\ phase' = [phase EXCEPT ![o] = "absent"]
    /\ LibId' = [LibId EXCEPT ![o] = NoHandle]
    /\ arrays' = [arrays EXCEPT ![o] = {}]
    /\ held' = [held EXCEPT ![o] = <<>>]
    /\ abandoned' = [l \in Library |-> abandoned[l] + Holds(o, l)]
    /\ UNCHANGED <<alive, heap, found>>

\* %OnClose, after its loop.
OnClose_unload_NotUnloaded(o) ==
    /\ alive
    /\ phase[o] = "draining"
    /\ arrays[o] = {}
    /\ Gone(o)
    /\ UNCHANGED <<table, cna, orphans, lost>>
OnClose_unload_FreesLibrary(o) ==
    /\ alive
    /\ phase[o] = "draining"
    /\ arrays[o] = {}
    /\ cna' = cna - 1
    /\ IF LibId[o] \in DOMAIN table THEN dlclose(LibId[o]) ELSE UNCHANGED table
    /\ Gone(o)
    /\ UNCHANGED <<orphans, lost>>
OnClose_unload(o) ==
    /\ alive
    /\ phase[o] = "draining"
    /\ arrays[o] = {}
    /\ cna' = cna - 1
    /\ Gone(o)
    /\ UNCHANGED <<table, orphans, lost>>

\* A statement of %OnClose throws, before libcna is unloaded.
OnClose_error(o) ==
    /\ alive
    /\ phase[o] = "draining"
    /\ lost < MaxLost
    /\ lost' = lost + 1
    /\ orphans' = orphans \cup arrays[o]
    /\ Gone(o)
    /\ UNCHANGED <<table, cna>>

\* What clients do, of all the methods allow: with OneAtATime they load a library when they
\* have none, and use and free one they have.
MayLoad(o) == Len(held[o]) < IF OneAtATime THEN 1 ELSE MaxLoads
MayUse(o) == OneAtATime => held[o] # <<>>

Next ==
    \E o \in Object :
        \/ OnNew(o)
        \/ OnNew_error(o)
        \/ MakeArray(o)
        \/ \E l \in Library : MayLoad(o) /\ LoadLibrary(o, l)
        \/ MayUse(o) /\ FreeLibrary(o)
        \/ MayUse(o) /\ CallFunction(o)
        \/ OnClose(o)
        \/ OnClose_free(o)
        \/ OnClose_unload(o)
        \/ OnClose_error(o)

Spec == Init /\ [][Next]_vars

-----------------------------------------------------------------------------
Present == {o \in Object : phase[o] # "absent"}

(* Type invariant. *)
TypeOK ==
    /\ alive \in BOOLEAN
    /\ phase \in [Object -> {"absent", "open", "draining"}]
    /\ LibId \in [Object -> Handle \cup {NoHandle}]
    /\ arrays \in [Object -> SUBSET Array] /\ heap \in SUBSET Array
    /\ cna \in Nat
    /\ DOMAIN table \subseteq Handle
    /\ \A h \in DOMAIN table : table[h] \in [library : Library, references : Nat \ {0}]
    /\ held \in [Object -> Seq(Library)]
    /\ found \in Library \cup {NoHandle}
    /\ abandoned \in [Library -> Nat]
    /\ orphans \in SUBSET Array
    /\ lost \in Nat

(* Libcna is loaded as long as an object needs it: no object is in its client's *)
(* hands, and no %OnClose has arrays to free, after the last reference is gone,  *)
(* whichever other objects are closed meanwhile, or were never finished          *)
(* (cna.xml:540, 558-564).                                                       *)
LibcnaServes == Present # {} => cna > 0

(* Each object returns its reference to libcna, and only errors keep it loaded:  *)
(* one in %OnNew after line 540, one in %OnClose before line 564.                *)
OnlyErrorsKeepLibcna == cna = Cardinality(Present) + lost

(* Every array is some object's, until it is freed, or was left by an error in   *)
(* %OnClose; no two objects have the same (cna.xml:560-567).                     *)
OnlyErrorsLeaveArrays ==
    /\ heap = orphans \cup UNION {arrays[o] : o \in Object}
    /\ \A o \in Object :
        /\ arrays[o] \cap orphans = {}
        /\ \A p \in Object \ {o} : arrays[o] \cap arrays[p] = {}

(* The handle of an object that has loaded a library is open and leads to that   *)
(* library, although handles are shared and used again: no other object's        *)
(* FreeLibrary or %OnClose, no failed call of its own and no error takes it away,*)
(* as long as no client frees a library twice or loads one over another          *)
(* (cna.xml:511-528, cna.c:82-106).                                              *)
HandleIsOwn ==
    \A o \in Object : held[o] # <<>> =>
        /\ LibId[o] \in DOMAIN table
        /\ table[LibId[o]].library = held[o][Len(held[o])]

\* The references to each library the process and the clients know of.
Owed ==
    [l \in Library |->
        (IF l \in Resident THEN 1 ELSE 0)
            + Cardinality({o \in Object : held[o] = <<l>>}) + abandoned[l]]

(* The loader holds as many references to each library as its users will return, *)
(* but for those of objects closed before their client freed the library, which  *)
(* %OnClose does not do (cna.xml:554-571); a library that is not loaded is owed  *)
(* to nobody.                                                                    *)
ReferencesMatch ==
    /\ \A h \in DOMAIN table : table[h].references = Owed[table[h].library]
    /\ \A l \in Library : (\A h \in DOMAIN table : table[h].library # l) => Owed[l] = 0
    /\ \A g, h \in DOMAIN table : table[g].library = table[h].library => g = h

(* To its client, each object has a library of its own (module Lease).           *)
Promise == INSTANCE Lease WITH
    NoLibrary <- NoHandle,
    library <- [o \in Object |->
        IF held[o] # <<>> /\ LibId[o] \in DOMAIN table
        THEN table[LibId[o]].library ELSE NoHandle]
ImplementsLease == Promise!Spec
=============================================================================
