------------------------------ MODULE Storage ------------------------------
(***************************************************************************)
(* storage.c: the growable array of pointers in which call_function keeps  *)
(* every ffi_type it builds, so that one free_storage releases them all.   *)
(*                                                                         *)
(* The C heap is the set of live addresses.  malloc returns an address     *)
(* that is not live, or NULL; realloc may move the array or keep it.  No   *)
(* return value of either is tested by this code: a write through a NULL   *)
(* array ends the process, which is the value "lost" of pc.                *)
(***************************************************************************)
EXTENDS Integers

CONSTANTS
    Addr,               \* addresses malloc can return
    NULL,               \* the null pointer
    Junk,               \* what a slot nobody has written holds
    InitialAllocated,   \* x->allocated after init_storage (10 in the source)
    MaxBlocks           \* bound on the calls of alloc between two free_storage

ASSUME PointersAssumption ==
    /\ NULL \notin Addr
    /\ Junk \notin Addr \cup {NULL}

ASSUME SizesAssumption ==
    /\ InitialAllocated \in Nat \ {0}
    /\ MaxBlocks \in Nat

VARIABLES
    pc,         \* "closed" (no storage), "open", "draining" (in free_storage), "lost"
    data,       \* x->data
    n,          \* x->n
    allocated,  \* x->allocated
    slots,      \* contents of the block at data; its domain is that block's capacity
    i,          \* loop index of free_storage
    heap,       \* live addresses
    foreign     \* the live addresses this storage did not allocate

vars == <<pc, data, n, allocated, slots, i, heap, foreign>>

Pointer == Addr \cup {NULL}

Init ==
    /\ pc = "closed"
    /\ data = NULL
    /\ n = 0
    /\ allocated = 0
    /\ slots = [k \in {} |-> Junk]
    /\ i = 0
    /\ foreign \in SUBSET Addr
    /\ heap = foreign

-----------------------------------------------------------------------------
\* What malloc may answer when h is the set of live addresses.
Malloc(h) == (Addr \ h) \cup {NULL}

\* free(p): NULL is ignored.
Free(h, p) == h \ {p}

\* The test that decides whether alloc must enlarge the array first.
Full_TooLate == n > allocated
Full == n = allocated

\* The number of pointers realloc is asked to make room for.
NewCapacity == 2 * allocated

\* What slot k of a reallocated array holds: realloc copies the old block.
NotCarried(k) == Junk
Carried(k) == IF k \in DOMAIN slots THEN slots[k] ELSE Junk

\* The slot that x->data[x->n++] designates.
PreIncremented == n + 1
NextSlot == n

init_storage ==
    /\ pc = "closed"
    /\ pc' = "open"
    /\ n' = 0
    /\ allocated' = InitialAllocated
    /\ data' \in Malloc(heap)
    /\ heap' = heap \cup ({data'} \ {NULL})
    /\ slots' = [k \in 0 .. InitialAllocated - 1 |-> Junk]
    /\ UNCHANGED <<i, foreign>>

\* return x->data[x->n++] = malloc(size), the array being at d with room for
\* capacity pointers and the live addresses being h.  slots is that room and nothing
\* else: what is written behind it shows in n only.
Store(d, capacity, h) ==
    /\ data' = d
    /\ n' = n + 1
    /\ \E p \in Malloc(h) :
        /\ slots' = [k \in 0 .. capacity - 1 |-> IF k = NextSlot THEN p ELSE Carried(k)]
        /\ heap' = h \cup ({p} \ {NULL})
    /\ UNCHANGED <<pc, i, foreign>>

\* A write through the null array.
Segfault ==
    /\ pc' = "lost"
    /\ UNCHANGED <<data, n, allocated, slots, i, heap, foreign>>

\* alloc when a slot is free.
alloc ==
    /\ pc = "open"
    /\ n < MaxBlocks
    /\ ~Full
    /\ IF data = NULL
       THEN Segfault
       ELSE Store(data, allocated, heap) /\ UNCHANGED allocated

\* alloc when the array is full: realloc to twice the capacity comes first, and
\* may move the array, leave it in place, or fail.
alloc_grow ==
    /\ pc = "open"
    /\ n < MaxBlocks
    /\ Full
    /\ \/ /\ allocated' = 2 * allocated
          /\ \E d \in {data} \cup (Addr \ heap) :
                Store(d, NewCapacity, Free(heap, data) \cup {d})
       \/ Segfault

\* free_storage, entering its loop.
free_storage ==
    /\ pc = "open"
    /\ pc' = "draining"
    /\ i' = 0
    /\ UNCHANGED <<data, n, allocated, slots, heap, foreign>>

\* free_storage, one iteration of its loop.
free_block ==
    /\ pc = "draining"
    /\ i < n
    /\ heap' = Free(heap, slots[i])
    /\ i' = i + 1
    /\ UNCHANGED <<pc, data, n, allocated, slots, foreign>>

\* free_storage, after the loop: the array itself goes last.
free_array_Forgotten ==
    /\ pc = "draining"
    /\ i >= n
    /\ n' = 0
    /\ allocated' = 0
    /\ pc' = "closed"
    /\ UNCHANGED <<data, slots, i, heap, foreign>>
free_array ==
    /\ pc = "draining"
    /\ i >= n
    /\ heap' = Free(heap, data)
    /\ n' = 0
    /\ allocated' = 0
    /\ pc' = "closed"
    /\ UNCHANGED <<data, slots, i, foreign>>

Next ==
    \/ init_storage
    \/ alloc
    \/ alloc_grow
    \/ free_storage
    \/ free_block
    \/ free_array

Spec == Init /\ [][Next]_vars

-----------------------------------------------------------------------------
\* The slots free_storage still has to free; all used slots before it starts.
Pending == (IF pc = "draining" THEN i ELSE 0) .. n - 1

\* The blocks this storage has handed out and not released.
Blocks == {slots[k] : k \in Pending} \ {NULL}

(* Type invariant. *)
TypeOK ==
    /\ pc \in {"closed", "open", "draining", "lost"}
    /\ data \in Pointer
    /\ allocated \in Nat
    /\ n \in Nat
    /\ DOMAIN slots \subseteq Nat
    /\ \A k \in DOMAIN slots : slots[k] \in Pointer \cup {Junk}
    /\ i \in Nat
    /\ foreign \subseteq heap
    /\ heap \subseteq Addr

(* The pointers alloc has written, one for each increment of x->n, lie in the *)
(* block that malloc or realloc really provided, and x->allocated is what     *)
(* that block holds: alloc, which looks only at x->n and x->allocated, never  *)
(* writes past the end of the array (storage.c:17-22).                        *)
CapacityHolds ==
    pc # "closed" =>
        /\ 0 .. n - 1 \subseteq DOMAIN slots
        /\ DOMAIN slots = 0 .. allocated - 1

(* No free of free_storage hits a dead address, one it already freed or one   *)
(* it does not own: the slots still to be freed hold NULL or pairwise         *)
(* different live blocks, none of them the array or a foreign block           *)
(* (storage.c:29-32).                                                         *)
SlotsOwnDistinctBlocks ==
    pc # "closed" =>
        /\ data # NULL => data \in heap \ foreign
        /\ \A k \in Pending :
            slots[k] # NULL =>
                /\ slots[k] \in heap \ (foreign \cup {data})
                /\ \A l \in Pending : slots[l] = slots[k] => l = k

(* Whatever the storage took from the heap is back once free_storage is over, *)
(* whether realloc moved the array or not and whichever mallocs failed, and   *)
(* nothing else was freed (storage.c:25-34).                                  *)
ClosedLeavesNoTrace == pc = "closed" => heap = foreign

(* The heap consists of foreign blocks, of the array and of the blocks handed *)
(* out: nothing the storage allocated is ever out of its reach.  With the     *)
(* properties above, this is inductive.                                       *)
HeapAccounted ==
    /\ pc # "closed" => heap = foreign \cup ({data} \ {NULL}) \cup Blocks
    /\ pc = "closed" => n = 0

(* The array of pointers implements the abstract arena. *)
Promise == INSTANCE Arena WITH Block <- Addr, phase <- pc, live <- Blocks
ImplementsArena == Promise!Spec
=============================================================================
