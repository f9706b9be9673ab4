--------------------------- MODULE StorageProofs ---------------------------
(***************************************************************************)
(* Theorems about storage.c, for every heap and every initial capacity.    *)
(***************************************************************************)
EXTENDS Storage, TLAPS

(* An array that malloc refused stays empty, so that a full array exists. *)
FullArrayExists ==
    pc # "closed" => allocated > 0 /\ (data = NULL => n = 0)

(* The inductive invariant. *)
IInv ==
    /\ TypeOK
    /\ FullArrayExists
    /\ CapacityHolds
    /\ SlotsOwnDistinctBlocks
    /\ HeapAccounted
    /\ ClosedLeavesNoTrace

USE PointersAssumption, SizesAssumption

LEMMA InitIInv == Init => IInv
BY DEF Init, IInv, TypeOK, FullArrayExists, CapacityHolds, SlotsOwnDistinctBlocks,
       HeapAccounted, ClosedLeavesNoTrace, Pointer

(* x->n does not pass x->allocated. *)
LEMMA WrittenWithinCapacity == TypeOK /\ CapacityHolds /\ pc # "closed" => n <= allocated
<1>. SUFFICES ASSUME TypeOK, CapacityHolds, pc # "closed", n > 0
              PROVE  n <= allocated
  BY DEF TypeOK
<1>1. n - 1 \in 0 .. n - 1
  BY DEF TypeOK
<1>2. n - 1 \in 0 .. allocated - 1
  BY <1>1 DEF CapacityHolds
<1>3. QED
  BY <1>2 DEF TypeOK

(* Storing one more pointer keeps the invariant, whether the array stayed at  *)
(* data or realloc moved it to an address that was free.                      *)
LEMMA StoreKeepsIInv ==
    ASSUME IInv, pc = "open",
           NEW d \in Addr, d = data \/ d \notin heap,
           NEW capacity \in Nat, n < capacity, allocated <= capacity,
           NEW h, h = (heap \ {data}) \cup {d},
           data \in heap,
           allocated' = capacity,
           Store(d, capacity, h)
    PROVE  IInv'
<1>. USE DEF IInv
<1>1. PICK p \in Malloc(h) :
        /\ slots' = [k \in 0 .. capacity - 1 |-> IF k = n THEN p ELSE Carried(k)]
        /\ heap' = h \cup ({p} \ {NULL})
  BY DEF Store, NextSlot
<1>2. /\ pc' = "open" /\ data' = d /\ n' = n + 1
      /\ UNCHANGED <<i, foreign>>
      /\ n \in Nat /\ allocated \in Nat
  BY DEF Store, TypeOK
<1>3. /\ DOMAIN slots = 0 .. allocated - 1
      /\ 0 .. n - 1 \subseteq DOMAIN slots
      /\ Pending = 0 .. n - 1
      /\ Pending' = 0 .. n
  BY <1>2 DEF CapacityHolds, Pending
<1>4. DOMAIN slots' = 0 .. capacity - 1
  BY <1>1
<1>5. \A k \in 0 .. n - 1 : k \in DOMAIN slots /\ slots'[k] = slots[k]
  BY <1>1, <1>2, <1>3 DEF Carried, TypeOK
<1>6. slots'[n] = p
  BY <1>1, <1>2
<1>7. /\ p \in Pointer
      /\ p # NULL => p \notin h
      /\ d \in h
      /\ d # NULL
  BY <1>1 DEF Malloc, Pointer
<1>8. data \notin foreign
  BY <1>2 DEF SlotsOwnDistinctBlocks, TypeOK
<1>9. \A k \in 0 .. n - 1 : slots[k] # NULL => slots[k] \in h \ (foreign \cup {d})
  BY <1>3 DEF SlotsOwnDistinctBlocks
<1>10. TypeOK'
  <2>1. foreign' \subseteq heap' /\ heap' \subseteq Addr /\ d \in Pointer
    BY <1>1, <1>2, <1>7, <1>8 DEF TypeOK, Pointer
  <2>2. \A k \in DOMAIN slots' : slots'[k] \in Pointer \cup {Junk}
    BY <1>1, <1>4, <1>7 DEF Carried, TypeOK
  <2>3. QED
    BY <1>2, <1>4, <2>1, <2>2 DEF TypeOK
<1>11. CapacityHolds'
  BY <1>2, <1>4 DEF CapacityHolds
<1>12. SlotsOwnDistinctBlocks'
  <2>1. data' \in heap' \ foreign'
    BY <1>1, <1>2, <1>7, <1>8 DEF TypeOK
  <2>2. ASSUME NEW k \in 0 .. n, slots'[k] # NULL
        PROVE  /\ slots'[k] \in heap' \ (foreign' \cup {data'})
               /\ \A l \in 0 .. n : slots'[l] = slots'[k] => l = k
    <3>1. CASE k = n
      <4>1. p \notin foreign /\ p # d /\ p \in heap'
        BY <1>1, <1>6, <1>7, <1>8, <2>2, <3>1 DEF TypeOK
      <4>2. \A l \in 0 .. n - 1 : slots'[l] # p
        BY <1>5, <1>6, <1>7, <1>9, <2>2, <3>1
      <4>3. QED
        BY <1>2, <1>6, <3>1, <4>1, <4>2
    <3>2. CASE k # n
      <4>1. k \in 0 .. n - 1 /\ slots'[k] = slots[k] /\ slots[k] \in h \ (foreign \cup {d})
        BY <1>2, <1>5, <1>9, <2>2, <3>2
      <4>2. \A l \in 0 .. n - 1 : slots'[l] = slots[k] => l = k
        BY <1>3, <1>5, <2>2, <4>1 DEF SlotsOwnDistinctBlocks
      <4>3. slots'[n] # slots[k]
        BY <1>6, <1>7, <2>2, <4>1
      <4>4. slots'[k] \in heap' \ (foreign' \cup {data'})
        BY <1>1, <1>2, <4>1
      <4>5. \A l \in 0 .. n : l = n \/ l \in 0 .. n - 1
        BY <1>2
      <4>6. QED
        BY <4>1, <4>2, <4>3, <4>4, <4>5
    <3>3. QED
      BY <3>1, <3>2
  <2>3. QED
    BY <1>3, <2>1, <2>2 DEF SlotsOwnDistinctBlocks
<1>13. HeapAccounted' /\ ClosedLeavesNoTrace'
  <2>1. Blocks' = Blocks \cup ({p} \ {NULL})
    <3>1. {slots'[k] : k \in 0 .. n} = {slots[k] : k \in 0 .. n - 1} \cup {p}
      <4>1. {slots'[k] : k \in 0 .. n} \subseteq {slots[k] : k \in 0 .. n - 1} \cup {p}
        BY <1>2, <1>5, <1>6
      <4>2. {slots[k] : k \in 0 .. n - 1} \cup {p} \subseteq {slots'[k] : k \in 0 .. n}
        BY <1>2, <1>5, <1>6
      <4>3. QED
        BY <4>1, <4>2
    <3>2. QED
      BY <1>3, <3>1 DEF Blocks
  <2>2. Blocks \cap {data} = {}
    BY <1>2 DEF Blocks, SlotsOwnDistinctBlocks
  <2>3. heap' = foreign' \cup ({data'} \ {NULL}) \cup Blocks'
    BY <1>1, <1>2, <1>7, <1>8, <2>1, <2>2 DEF HeapAccounted
  <2>4. QED
    BY <1>2, <2>3 DEF HeapAccounted, ClosedLeavesNoTrace
<1>14. FullArrayExists'
  BY <1>2, <1>7 DEF FullArrayExists
<1>15. QED
  BY <1>10, <1>11, <1>12, <1>13, <1>14

(* Every step of the storage keeps the invariant. *)
LEMMA NextIInv == IInv /\ [Next]_vars => IInv'
<1>. SUFFICES ASSUME IInv, [Next]_vars
              PROVE  IInv'
  OBVIOUS
<1>. USE DEF IInv
<1>1. ASSUME init_storage
      PROVE  IInv'
  <2>1. /\ pc = "closed" /\ pc' = "open" /\ n' = 0 /\ allocated' = InitialAllocated
        /\ data' \in Pointer /\ data' \notin heap
        /\ heap' = heap \cup ({data'} \ {NULL})
        /\ slots' = [k \in 0 .. InitialAllocated - 1 |-> Junk]
        /\ UNCHANGED <<i, foreign>>
    BY <1>1 DEF init_storage, Malloc, Pointer, TypeOK
  <2>2. heap = foreign
    BY <2>1 DEF ClosedLeavesNoTrace
  <2>3. Pending' = {} /\ Blocks' = {}
    BY <2>1 DEF Pending, Blocks
  <2>4. TypeOK' /\ CapacityHolds' /\ FullArrayExists'
    BY <2>1 DEF TypeOK, CapacityHolds, FullArrayExists, Pointer
  <2>5. SlotsOwnDistinctBlocks' /\ HeapAccounted' /\ ClosedLeavesNoTrace'
    BY <2>1, <2>2, <2>3
    DEF SlotsOwnDistinctBlocks, HeapAccounted, ClosedLeavesNoTrace
  <2>6. QED
    BY <2>4, <2>5
<1>2. ASSUME alloc
      PROVE  IInv'
  <2>1. CASE data = NULL
    <3>1. pc = "open" /\ pc' = "lost" /\ UNCHANGED <<data, n, allocated, slots, i, heap, foreign>>
      BY <1>2, <2>1 DEF alloc, Segfault
    <3>2. QED
      BY <3>1 DEF TypeOK, FullArrayExists, CapacityHolds, SlotsOwnDistinctBlocks, HeapAccounted,
                  ClosedLeavesNoTrace, Pending, Blocks, Pointer
  <2>2. CASE data # NULL
    <3>1. pc = "open" /\ data \in heap /\ data \in Addr /\ n \in Nat /\ allocated \in Nat
      BY <1>2, <2>2 DEF alloc, SlotsOwnDistinctBlocks, TypeOK
    <3>2. n < allocated /\ allocated' = allocated /\ Store(data, allocated, heap)
      BY <1>2, <2>2, <3>1, WrittenWithinCapacity DEF alloc, Full, TypeOK
    <3>3. heap = (heap \ {data}) \cup {data}
      BY <3>1
    <3>4. QED
      BY <3>1, <3>2, <3>3, StoreKeepsIInv
  <2>3. QED
    BY <2>1, <2>2
<1>3. ASSUME alloc_grow
      PROVE  IInv'
  <2>1. pc = "open" /\ n = allocated /\ n \in Nat /\ allocated \in Nat
    BY <1>3 DEF alloc_grow, Full, TypeOK
  <2>2. CASE Segfault
    BY <2>1, <2>2 DEF Segfault, TypeOK, FullArrayExists, CapacityHolds, SlotsOwnDistinctBlocks,
                      HeapAccounted, ClosedLeavesNoTrace, Pending, Blocks, Pointer
  <2>3. ASSUME NEW d \in {data} \cup (Addr \ heap),
               allocated' = 2 * allocated,
               Store(d, NewCapacity, Free(heap, data) \cup {d})
        PROVE  IInv'
    <3>1. data \in heap /\ data \in Addr
      BY <2>1 DEF FullArrayExists, SlotsOwnDistinctBlocks, TypeOK
    <3>2. d \in Addr /\ (d = data \/ d \notin heap)
      BY <2>3, <3>1
    <3>3. 2 * allocated \in Nat /\ n < 2 * allocated /\ allocated <= 2 * allocated
      BY <2>1 DEF FullArrayExists
    <3>4. Store(d, 2 * allocated, (heap \ {data}) \cup {d})
      BY <2>3 DEF NewCapacity, Free
    <3>5. QED
      BY <2>1, <2>3, <3>1, <3>2, <3>3, <3>4, StoreKeepsIInv
  <2>4. QED
    BY <1>3, <2>2, <2>3 DEF alloc_grow
<1>4. ASSUME free_storage
      PROVE  IInv'
  <2>1. pc = "open" /\ pc' = "draining" /\ i' = 0
        /\ UNCHANGED <<data, n, allocated, slots, heap, foreign>>
    BY <1>4 DEF free_storage
  <2>2. Pending' = Pending /\ Blocks' = Blocks
    BY <2>1 DEF Pending, Blocks
  <2>3. QED
    BY <2>1, <2>2 DEF TypeOK, FullArrayExists, CapacityHolds, SlotsOwnDistinctBlocks, HeapAccounted,
                      ClosedLeavesNoTrace, Pointer
<1>5. ASSUME free_block
      PROVE  IInv'
  <2>1. /\ pc = "draining" /\ i < n /\ i' = i + 1
        /\ heap' = heap \ {slots[i]}
        /\ UNCHANGED <<pc, data, n, allocated, slots, foreign>>
        /\ i \in Nat /\ n \in Nat
    BY <1>5 DEF free_block, Free, TypeOK
  <2>2. Pending = i .. n - 1 /\ Pending' = i + 1 .. n - 1 /\ i \in Pending
    BY <2>1 DEF Pending
  <2>3. \A k \in Pending : k # i => k \in Pending'
    BY <2>1, <2>2
  <2>4. \A k \in Pending' : k \in Pending /\ k # i
    BY <2>1, <2>2
  <2>5. slots[i] \notin foreign /\ (data # NULL => slots[i] # data)
    BY <2>1, <2>2 DEF SlotsOwnDistinctBlocks, TypeOK
  <2>6. Blocks' = Blocks \ {slots[i]}
    BY <2>1, <2>2, <2>3, <2>4 DEF Blocks, SlotsOwnDistinctBlocks
  <2>7. TypeOK' /\ CapacityHolds' /\ FullArrayExists'
    BY <2>1, <2>5 DEF TypeOK, CapacityHolds, FullArrayExists, Pointer
  <2>8. SlotsOwnDistinctBlocks'
    BY <2>1, <2>2, <2>4, <2>5 DEF SlotsOwnDistinctBlocks
  <2>9. HeapAccounted' /\ ClosedLeavesNoTrace'
    BY <2>1, <2>5, <2>6 DEF HeapAccounted, ClosedLeavesNoTrace
  <2>10. QED
    BY <2>7, <2>8, <2>9
<1>6. ASSUME free_array
      PROVE  IInv'
  <2>1. /\ pc = "draining" /\ i >= n /\ pc' = "closed" /\ n' = 0 /\ allocated' = 0
        /\ heap' = heap \ {data}
        /\ UNCHANGED <<data, slots, i, foreign>>
        /\ i \in Nat /\ n \in Nat
    BY <1>6 DEF free_array, Free, TypeOK
  <2>2. Pending = {} /\ Pending' = {}
    BY <2>1 DEF Pending
  <2>3. heap' = foreign
    BY <2>1, <2>2 DEF HeapAccounted, SlotsOwnDistinctBlocks, Blocks, TypeOK
  <2>4. QED
    BY <2>1, <2>2, <2>3 DEF TypeOK, FullArrayExists, CapacityHolds, SlotsOwnDistinctBlocks,
                            HeapAccounted, ClosedLeavesNoTrace, Pointer
<1>7. ASSUME UNCHANGED vars
      PROVE  IInv'
  BY <1>7 DEF vars, TypeOK, FullArrayExists, CapacityHolds, SlotsOwnDistinctBlocks, HeapAccounted,
              ClosedLeavesNoTrace, Pending, Blocks, Pointer
<1>8. QED
  BY <1>1, <1>2, <1>3, <1>4, <1>5, <1>6, <1>7 DEF Next

LEMMA Invariance == Spec => []IInv
BY InitIInv, NextIInv, PTL DEF Spec

(* The fields of the storage keep their types, and every pointer it holds is  *)
(* a pointer (storage.c).                                                     *)
THEOREM TypeCorrect == Spec => []TypeOK
<1>1. IInv => TypeOK
  BY DEF IInv
<1>2. QED
  BY <1>1, Invariance, PTL

(* alloc never writes past the end of the array: of the x->n pointers it has  *)
(* written every one lies in the block (storage.c:17-22).                     *)
THEOREM NoOverrun == Spec => []CapacityHolds
<1>1. IInv => CapacityHolds
  BY DEF IInv
<1>2. QED
  BY <1>1, Invariance, PTL

(* free_storage frees neither a dead block nor one of somebody else, and none *)
(* twice (storage.c:29-32).                                                   *)
THEOREM NoDoubleFree == Spec => []SlotsOwnDistinctBlocks
<1>1. IInv => SlotsOwnDistinctBlocks
  BY DEF IInv
<1>2. QED
  BY <1>1, Invariance, PTL

(* After free_storage the heap is what it was before init_storage             *)
(* (storage.c:25-34).                                                         *)
THEOREM NoLeak == Spec => []ClosedLeavesNoTrace
<1>1. IInv => ClosedLeavesNoTrace
  BY DEF IInv
<1>2. QED
  BY <1>1, Invariance, PTL

(* Nothing the storage allocated is ever out of its reach, wherever realloc   *)
(* moved the array and whatever malloc answered (storage.c:10-34).            *)
THEOREM NothingOutOfReach == Spec => []HeapAccounted
<1>1. IInv => HeapAccounted
  BY DEF IInv
<1>2. QED
  BY <1>1, Invariance, PTL

-----------------------------------------------------------------------------
(* Each step of the storage is a step of the abstract arena, or none.         *)

LEMMA InitRefines == Init => Promise!Init
<1>1. Init => Pending = {}
  BY DEF Init, Pending
<1>2. QED
  BY <1>1 DEF Init, Promise!Init, Blocks

LEMMA StoreRefines ==
    ASSUME IInv, pc = "open", NEW d, NEW capacity \in Nat,
           n < capacity, allocated <= capacity,
           NEW h, (heap \ {data}) \subseteq h, h \subseteq Addr,
           data \in h \/ data \notin Blocks,
           Store(d, capacity, h)
    PROVE  [Promise!Next]_Promise!arenaVars
<1>. USE DEF IInv
<1>1. PICK p \in Malloc(h) :
        slots' = [k \in 0 .. capacity - 1 |-> IF k = n THEN p ELSE Carried(k)]
  BY DEF Store, NextSlot
<1>2. /\ pc' = "open" /\ n' = n + 1
      /\ n \in Nat /\ allocated \in Nat
      /\ p \in Addr \cup {NULL} /\ p \notin h
  BY DEF Store, TypeOK, Malloc
<1>3. /\ DOMAIN slots = 0 .. allocated - 1
      /\ 0 .. n - 1 \subseteq DOMAIN slots
      /\ Pending = 0 .. n - 1
      /\ Pending' = 0 .. n
  BY <1>2 DEF CapacityHolds, Pending
<1>4. \A k \in 0 .. n - 1 : slots'[k] = slots[k]
  BY <1>1, <1>2, <1>3 DEF Carried, TypeOK
<1>5. slots'[n] = p
  BY <1>1, <1>2
<1>6. Blocks' = Blocks \cup ({p} \ {NULL})
  <2>1. {slots'[k] : k \in 0 .. n} \subseteq {slots[k] : k \in 0 .. n - 1} \cup {p}
    BY <1>2, <1>4, <1>5
  <2>2. {slots[k] : k \in 0 .. n - 1} \cup {p} \subseteq {slots'[k] : k \in 0 .. n}
    BY <1>2, <1>4, <1>5
  <2>3. QED
    BY <1>3, <2>1, <2>2 DEF Blocks
<1>7. Blocks \subseteq h
  BY DEF Blocks, SlotsOwnDistinctBlocks
<1>8. CASE p = NULL
  BY <1>2, <1>6, <1>8 DEF Promise!arenaVars
<1>9. CASE p # NULL
  <2>1. p \in Addr \ Blocks /\ Blocks' = Blocks \cup {p}
    BY <1>2, <1>6, <1>7, <1>9
  <2>2. Promise!HandOut(p)
    BY <1>2, <2>1 DEF Promise!HandOut
  <2>3. QED
    BY <2>1, <2>2 DEF Promise!Next
<1>10. QED
  BY <1>8, <1>9

LEMMA NextRefines == IInv /\ [Next]_vars => [Promise!Next]_Promise!arenaVars
<1>. SUFFICES ASSUME IInv, [Next]_vars
              PROVE  [Promise!Next]_Promise!arenaVars
  OBVIOUS
<1>. USE DEF IInv
<1>1. ASSUME init_storage
      PROVE  Promise!Open
  <2>1. pc = "closed" /\ pc' = "open" /\ n = 0 /\ n' = 0
    BY <1>1 DEF init_storage, HeapAccounted
  <2>2. Pending = {} /\ Pending' = {}
    BY <2>1 DEF Pending
  <2>3. QED
    BY <2>1, <2>2 DEF Promise!Open, Blocks
<1>2. ASSUME Segfault, pc = "open"
      PROVE  Promise!Die
  BY <1>2 DEF Segfault, Promise!Die, Blocks, Pending
<1>3. ASSUME alloc
      PROVE  [Promise!Next]_Promise!arenaVars
  <2>1. CASE data = NULL
    BY <1>2, <1>3, <2>1 DEF alloc, Promise!Next
  <2>2. CASE data # NULL
    <3>1. /\ pc = "open" /\ n < allocated /\ allocated \in Nat
          /\ Store(data, allocated, heap)
          /\ data \in heap /\ heap \subseteq Addr
      BY <1>3, <2>2, WrittenWithinCapacity DEF alloc, Full, SlotsOwnDistinctBlocks, TypeOK
    <3>2. QED
      BY <3>1, StoreRefines
  <2>3. QED
    BY <2>1, <2>2
<1>4. ASSUME alloc_grow
      PROVE  [Promise!Next]_Promise!arenaVars
  <2>1. /\ pc = "open" /\ n = allocated /\ allocated \in Nat /\ heap \subseteq Addr
        /\ n < 2 * allocated /\ allocated <= 2 * allocated
        /\ data \in heap /\ data \in Addr
    BY <1>4 DEF alloc_grow, Full, TypeOK, FullArrayExists, SlotsOwnDistinctBlocks
  <2>2. CASE Segfault
    BY <1>2, <2>1, <2>2 DEF Promise!Next
  <2>3. ASSUME NEW d \in {data} \cup (Addr \ heap),
               Store(d, NewCapacity, Free(heap, data) \cup {d})
        PROVE  [Promise!Next]_Promise!arenaVars
    <3>1. data \notin Blocks
      BY <2>1 DEF Blocks, SlotsOwnDistinctBlocks
    <3>2. Store(d, 2 * allocated, (heap \ {data}) \cup {d})
      BY <2>3 DEF NewCapacity, Free
    <3>3. 2 * allocated \in Nat /\ (heap \ {data}) \cup {d} \subseteq Addr
      BY <2>1, <2>3
    <3>4. QED
      BY <2>1, <2>3, <3>1, <3>2, <3>3, StoreRefines
  <2>4. QED
    BY <1>4, <2>2, <2>3 DEF alloc_grow
<1>5. ASSUME free_storage
      PROVE  Promise!Drain
  BY <1>5 DEF free_storage, Promise!Drain, Blocks, Pending
<1>6. ASSUME free_block
      PROVE  [Promise!Next]_Promise!arenaVars
  <2>1. /\ pc = "draining" /\ i < n /\ i' = i + 1
        /\ UNCHANGED <<pc, n, slots, data, allocated>>
        /\ i \in Nat /\ n \in Nat
    BY <1>6 DEF free_block, TypeOK
  <2>2. Pending = i .. n - 1 /\ Pending' = i + 1 .. n - 1 /\ i \in Pending
    BY <2>1 DEF Pending
  <2>3. \A k : k \in Pending' <=> k \in Pending /\ k # i
    BY <2>1, <2>2
  <2>4. Blocks' = Blocks \ {slots[i]}
    BY <2>1, <2>2, <2>3 DEF Blocks, SlotsOwnDistinctBlocks
  <2>5. CASE slots[i] = NULL
    <3>1. Blocks' = Blocks
      BY <2>4, <2>5 DEF Blocks
    <3>2. QED
      BY <2>1, <3>1 DEF Promise!arenaVars
  <2>6. CASE slots[i] # NULL
    <3>1. slots[i] \in Addr /\ slots[i] \in Blocks
      BY <2>1, <2>2, <2>6 DEF Blocks, SlotsOwnDistinctBlocks, TypeOK
    <3>2. Promise!Release(slots[i])
      BY <2>1, <2>4, <3>1 DEF Promise!Release
    <3>3. QED
      BY <3>1, <3>2 DEF Promise!Next
  <2>7. QED
    BY <2>5, <2>6
<1>7. ASSUME free_array
      PROVE  Promise!Close
  <2>1. /\ pc = "draining" /\ i >= n /\ pc' = "closed" /\ n' = 0
        /\ i \in Nat /\ n \in Nat
    BY <1>7 DEF free_array, TypeOK
  <2>2. Pending = {} /\ Pending' = {}
    BY <2>1 DEF Pending
  <2>3. QED
    BY <2>1, <2>2 DEF Promise!Close, Blocks
<1>8. ASSUME UNCHANGED vars
      PROVE  UNCHANGED Promise!arenaVars
  BY <1>8 DEF vars, Promise!arenaVars, Blocks, Pending
<1>9. QED
  BY <1>1, <1>3, <1>4, <1>5, <1>6, <1>7, <1>8 DEF Next, Promise!Next

(* The growable array implements the abstract arena: fresh blocks are handed  *)
(* out while it is open, each is released exactly once, and it closes empty   *)
(* (storage.c).                                                               *)
THEOREM Refinement == Spec => ImplementsArena
<1>1. Init => Promise!Init
  BY InitRefines
<1>2. IInv /\ [Next]_vars => [Promise!Next]_Promise!arenaVars
  BY NextRefines
<1>3. QED
  BY <1>1, <1>2, Invariance, PTL DEF Spec, ImplementsArena, Promise!Spec
=============================================================================
