# CNA in TLA+

CNA (Caché Native Access) lets ObjectScript programs call functions of C
libraries. It is a class, `CNA.CNA` (`cna.xml`), on top of a small native
library, libcna (`cna.c`, `storage.c`), on top of libffi. These modules state
what makes CNA correct, check it with TLC on small instances, and prove the
most important parts with TLAPS for every instance.

Line numbers refer to the files of this repository.

## Inventory

| part | state | operations | where |
|---|---|---|---|
| storage | `data`, `n`, `allocated`, the blocks listed in `data` | `init_storage`, `alloc`, `free_storage` | `storage.c` |
| native call | the locals of `call_function`: cursor `i`, `ffi_types`, `ffi_values`, `fullsize`, `size`; `retval->len`; a storage | `call_function`, `get_ffi_type`, `create_ffi_struct` | `cna.c:165-368` |
| type codec | none | `ConvertTypeFromCacheToCNA`, `CreateStructType` | `cna.xml:158-187` |
| integer conversion | none but the value | `ConvertIntegerFromCacheToCNA`, `ConvertIntegerFromCNAToCache`, `SignedToUnsigned`, `UnsignedToSigned` | `cna.xml:313-399` |
| arrays | `AllocatedMemory`, the C heap, the locals of a conversion | `ConvertStringToPointer`, `ConvertStreamToPointer`, `string_to_pointer`, `append_to_pointer`, `free_pointer`, `pointer_to_string` | `cna.xml:609-657`, `cna.c:370-401`, `463-489` |
| object | `CNAId`, `LibId`, `TypeSizes`, `Alignments`, `AllocatedMemory` | `%OnNew`, `%OnClose` | `cna.xml:530-571` |
| library handles | `CNAId` and `LibId` of each object, the reference counts of the loader | `LoadLibrary`, `FreeLibrary`, `load_library`, `free_library` | `cna.xml:511-528`, `cna.c:82-106` |
| structures | `Alignments` | `GetAlignments`, `ApplyAlignment`, `GetSizeAndAlignment`, `ConvertStructFromCacheToCNA`, `ConvertStructFromCNAToCache` | `cna.xml:189-311` |
| element access | the client's arrays | `PointerGetAt`, `PointerSetAt`, `pointer_get_at`, `pointer_set_at` | `cna.xml:573-607`, `cna.c:403-461` |
| arguments of a call | the buffer `cnaArgs`; `fullsize`, `ffi_values` | the loops of `CallFunction` and `call_function` | `cna.xml:484-504`, `cna.c:309-338` |
| libffi on x86-64 | the cif; `struct register_args`, the stack | `ffi_prep_cif_machdep`, `ffi_call`, `ffi_call_unix64`, `ffi_closure_unix64_inner`, `classify_argument` | `libs/libffi/src/x86/ffi64.c`, `unix64.S` |
| floating point | none | `double_to_float` and its three relatives | `cna.c:249-295` |

How they interact. `CallFunction` (class) turns its list of argument types into
a string of codes and its values into a string of bytes, and passes both, with
`LibId`, to `call_function` (library), which parses the codes into `ffi_type`
objects allocated in a storage of its own, points `ffi_values` into the bytes,
and calls libffi. The result comes back as bytes, which the class converts.
The codec, the conversions and the parser share nothing but these strings: the
class decides on one side how long everything is, the library on the other.
Arrays are made by the library and remembered by the object, which frees
them when it is closed and then unloads the library. `stream.Read` is the one
callback: code of another class that runs in the middle of a conversion.

What is hard here. There are no threads, and nothing is persistent. The
difficulties are: one cursor shared by a loop and all levels of a recursion
over input that can end anywhere; early returns between an allocation and its
release; pointers into a buffer that are formed before its length is checked;
`realloc` moving what other structures point to; the boundaries of two's
complement; a callback in the middle of a loop that owns memory only through a
local variable; the ownership of memory and library handles by objects
that share one process; and, in libffi, one question (where is this argument?)
answered three times by code that passes no answer on. `PROJECT.json` lists each place under `hazards`.

What makes each part correct:

- storage: it never writes beyond its array, frees each block once and leaves
  nothing behind, whatever `malloc` and `realloc` answer;
- native call: it accepts well-formed lists of types and nothing else, stays in
  its arrays and its input, gives libffi exactly the argument bytes, returns,
  and releases its storage;
- integer conversion: a number arrives unchanged or is refused;
- arrays: each array has one owner, is freed once, holds its text, and stays
  where the client was told it is;
- library handles: each `dlopen` is matched by one `dlclose`, and no function
  is looked up through a closed handle;
- structures: class, libffi and the C compiler agree on every offset;
- element access: an array is a vector to its client, with indices that may be
  negative and an address arithmetic that wraps around;
- arguments: each value is taken from where it was put, or the call is refused;
- libffi: the function that prepares a call, the one that makes it and the one
  that receives it put every argument, and the result, in the same place.

## Modules

There are three abstract specifications. `Arena`: blocks are handed out while it
is open, and it closes only after it has released each of them. `Storage`
implements it (`ImplementsArena`), `CallFunction` is built on it
(`Mem == INSTANCE Arena`), and every object of `Pointers` implements it to its
client (`ImplementsArena` again). `Lease`: each object has a library of its own,
as if it were alone in the process; `Libraries` implements it. `Vectors`: arrays
whose elements are read and written one at a time; `ElementAccess` implements
it. All four refinements are checked and proved.

### Storage (`storage.c`)

The variables `data`, `n`, `allocated` are the fields of the struct; `slots` is
the content of the block at `data`, its domain that block's real capacity; `i`
is the loop index of `free_storage`; `heap` is the set of live addresses, of
which `foreign` belong to the rest of the process. Actions: `init_storage`;
`alloc` (a slot is free) and `alloc_grow` (realloc first, which may move the
array to any free address, keep it in place, or fail); `free_storage`,
`free_block` (one iteration) and `free_array`. `malloc` may fail at any time.
The code tests neither: a write through a NULL array is the end of the
process (`pc = "lost"`), and a NULL block is stored like any other. A pointer
written behind the block has no slot: it shows as an `n` that is too large for the
domain of `slots`, which `CapacityHolds` excludes.

### CallFunction (`cna.c:165-368`), TypeCodec (`cna.xml:158-187, 477-503`)

One action per piece of code between two points where another function is
entered or a choice is made: `call_function` (to `init_storage`), `next_type`
(head of the loop), `get_ffi_type`, `create_ffi_struct`, `next_element` and
`end_struct` (its loop and its return), `check_sizes`, `prepare_call`,
`ffi_call`, `free_storage`; `out_of_memory` is an `alloc` that kills the
process. `frames` is the stack of active `create_ffi_struct`; `Deliver` is the
return of `get_ffi_type` to whoever called it: the loop (`Argument`) or
a structure (`Element`). An `ffi_type` is represented by its code and by the
bytes it was built from, which determine it, and by whether libffi can give it
a size. Every `return ZF_FAILURE` is a `Fail`. The reads of a size
header and the size libffi computes for a returned structure are chosen from
`HeaderSizes`: behind a value of wrong length a header is made of any bytes.
`fullsize` is a `size_t` of `SizeTValues` values, and each addition to it wraps
(`Wrap`). `failures` and `abandoned` are history: calls that failed, and
storages that went with their call.

`TypeCodec` enumerates, by a recursive function over the length, the well-formed
lists of types (`WellFormed`): argument types of fewer than `MaxLength` codes,
followed by the type of a result, `VOID` only as that. They are what the parser is
compared with. The class can write more: it looks at the code of a type when it
converts a value of it, and has none to convert for the type of a result or the
elements of a structure in it (`cna.xml:165-184, 503`), so a `VOID` inside a
structure or a code that is none is refused by the library only. Such strings are
among those that are read (`TypeStrings`), all of at most `MaxLength` codes
(`LengthsAssumption`).

### IntegerConversion (`cna.xml:313-399`)

A client passes a number as an argument of some type, the native function sees
a word, returns its argument or any other word, and the client gets a number
and may go on. `Half[s]` is half the number of values of a word of `s` bytes
(128 for one byte in reality), so that instances can be small and the proofs
do not depend on it. Types 1-10 and 15 are those of `enum TYPE`.

### Pointers (`cna.xml:530-571, 609-657`, `cna.c:370-401, 463-489`)

Objects are opened (`OnNew`), convert strings and streams, and are closed
(`OnClose`, `OnClose_free` for each iteration, `OnClose_end`). `heap` maps live
addresses to bytes; a byte nobody wrote is `Junk`. `stack` holds the
conversions of streams whose `Read` is running: since `Read` is foreign code,
everything a client may do can happen inside it, and is done there while
`stack` is not empty. When `Read` returns (`ReadReturns`), it gives a string
(`ReadChunk`), the end of the stream (`EndOfStream`), an error status
(`ReadError`) or an exception (`Throw`); the append that follows happens in the
same step, since nothing can come between, and may fail, which is an exception
as well. `origin` and `lost` are history: the text each array was made from,
and the arrays whose conversion an exception ended.

### Layout (`cna.xml:189-311`, `prep_cif.c:37-90`)

A client passes a structure as argument to a function that returns one of the
same type. Its types are chosen element by element (`scalar_element`,
`begin_struct`, `end_struct`), and with each element three loops take one step:
`GetSizeAndAlignment` (`declared`: what goes into the size header),
`ConvertStructFromCacheToCNA` (`converted`: its offset, its largest alignment,
and the length of the string it has built) and libffi's `initialize_aggregate`
(`ffi`). In the code the three run one after the other over the same list; none
reads what another computes, so the lockstep changes no result. `stack` is
the recursion into nested structures. At each element the client may have a
value or not, and once it has none it has no more in that structure
(`giving`), since the loop runs over the values. Then `call_function` compares
length and header, the function returns a structure as libffi laid it out, and
`ConvertStructFromCNAToCache` extracts its fields one by one. `elements`,
`fields` and `whole` are history: libffi's places, the places of all values
given, and whether any is missing.

`Platforms` are records: what `GetOS` and `GetPlatform` answer, `sizeof` of each
type, and the compiler's alignment of each type in a structure, which libffi
takes with `offsetof`.

### Libraries, Lease (`cna.xml:511-571`, `cna.c:82-106, 338-359`)

Objects are made (`OnNew`), fail to be made after libcna is loaded
(`OnNew_error`), make arrays, load, call and free libraries, and are closed
(`OnClose`, `OnClose_free` for each iteration of its loop, `OnClose_unload`, or
`OnClose_error` for an exception before it). `table` is the loader: of each open
handle its library and the number of references; a handle that was closed for
good may be given to another library, so that a stale handle may look good.
`cna` counts the references to libcna, without which `OnClose_free` cannot run.
`Resident` libraries, such as libc, are held open by the process itself.
`held`, `found`, `abandoned`, `orphans` and `lost` are history. As in the code,
`FreeLibrary` and `CallFunction` use whatever `LibId` was left at, which may be a
handle that is closed or has become another object's. What clients do of all that
is said in `Next` (`MayLoad`, `MayUse`): with `OneAtATime`, they free a library
before they load another, only once, and do not call it afterwards. The
properties on `LibId` need this discipline, and those on libcna do not.

### ElementAccess, Vectors (`cna.xml:573-607`, `cna.c:403-461`)

`memory` is a whole address space of `2 * Half` bytes, in which arrays lie
anywhere without overlapping. The client has a pointer to any element and uses
any element of the same array, with the type of the array or with one no element
has, or with an index no `size_t` can hold (`Access`); `PointerSetAt` and `PointerGetAt` have the refusals of the class
and those of the library before them. `Index` and `ElementAddress` wrap as
`size_t` does, and `TypeByte` is `$CHAR(type)`, which of a list of types is `VOID`:
`WithinElement` and `Vectors` are about all arrays and about those of scalars, and
that structures are refused is shown by a run of its own (`TypesAccepted`).

### Arguments (`cna.xml:484-504`, `cna.c:309-338`)

The class joins the bytes of the arguments (`CallFunction`, one iteration at a
time), and the library takes them apart (`next_argument`), reads a size header
wherever it believes one to be, behind the buffer if need be (`At`, `segfault`),
and compares one sum at the end (`check_length`). Values may have fewer or more
bytes than their type, as structures with missing values and strings given as
pointers do. Numbers of type `size_t` wrap. `CallFunction` (the module) treats
the same loop with types and memory but with headers of any value; here headers
are real bytes and types are plain.

### ArgumentClasses, Classify, Ffi64 (`libs/libffi/src/x86/ffi64.c`, `unix64.S`)

`ArgumentClasses` has what libffi's `classify_argument` is made of: the classes of
a scalar, `merge_classes`, the merging of a field's classes into those of its
structure. `Classify` is a run of that function: `frames` are the calls that are
running, one for each structure that is not finished, and `scalar_field`,
`struct_field` (the call for a nested structure) and `end_fields` (its end and
return) are what its loop does. `reach` is the highest index written in any
array. The answer is compared with a reference made of the scalars met, at their
absolute places, as the ABI states it. `Ffi64` is a call: `prep_*` is
`ffi_prep_cif_machdep`, argument by argument; `call_*` is `ffi_call`;
`call_function` and `Stored` are the assembly code; `closure_*` is
`ffi_closure_unix64_inner`. The callee is a closure or a compiled function. A
word is the pair of an argument's number and its number in it, so a word in the
wrong place cannot pass for another. `plan` is history: what the first function
has counted before each argument. The types are a CONSTANT with sizes, alignments
and classes; the instance `MCFfi64` has them in tables, which TLC compares with what `Struct`
and `classify_argument`, as one recursive function, compute (`TablesAreComputed`), but for the first class
of the straddled structure, which is refused for its second word, whatever the first.
`ResultFound` is about `Ordinary` types: scalars, and structures that are in memory
or have a class of registers for each word; `EveryResultFound` is about all.

## Runs

| run | instance | what it shows |
|---|---|---|
| `storage` | 5 addresses, of which any may be foreign; arrays of 1, 2 and 4 slots; 3 blocks | no overrun (`CapacityHolds`), no double or foreign free (`SlotsOwnDistinctBlocks`), no leak (`ClosedLeavesNoTrace`), `ImplementsArena` |
| `call` | all strings of up to 3, 5 and 6 of 6, 4 and 3 codes (`MaxLength` = 6); 4 lengths of buffers; headers 0, 1 and 7 of a `size_t` of 8 values; 2 calls; 4 blocks | parser and arrays in bounds (`ParserInBounds`), types tile their string, and values theirs unless a sum wraps (`TypesTile`, `ArgsTile`), room for the result (`RetvalSized`), exactly the failing calls leak (`OnlyFailuresLeak`), accepts exactly the well-formed lists of types (`AcceptsExactlyWellFormed`), returns (`CallReturns`) |
| `values` | integers: words of 4, 8, 16, 32 values; all types; all numbers to twice the range. Arguments: up to 3 of 4 types, bytes of 4 values, a `size_t` of 2 bytes, values too short and too long | numbers arrive unchanged both ways (`PassedExactly`, `ReturnedExactly`, `EchoIsIdentity`); whole arguments arrive and headers are read in the buffer (`WholeArrives`), wrong lengths are refused, with two exceptions (`WrongLengthSeen`) |
| `pointers` | 2 objects, 2 addresses, 2 arrays each, texts of 2 characters with NULs, conversions nested twice | one owner for each array (`OneOwner`), no leak but by exceptions (`OnlyExceptionsLeak`), arrays hold their text (`TextArrives`, `Terminated`) and stay (`ClientsArraysStay`), `ImplementsArena`, conversions of finite streams end (`ConversionEnds`) |
| `layout` | five platforms, of each of which one type per class of size and alignment; 3 elements, in nested structures 2; every choice of missing values | sizes agree (`SizesAgree`), what is accepted is in place (`FieldsInPlace`), what is complete is accepted (`WholeAccepted`), results are read from where they are (`ValuesFound`) |
| `libraries` | 2 objects, 3 libraries of which one is resident, 3 handles, 2 arrays, one lost reference of each kind | libcna stays while it is needed (`LibcnaServes`) and no longer (`OnlyErrorsKeepLibcna`), handles lead to one's own library (`HandleIsOwn`), references are balanced (`ReferencesMatch`), `ImplementsLease` |
| `elements` | 32 bytes of memory; three shorts at an odd address, two pointers at the end of memory, a structure | a write changes one element of its array only (`WithinElement`), `ImplementsVectors` |
| `libffi` | classes: all structures of up to 3 elements out of 5 scalars and all structures of up to 2 of them; pairs nested twice. Calls: 2 registers of each kind, lists of up to 3 of 9 types, each of 12 types as result, closure and compiled callee | the array of classes is not overrun (`WithinArray`), classes and memory are the ABI's (`ClassesAreAbis`), words are copied whole (`CopiedWhole`); the allocation suffices (`NoOverrun`), a closure finds its arguments (`ArgumentsArrive`), the caller an ordinary result (`ResultFound`) |
| `least_values` | the integers of `values` | **violated**: the two least values of a signed type are refused (`AcceptsWholeType`) |
| `flat_results` | 64 bits, with pointers | **violated**: a structure with a float or a pointer before another field does not come back (`FlatResultsArrive`) |
| `struct_elements` | that of `elements` | **violated**: a structure cannot be written by `PointerSetAt` (`TypesAccepted`) |
| `lone_long_double` | the calls of `libffi` | **violated**: a structure of a lone long double is looked for in `rax` (`EveryResultFound`) |

`values` and `libffi` each run two machines that share nothing, one beside the other
at rest (`MCValues`, `MCLibffi`).

Type invariants are not checked by runs: the modules with proofs have a theorem
`TypeCorrect` (`ArgumentsTypeCorrect` for `Arguments`), which holds for every
instance; the inductive invariant of `Classify` says the types of its variables.

Each property of a passing run has a mutant: an operator, next to the
definition it replaces and named after it (`Header_NoPadding`), that is a
plausible slip in that code and makes TLC find the property violated.

Bounds, and why they suffice. Storage: three blocks in an array that starts
with one slot pass through two reallocations, so that a pointer stored before
the first one is carried twice; five addresses let realloc move while foreign
blocks exist; the theorems remove the bound. CallFunction: six codes hold a
structure in a structure with an argument before or after it, and every
truncation of those; two calls show that nothing of the first is left for the
second but its leak; four blocks are two structures; a header of 7 makes
sums wrap, and wrapped ones pass the test of the length. The string bound also
excludes element counts above 255, which the codec cannot write.
IntegerConversion: the conversion treats all numbers on one side of a boundary
alike, and all boundaries are inside; the theorems hold for the real words.
Pointers: two reads and an end are enough for an append at an offset, a second
append after it and a move at each; two objects and two levels are enough for
another object, or the same one, to allocate and free inside `Read`.
Layout: an element's place depends on the one before it only through an offset
and on its own alignment, so two elements meet every pair of alignments and
the third stands after a padding; a nested structure of two elements can be
short, misaligned and padded; the theorems remove the bound.
Libraries: two objects and three handles are enough for a handle to be closed,
given to another library, and still be remembered; a resident library keeps
references when all objects have returned theirs; the theorems remove the bound.
ElementAccess: arrays at an odd address and at the end of memory, each with a
pointer to its last element, reach every case of the wrapping product.
Classify: a value of more than 16 bytes is in memory, and three elements with
nested pairs fill and overfill 16 and 32 bytes; the types include one for each
branch of the code but for the integers of 2 and 8 bytes; the theorems remove the
bounds.
Ffi64: with two registers of each kind, three arguments pass the limit in any
order, so that a later, smaller argument takes a register an earlier one was
refused; structures of one scalar, which are passed as it is, are among the results
only; the theorems remove the bound.
Arguments: sums that wrap are rare in real calls, and frequent with a `size_t`
of 16 values; three arguments are one before, at and behind the one in error; the theorems
remove the bounds.
Objects, arrays and handles of `Libraries` are interchangeable, hence its
symmetry, and no liveness is checked there.

Deadlock is checked in `libraries` and `elements`, where a client can always go
on. In the others it is not: the bounds on calls, blocks and arrays, the death of the
process, a refused number or structure and a finished call are legitimate ends.

## Fairness

- `CallFunction`: weak fairness of the steps of a call: the one thread runs on,
  and the native function is assumed to return. The client's next call is not
  fair.
- `Pointers`: weak fairness of the loop of `%OnClose`; strong fairness of the
  return of `Read` at each level of nesting. Weak fairness would not do: while
  an inner conversion runs, the outer `Read` cannot return, so its return is
  enabled only again and again. The assumption is that a `Read` does not go on
  using CNA for ever, and (through `MaxText`) that streams are finite.

The other modules have no liveness property and state no fairness.

## Proofs

All proofs are hierarchical, one step per action, and use no assumption but the
named ones on constants (`PointersAssumption`, `SizesAssumption`,
`InputsAssumption`, `WordsAssumption`, `PlatformsAssumption`,
`LibrariesAssumption`, `ArraysAssumption`, `TypesAssumption`,
`RegistersAssumption`, `FfiTypesAssumption`, `ArgumentsAssumption`,
`LengthsAssumption`, `SizeTAssumption`): sizes are positive, a `size_t` can count a
buffer with a result behind it, the null pointer is no address,
integers have a size of 1, 2, 4 or 8, C's alignments are powers of two up to 16,
arrays do not overlap, a type in registers has at most two words, and so on.
Some theorems have a hypothesis more: those about `Layout` `AlignmentsAgree`,
those about `LibId` `OneAtATime`.

`StorageProofs`. The invariants are not inductive one by one: that `free_block`
frees a live block needs that no other slot holds it, which a move of the array
preserves only if the array's own address is none of them and all slots up to
`n` are carried. `IInv` joins `TypeOK`, `CapacityHolds`,
`SlotsOwnDistinctBlocks`, `HeapAccounted`, `ClosedLeavesNoTrace` and the fact
that the array has at least one slot. The lemma `StoreKeepsIInv` treats both
forms of `alloc`. Theorems: `TypeCorrect`, `NoOverrun`, `NoDoubleFree`,
`NoLeak`, `NothingOutOfReach`, and `Refinement` (the initial states map to
initial states, and every step of `Storage` to a step or a stutter of `Arena`).

`CallFunctionProofs`. The theorems `TypeCorrect`, `NoOverrun`, `ParsesInOrder`,
`ArgumentsInBuffer`, `ResultHasRoom` and `LeaksAreFailures` follow from one
`IInv` of four parts. `Bookkeeping` relates the program counter, the arena and
the history. `Cursor` says where the cursor is: every active structure began at
the end of what was read before it, and the innermost is the only one the
cursor is in. `Tiling` says that the values read so far tile the buffer up to
`fullsize`, modulo the values of `size_t`, and exactly if no sum has wrapped
(`AllCountable`), the return value being the one exception that appears at the end;
its arithmetic is kept in small lemmas (`Wrapping`, `Uncut`, `SameSum`).

That the descent accepts the well-formed lists (`ReadsExactlyWellFormed`) compares
`TypeLists`, a recursive function, with a stack machine. The library's induction
theorems cannot be used, but their consequence can be had for sets: every
non-empty set of naturals has a least element (`LeastNatural`, from the
well-foundedness of finite subsets), hence `Induction`, hence `TypeLists` is the
function its equation defines (`TypeListsAre`). Its strings are then seen as
segments of the one string that is read (`Spells`): a list spelt from some
place on is either empty or a type spelt from there and a list behind it
(`SpellsFirst`, `SpellsBoth`). `Ends` says what may be left of the string at the head
of the loop, `Follows` what may be left where so many types are still due. The
invariant `ReadsOn` is an equivalence: while the descent runs, the whole string is a
well-formed list if and only if what is left of it is right, given the elements due in
each structure on the stack (`Balanced`). Each code that is read changes both
sides alike, so at the end, or at the code that is refused, the answer is known.

`EveryStepCounts` is the safety half of termination: `StepsLeft`, a number made of
the bytes still to be read, the structures to be completed, the blocks to be
freed and the rank of the program counter, is smaller after every step of a
call. The lemma `StepNears` needs `IInv`, since the cursor must not pass the end.

`ValuesProofs`, on `IntegerConversion`. `IInv` says that, as long as the word is the
argument's, number and word correspond: equal for C's reading of the word, or,
for unsigned words beyond Cache's integers, congruent. The theorems
`ArgumentsExact`, `ResultsExact`, `RoundTrip` and `NoResultRefused` follow.

`ValuesProofs`, on `Arguments`. `Buffered` says of the class that the arguments
so far tile the buffer, each with its header before it; `TakenApart`, of the
library, that the values taken so far are where they were put, as long as none
was incomplete, and that `fullsize` is the sum of what it takes their sizes for.
A header read where it was written is the number written there (`HeaderRead`), by
an induction over its digits (`NextDigit`). Theorems, for any list of
arguments, any width of `size_t` and any values: `ArgumentsTypeCorrect`,
`CompleteArgumentsArrive` and `IncompleteArgumentsSeen`.

`LayoutProofs`. Under `AlignmentsAgree` (what `GetAlignments` answers is the
compiler's alignment, for every type used), which holds of all platforms of the
run `layout` and fails for mingw32, the theorems `LayoutsAgree`,
`HeadersSuffice`, `AcceptedInPlace`, `WholeIsAccepted`, `ResultsFound` and
`TypeCorrect` hold for every list of types, any depth of nesting and any missing
values. `PaddingAligns` shows that the padding of the class is libffi's `ALIGN`;
`AlignMonotone`, that padding to a coarser alignment ends no earlier. The
invariant of one structure is `Agrees`: while values last, the offset of the
conversion is the declared size; the string is never longer than the offset,
and as long as it exactly if no nested structure was short, in which case every
value is in place. Since a deficit never disappears, the comparison of the two
lengths at the end finds it. `Placed` and `Open` do the same for the places
the way back is compared with, and the induction over the stack is in
`TopIInv`, used by all actions that change the topmost structure.

`PointersProofs`. The state is a heap, lists of any length and a stack of any
depth, all of which hold addresses; the invariant reduces them to one set.
`Claims` has a tuple for each entry of a list that is still to be freed and for
each array a running conversion holds: the address, the text it stands for, and
where the claim is written. `Accounted` says of any set of claims, heap and lost
blocks that every live block that is not lost has exactly one claim, holds what
the claim says, and ends with NUL. Four lemmas (`Add`, `Remove`, `Lose`,
`HandOver`) keep `Accounted` under the four changes a step can make; each action
is then shown to change claims and heap in one of these ways. `LeastNatural`,
proved from the induction principle of the naturals by way of a set, gives
`strlen` its meaning. Theorems: `TypeCorrect`, `NoDoubleFree`, `OthersReclaimed`,
`StringsEnd`, `TextsArriveWhole`, `HandedOutStays` and `Refinement`.

`LibrariesProofs`. Two invariants. `OwnIInv` counts libcna: its references are
the objects present and those lost by errors (`LibcnaCounted`), from which
`LibcnaNeverMissing` follows; it needs no discipline of the client.
`LeaseIInv` joins `HandleIsOwn` and `ReferencesMatch`, neither of which is
inductive alone: that a `dlclose` does not close another object's handle needs
that the loader's count includes that object, and that the count is right needs
that each `dlclose` reaches the library it is meant for. Under `OneAtATime` it
gives `OwnHandles`, `ReferencesAccounted` and `Refinement` of `Lease`.

`ElementAccessProofs`. The key lemma is `ElementFound`: the wrapping product of
index and size, added to the pointer modulo the address space, is the address
of the element meant, for negative indices too. `WrittenElement` says that
writing there changes that element and no other. Theorems: `TypeCorrect`,
`NoScalarRefused`, `WritesStayInElement` and `Refinement` of `Vectors`.

`Ffi64Proofs`. The history `plan` is the hinge: `Planned` says how each entry
follows from the one before, `Counted` that it is what `ffi_prep_cif_machdep`
counted, and `AtPlan` that `ffi_call` and the closure, when they come to
argument `i`, have counted the same. So they decide the same
(`DecidesAsPlanned`). `Sending` says where `ffi_call` has put each argument so
far, in terms of `plan`, and `Seeing` that the closure has found it there.
`AlignShift` says that aligning commutes with moving by a multiple of 16, which
is why bytes counted from 0 and addresses counted from the stack agree.
Theorems, for any types, lists and numbers of registers: `TypeCorrect`,
`WithinAllocation`, `AreasApart`, `ArgumentsFound`, and `ResultDelivered` for
types that are `Ordinary`: every word has a class of registers, or the type is a
scalar.

The same module has the proofs about `Classify`, for types nested to any depth.
`ClassifyIInv` says of the calls that are `Running` that each is for a field of the
one before, and is `FrameOK`: its classes are `Settled`, up to where it has come,
by the scalars met so far. Settled means for a word that is no part of a long double
(`Plain`) that its class `Suits` the scalars in it. Two facts carry it.
`NextField`: a nested call counts bytes from the word its structure begins in, yet
aligns each field where the structure has it, since alignments above 8 begin at
a word. `MergedSettled`: the classes a call answers are merged into the words they
are about, and what was settled stays so. Where a structure straddles
words (`straddled`), only the bounds remain. Theorems: `ArrayIsLargeEnough`,
`ClassesCorrect`, `CopiesCorrect`, and `AnswersAreExpected`, which says that what
`TypesAssumption` of `Ffi64` takes for granted of the classes is what `Classify`
answers.

Every safety property that a run finds to hold is proved, those about
structures and `LibId` under the hypotheses named. Only model-checked are
the two liveness properties, which need fairness and `ENABLED`, out of the
prover's reach: `CallReturns`, of which `EveryStepCounts` proves that a call cannot
go on for ever, and not that it can always go on; and `ConversionEnds`. And a
property the code does not have (the last four runs) is only refuted.

## What the checks found

- The two least values of every signed type of one, two or four bytes are
  refused by `SignedToUnsigned` (`cna.xml:322`): `value <= -max` should be
  `value < -max - 1` (run `least_values`). Such a value can be the result of a
  call, and cannot be passed back.
- A zero byte in a stream hides the rest of the string `Read` returned, and
  the following append leaves a gap of uninitialised memory (`cna.c:479-484`,
  `cna.xml:652`). `TextArrives` excepts texts with a zero byte for that reason.
- Each failing `call_function` leaks its storage (`cna.c:316-358`), which
  `OnlyFailuresLeak` states as it is.
- `CheckStructSupport` (`cna.xml:254`) has its comparisons the wrong way round
  and refuses no processor.
- `ConvertStructFromCNAToCache` extracts a byte too many per field
  (`cna.xml:306`): a returned structure with a float, a long double or a pointer
  that is not at its very end fails or comes back unusable (run
  `flat_results`). Integers and doubles are read from the front of what was
  extracted and do not suffer, which is why the tests pass. A nested structure in a result divides by zero (`cna.xml:304`).
- On mingw32, which the documentation recommends, `long double` has another
  alignment than the class thinks (`cna.xml:202`), so `mingw32` is not among the
  platforms of the run `layout`, and `AlignmentsAgree` fails for it.
- A `Read` that throws, or an append that fails, leaks the array made so far
  (`cna.xml:646-651`), which `OnlyExceptionsLeak` states as it is.
- `LibId` is one handle and is never cleared: a client that loads a second
  library and frees it cannot call the first any more, which is still loaded
  (`cna.xml:517, 526`), and a second `FreeLibrary` drops a reference of another
  object, or ends the process. `FreeLibrary` of the model does the same;
  `OneAtATime` is the discipline that avoids both.
- An object closed before its client has freed the library leaves it loaded
  (`cna.xml:554-571`), which `ReferencesMatch` counts as `abandoned`.
- `PointerSetAt` refuses every structure and `PointerGetAt` reads nothing of one,
  since the class sends a list of types as the type VOID (`cna.xml:586, 605`),
  though the type is documented to follow the rules of `CallFunction`
  (`cna.xml:597`; run `struct_elements`).
- `fullsize` is a `size_t`, and wraps when a header, behind a value of wrong length,
  is made of large bytes: such a sum can equal the length of the buffer with values
  far outside of it (`cna.c:323-335`). `ArgsTile` says what is left then: each value
  is where the one before ends, as `size_t` counts.
- The class writes the codes of a result's type without a look at them
  (`cna.xml:165-184, 503`), so a `VOID` inside of it or a code that is none is refused
  by `call_function` only, as every failing call with a leak.
- Values of wrong lengths can be accepted when a header is read from the wrong
  place: of types `INT, (INT, INT), (INT)` with one value missing in the second,
  its bytes and the header after it can make a header, and the sum comes out
  right (`cna.c:323, 335`). `WrongLengthSeen` names the two cases.
- libffi counts the words of a nested structure from its size, not from where it
  begins (`ffi64.c:215`): of `{int; {int; int}}` the second word gets no class
  and the call is aborted, of `{float; {float; int}; float}` a wrong one.
  `ClassesAreAbis` and `CopiedWhole` except structures that straddle words.
- libffi finds the result in `rax` when a structure of nothing but a long double
  is returned, which a compiler leaves in `st(0)` (`ffi64.c:377`; run
  `lone_long_double`); `Ordinary` excludes it.
- The entries of libffi's store table for unsigned results of 16 and 32 bits have
  no `ret`, and that of the signed type follows (`unix64.S:125-141`): the upper
  bytes are a sign extension. CNA reads only the lower ones.

Four of these have a run that exhibits them, as said. The others are facts the
passing properties state, except, or have as a hypothesis, at the places named;
that of the store table is outside the models.

## Plan

Done: all modules of the inventory but floating point, and proofs of all their
safety properties. What could come next:

1. The composition of `Layout` and `Arguments`: which of the calls that
   `WrongLengthSeen` cannot rule out can be made with real structures.
2. libffi on the other platforms CNA is built for (`ffi.c` with `sysv.S` for 32
   bits, `win64.S`): the question of `Ffi64` with other tables.
3. For `ConversionEnds`, what `EveryStepCounts` is for `CallReturns`: a measure of
   the reads left at each level of nesting, decreasing lexicographically.

## Not modelled

- The four conversions of floating-point values: their values are IEEE
  arithmetic. (Their length checks are in `Layout`.)
- A pointer of the wrong length as a field of a structure, or given to
  `PointerSetAt`: the client is assumed to pass what it got from the class.
  (As an argument it is in `Arguments`.)
- Indices outside of an array: what they reach is not CNA's.
- Whether Caché runs `%OnClose` for an object whose `%OnNew` failed is left open:
  `OnNew_error` does either. `$ZF(-4, ...)` is assumed to count loads as
  `dlopen` does. Failing calls that change nothing, such as `dlopen` of a file
  that does not exist, are no actions.
- A list of types whose first byte is a digit, which Caché would take for a
  number (a nested structure that begins with a list of 46 bytes or more), and
  structures of more than 255 elements, whose number does not fit its byte
  (`cna.xml:165`).
- Unicode installations, where `$CHAR` of a value above 255 is one wide character
  and not the empty string (`cna.xml:371`), and the conversion of wide
  characters to C.
- The empty type string: the class always sends a return type; `call_function`
  would declare an array of negative length.
- Platforms of another byte order (`cna.c:361`), and the upper bytes of integers
  in registers: words are abstract.
- libffi but for `initialize_aggregate` and the calls on x86-64: the other
  processors and systems (`ffi.c`, `sysv.S`, `win64.S` and the directories of
  other processors), which CNA does not select on x86-64; the classes SSEUP and
  COMPLEX_X87, which no type of CNA has; variadic calls; `dlmalloc.c` and the
  allocation of closures; the raw and Java interfaces. Closures are modelled
  because they are the other reader of libffi's own conventions; CNA makes none.
- `dlopen`, the callout interface of Caché, `malloc`: external, modelled by what
  they may answer.
- `logger`: debug output. The tests and examples: clients.
