------------------------------ MODULE MCLayout ------------------------------
(***************************************************************************)
(* Layout on the platforms libcna is built for: a type of each class of    *)
(* size and alignment, structures of up to three elements, and in these of *)
(* up to two.                                                              *)
(***************************************************************************)
EXTENDS Layout

SCHAR == 2
INT64 == 10

Sizes(longDouble, pointer) ==
    [t \in {SCHAR, INT64, FLOAT, LONGDOUBLE, POINTER} |->
        CASE t = SCHAR -> 1
          [] t = INT64 -> 8
          [] t = FLOAT -> 4
          [] t = LONGDOUBLE -> longDouble
          [] t = POINTER -> pointer]

\* A platform, of whose types only some are used.
Platform(os, cpu, sizes, alignments, types) ==
    [os |-> os, cpu |-> cpu,
     sizes |-> [t \in types |-> sizes[t]], alignments |-> [t \in types |-> alignments[t]]]

Natural == Sizes(16, 8)
ABI32 == [Sizes(4, 4) EXCEPT ![INT64] = 4]
Distinct == {SCHAR, FLOAT, INT64, LONGDOUBLE}

UNIX64 == Platform("UNIX", {"x86-64"}, Natural, Natural, Distinct)
UNIX32 == Platform("UNIX", {"x86-32"}, Sizes(12, 4), ABI32, Distinct)
Windows64 == Platform("Windows", {"x86-64"}, Natural, Natural, Distinct)
\* int64_t keeps its natural alignment on 32-bit Windows.
Windows32 == Platform("Windows", {"x86-32"}, Sizes(12, 4), Sizes(4, 4), {SCHAR, FLOAT, INT64})
VMS == Platform("VMS", {}, Natural, Natural, {SCHAR})

MCPlatforms == {UNIX64, UNIX32, Windows64, Windows32, VMS}
MCMaxElements == <<3, 2>>

\* 64 bits, with pointers.
MCPointers64 == {Platform("UNIX", {"x86-64"}, Natural, Natural, {SCHAR, INT64, POINTER, FLOAT})}
=============================================================================
