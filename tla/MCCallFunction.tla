--------------------------- MODULE MCCallFunction ---------------------------
(***************************************************************************)
(* CallFunction on every string of at most three of the codes void, uchar, *)
(* schar, ushort, struct and one that is no code, of at most five of void, *)
(* uchar, schar and struct, and of at most six of void, uchar and struct:  *)
(* structures in structures, as argument and as result, complete or cut    *)
(* off anywhere.  (The codes 0, 1, 2 serve as numbers of elements, too.)   *)
(***************************************************************************)
EXTENDS CallFunction, FiniteSets

StringsOf(S, n) == UNION {[1 .. l -> S] : l \in 1 .. n}

MCTypeStrings ==
    StringsOf({0, 1, 2, 5, 16, 17}, 3) \cup StringsOf({0, 1, 2, 16}, 5) \cup StringsOf({0, 1, 16}, 6)

\* uchar, schar and ushort, as get_sizes reports them.
MCSizeOf == [t \in {1, 2, 5} |-> IF t = 5 THEN 2 ELSE 1]
=============================================================================
