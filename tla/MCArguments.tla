---------------------------- MODULE MCArguments ----------------------------
(***************************************************************************)
(* Arguments with bytes of four values and a size_t of two of them; the    *)
(* sizes are those of types whose smallest element has one such byte.      *)
(***************************************************************************)
EXTENDS Arguments

MCTypes == {"char", "pointer", "one", "pair"}
MCStructs == {"one", "pair"}
MCSize == [char |-> 1, pointer |-> 2, one |-> 1, pair |-> 2]
\* A pointer that was taken from a returned structure is one byte too long.
MCLengths == [char |-> {1}, pointer |-> {2, 3}, one |-> {1}, pair |-> {1, 2}]
MCBytes == {0, 3}
MCArgumentLists == UNION {[1 .. n -> Types] : n \in 0 .. 3}
=============================================================================
