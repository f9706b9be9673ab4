----------------------------- MODULE MCLibraries -----------------------------
(* Instances of Libraries for TLC: objects, arrays and handles are alike. *)
EXTENDS Libraries, TLC

Symmetry == Permutations(Object) \cup Permutations(Array) \cup Permutations(Handle)
=============================================================================
