----------------------------- MODULE MCStorage -----------------------------
(***************************************************************************)
(* A heap of five addresses, some of them in use by the rest of the        *)
(* process, and an array that starts with one slot: the second and the     *)
(* third alloc enlarge it.                                                 *)
(***************************************************************************)
EXTENDS Storage
=============================================================================
