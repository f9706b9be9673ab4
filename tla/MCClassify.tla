----------------------------- MODULE MCClassify -----------------------------
(***************************************************************************)
(* Classify over structures of up to three elements, which are scalars or  *)
(* structures of up to two scalars; and some nested twice.                 *)
(***************************************************************************)
EXTENDS Classify

Some == {Scalar("integer", 1), Scalar("integer", 4), Scalar("float", 4),
         Scalar("double", 8), Scalar("longdouble", 16)}

StructsOf(elements, n) == {Struct(s) : s \in UNION {[1 .. k -> elements] : k \in 1 .. n}}

Pairs == StructsOf(Some, 2)
Floats == StructsOf({Scalar("integer", 4), Scalar("float", 4)}, 2)

MCFfiTypes == Some \cup StructsOf(Some \cup Pairs, 3) \cup StructsOf(StructsOf(Floats, 1), 2)
=============================================================================
