------------------------------ MODULE MCLibffi ------------------------------
(***************************************************************************)
(* The classes of types, and calls of functions, in one run: the two       *)
(* machines share nothing but ArgumentClasses, so each behaviour is one of *)
(* either, beside the other at rest.                                       *)
(***************************************************************************)
EXTENDS MCClassify, MCFfi64

VARIABLE part   \* the machine that runs

LibffiInit ==
    \/ /\ part = "classes"
       /\ rtype = Void /\ types = <<>> /\ callee = "closure" /\ Init
       /\ ClassifyInit
    \/ /\ part = "calls"
       /\ root = Char /\ ClassifyInit
       /\ Init

LibffiNext ==
    \/ part = "classes" /\ ClassifyNext /\ UNCHANGED <<part, vars>>
    \/ part = "calls" /\ Next /\ UNCHANGED <<part, classifyVars>>

LibffiSpec == LibffiInit /\ [][LibffiNext]_<<part, vars, classifyVars>>
=============================================================================
