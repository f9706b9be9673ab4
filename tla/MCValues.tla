------------------------------ MODULE MCValues ------------------------------
(***************************************************************************)
(* Integers in their two conversions, and arguments in their buffer, in    *)
(* one run: the two machines share nothing, so each behaviour is one of    *)
(* either, beside the other at rest.                                       *)
(***************************************************************************)
EXTENDS MCIntegerConversion, MCArguments

VARIABLE part   \* the machine that runs

ValuesInit ==
    \/ /\ part = "integers"
       /\ types = <<>> /\ ArgumentsInit
       /\ Init
    \/ /\ part = "arguments"
       /\ type = UCHAR /\ Init
       /\ ArgumentsInit

ValuesNext ==
    \/ part = "integers" /\ Next /\ UNCHANGED <<part, argumentsVars>>
    \/ part = "arguments" /\ ArgumentsNext /\ UNCHANGED <<part, vars>>

ValuesSpec == ValuesInit /\ [][ValuesNext]_<<part, vars, argumentsVars>>
=============================================================================
