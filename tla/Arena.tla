------------------------------- MODULE Arena -------------------------------
(***************************************************************************)
(* What storage.h promises to call_function: an arena that is opened,      *)
(* hands out fresh blocks, and is closed by releasing each block exactly   *)
(* once.  Nothing is handed out after the release has begun, and the arena *)
(* is closed only when it holds nothing.  Module Storage is shown to       *)
(* implement this module; module CallFunction is composed with it.         *)
(***************************************************************************)

CONSTANT Block      \* the blocks the C heap can provide

VARIABLES
    phase,          \* "closed", "open", "draining", or "lost" (the process died)
    live            \* the blocks handed out and not yet released

arenaVars == <<phase, live>>

Init ==
    /\ phase = "closed"
    /\ live = {}

Open ==
    /\ phase = "closed"
    /\ phase' = "open"
    /\ UNCHANGED live

HandOut(b) ==
    /\ phase = "open"
    /\ b \in Block \ live
    /\ live' = live \cup {b}
    /\ UNCHANGED phase

Drain ==
    /\ phase = "open"
    /\ phase' = "draining"
    /\ UNCHANGED live

Release(b) ==
    /\ phase = "draining"
    /\ b \in live
    /\ live' = live \ {b}
    /\ UNCHANGED phase

Close ==
    /\ phase = "draining"
    /\ live = {}
    /\ phase' = "closed"
    /\ UNCHANGED live

\* The process is killed; whatever was handed out goes with it.
Die ==
    /\ phase = "open"
    /\ phase' = "lost"
    /\ UNCHANGED live

Next ==
    \/ Open
    \/ \E b \in Block : HandOut(b) \/ Release(b)
    \/ Drain
    \/ Close
    \/ Die

Spec == Init /\ [][Next]_arenaVars
=============================================================================
