------------------------------ MODULE Lifecycle ------------------------------
(***************************************************************************)
(* What a Connection promises to the code that owns and holds it: the      *)
(* interface between module Connection, which implements it with threads,  *)
(* locks and events, and module Server, which builds on it.                *)
(*                                                                         *)
(* A connection is opened, at some moment its polling thread begins the    *)
(* teardown, and it is stopped, after which the object may be deleted or   *)
(* opened again.  Whoever holds a SafeConnection when the teardown begins  *)
(* keeps it from stopping, until one of the holders lets go.               *)
(***************************************************************************)
EXTENDS Naturals

VARIABLES
    phase,  \* "off", "open", "await" (a release), "stopping" or "stopped"
    refs    \* the number of SafeConnections

vars == <<phase, refs>>

Init == phase = "off" /\ refs = 0

\* InitializeByFD.
Open ==
    /\ phase \in {"off", "stopped"}
    /\ phase' = "open"
    /\ UNCHANGED refs

\* The polling thread has left its loop and looks at refs_amount.
Teardown ==
    /\ phase = "open"
    /\ phase' = IF refs # 0 THEN "await" ELSE "stopping"
    /\ UNCHANGED refs

\* SafeConnection's constructor and destructor.
Acquire ==
    /\ refs' = refs + 1
    /\ UNCHANGED phase

Release ==
    /\ refs # 0
    /\ refs' = refs - 1
    /\ phase' = IF phase = "await" THEN "stopping" ELSE phase

\* The stopped event is set.
Finish ==
    /\ phase = "stopping"
    /\ phase' = "stopped"
    /\ UNCHANGED refs

Next == Open \/ Teardown \/ Acquire \/ Release \/ Finish

Spec == Init /\ [][Next]_vars
=============================================================================
