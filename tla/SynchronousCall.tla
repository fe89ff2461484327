-------------------------- MODULE SynchronousCall --------------------------
(***************************************************************************)
(* What an iteration of the executor promises the rest of the flowgraph:   *)
(* an inference is a synchronous call.  The worker calls the server, the   *)
(* server answers, and only then does the worker return and publish.  A    *)
(* call the server never answers never returns.                            *)
(***************************************************************************)
EXTENDS Integers

VARIABLES
  phase,    \* "idle", "called" or "answered"
  returned  \* calls that have returned

Init == phase = "idle" /\ returned = 0

Call   == phase = "idle" /\ phase' = "called" /\ UNCHANGED returned
Answer == phase = "called" /\ phase' = "answered" /\ UNCHANGED returned
Return == phase = "answered" /\ phase' = "idle" /\ returned' = returned + 1

Next == Call \/ Answer \/ Return

Spec == Init /\ [][Next]_<<phase, returned>>
=============================================================================
