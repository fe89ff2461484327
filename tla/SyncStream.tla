----------------------------- MODULE SyncStream -----------------------------
(***************************************************************************)
(* What the executor promises its neighbours: it is a sync block with one  *)
(* input and one output.  It takes items that have been offered, and gives *)
(* exactly as many before it takes again; what it gives fits in the space  *)
(* the reader has freed.                                                   *)
(***************************************************************************)
EXTENDS Naturals

CONSTANT Cap  \* items the output buffer holds

VARIABLES
  offered,  \* items written to the input
  taken,    \* items read from the input
  given,    \* items written to the output
  freed     \* items read from the output

vars == <<offered, taken, given, freed>>

Init == offered = 0 /\ taken = 0 /\ given = 0 /\ freed = 0

Offer == offered' > offered /\ UNCHANGED <<taken, given, freed>>

Take ==
  /\ taken = given
  /\ taken' \in taken + 1 .. offered
  /\ taken' - freed <= Cap
  /\ UNCHANGED <<offered, given, freed>>

Give == taken > given /\ given' = taken /\ UNCHANGED <<offered, taken, freed>>

Free == freed' \in freed + 1 .. given /\ UNCHANGED <<offered, taken, given>>

Next == Offer \/ Take \/ Give \/ Free

Spec == Init /\ [][Next]_vars
=============================================================================
