------------------------------ MODULE ItemFifo ------------------------------
(***************************************************************************)
(* What a buffer promises its writer and its reader: the items are read in *)
(* the order they were written, each once, whatever is moved in between,   *)
(* and no more than size are ever kept.  Item n is the n-th item written.  *)
(***************************************************************************)
EXTENDS Integers, Sequences

VARIABLES
  size,    \* items the buffer holds, never changed
  unread,  \* the items written and not yet read, oldest first
  total    \* items written so far

vars == <<size, unread, total>>

Init == size \in Nat \ {0} /\ unread = <<>> /\ total = 0

Write ==
  /\ total' > total
  /\ unread' = unread \o [i \in 1..(total' - total) |-> total + i]
  /\ Len(unread') <= size
  /\ UNCHANGED size

Read ==
  /\ \E k \in 1..Len(unread) : unread' = SubSeq(unread, k + 1, Len(unread))
  /\ UNCHANGED <<size, total>>

Next == Write \/ Read

Spec == Init /\ [][Next]_vars
=============================================================================
