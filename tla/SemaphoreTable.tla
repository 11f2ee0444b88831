--------------------------- MODULE SemaphoreTable ---------------------------
(***************************************************************************)
(* What the semaphore table promises, with every operation atomic: a      *)
(* fixed set of slots, each free with value 0 or allocated with a count.  *)
(* create allocates a free slot with a start value, P takes a unit from   *)
(* an allocated slot whose count is positive, V adds one to an allocated  *)
(* slot, destroy frees an allocated slot and zeroes it (spec.md, sections *)
(* 3 and 4).  Semaphore.tla is checked to implement it.                   *)
(***************************************************************************)
EXTENDS Integers

CONSTANTS NSEM, StartValues

VARIABLES value, allocated

Slots == 0 .. NSEM - 1

Init ==
  /\ value = [i \in Slots |-> 0]
  /\ allocated = [i \in Slots |-> FALSE]

Create(i) ==
  /\ ~allocated[i]
  /\ allocated' = [allocated EXCEPT ![i] = TRUE]
  /\ \E v \in StartValues : value' = [value EXCEPT ![i] = v]

P(i) ==
  /\ allocated[i] /\ value[i] > 0
  /\ value' = [value EXCEPT ![i] = @ - 1]
  /\ UNCHANGED allocated

V(i) ==
  /\ allocated[i]
  /\ value' = [value EXCEPT ![i] = @ + 1]
  /\ UNCHANGED allocated

Destroy(i) ==
  /\ allocated[i]
  /\ allocated' = [allocated EXCEPT ![i] = FALSE]
  /\ value' = [value EXCEPT ![i] = 0]

Next == \E i \in Slots : Create(i) \/ P(i) \/ V(i) \/ Destroy(i)

Spec == Init /\ [][Next]_<<value, allocated>>

=============================================================================
