---------------------------- MODULE BoundedQueue ----------------------------
(***************************************************************************)
(* What the kernel's shared buffer promises its callers: a FIFO queue of  *)
(* at most Capacity items with running totals of what went in and out.    *)
(* Get hands the oldest item to the calling client; Reset empties the     *)
(* queue and zeroes the totals.  SharedBuffer.tla is checked to implement *)
(* it.                                                                     *)
(***************************************************************************)
EXTENDS Naturals, Sequences

CONSTANTS Capacity, Items, Clients, NoItem

VARIABLES queue, produced, consumed, ready, got

vars == <<queue, produced, consumed, ready, got>>

Init ==
  /\ queue = <<>>
  /\ produced = 0
  /\ consumed = 0
  /\ ready = FALSE
  /\ got = [c \in Clients |-> NoItem]

Reset ==
  /\ queue' = <<>>
  /\ produced' = 0
  /\ consumed' = 0
  /\ ready' = TRUE
  /\ UNCHANGED got

Put(x) ==
  /\ ready /\ Len(queue) < Capacity
  /\ queue' = Append(queue, x)
  /\ produced' = produced + 1
  /\ UNCHANGED <<consumed, ready, got>>

Get(c) ==
  /\ ready /\ queue # <<>>
  /\ got' = [got EXCEPT ![c] = Head(queue)]
  /\ queue' = Tail(queue)
  /\ consumed' = consumed + 1
  /\ UNCHANGED <<produced, ready>>

Next == Reset \/ (\E x \in Items : Put(x)) \/ (\E c \in Clients : Get(c))

Spec == Init /\ [][Next]_vars

=============================================================================
