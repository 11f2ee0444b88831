---------------------------- MODULE SharedBuffer ----------------------------
(***************************************************************************)
(* The producer-consumer buffer of src/kernel/sysproc.c: sharedbuf, a      *)
(* ring of BUFFER_SIZE ints under one spinlock, and the system calls      *)
(* buffer_init, produce, consume and buffer_status.  Each locked region   *)
(* is one step.  consume and buffer_status copy their results out to the  *)
(* caller after releasing the lock, so each copyout is a step of its own. *)
(* Whether a copyout succeeds depends on the address the caller passed;   *)
(* CopyOutResults says which outcomes the callers can produce.            *)
(***************************************************************************)
EXTENDS Integers

CONSTANTS
  Threads,        \* processes making the buffer system calls
  BUFFER_SIZE,
  Items,          \* values passed to produce
  MaxTotal,       \* model bound: produce is not called once produced_total
                  \* has reached MaxTotal
  CopyOutResults  \* outcomes of copyout: TRUE (good address), FALSE (bad)

ASSUME /\ BUFFER_SIZE \in Nat \ {0}
       /\ Items \subseteq Int \ {0}
       /\ MaxTotal \in Nat
       /\ CopyOutResults \subseteq BOOLEAN /\ CopyOutResults # {}

Index == 0 .. BUFFER_SIZE - 1

StatusFields == <<"count", "produced", "consumed">>

VARIABLES
  buffer, count, in, out, initialized, produced_total, consumed_total,
  pc,     \* idle, or after the release of consume or buffer_status
  item,   \* consume's local item, between its release and copyout
  snap,   \* buffer_status's locals count, produced, consumed
  ret,    \* what each process's last call returned
  uitem,  \* the caller's int that consume copies the item to
  ustat   \* the caller's three ints that buffer_status copies to

vars == <<buffer, count, in, out, initialized, produced_total,
          consumed_total, pc, item, snap, ret, uitem, ustat>>

Counters == [count : Int, produced : Int, consumed : Int]

TypeOK ==
  /\ buffer \in [Index -> Int]
  /\ count \in Nat
  /\ in \in Index /\ out \in Index
  /\ initialized \in BOOLEAN
  /\ produced_total \in Nat /\ consumed_total \in Nat
  /\ pc \in [Threads -> {"idle", "consume_copyout", "status_copyout"}]
  /\ item \in [Threads -> Int]
  /\ snap \in [Threads -> Counters]
  /\ ret \in [Threads -> {0, -1, -2, -3}]
  /\ uitem \in [Threads -> Int]
  /\ ustat \in [Threads -> Counters]

NoCounters == [count |-> 0, produced |-> 0, consumed |-> 0]

(* sharedbuf is a zeroed global: nothing initialized yet. *)
Init ==
  /\ buffer = [i \in Index |-> 0]
  /\ count = 0 /\ in = 0 /\ out = 0
  /\ initialized = FALSE
  /\ produced_total = 0 /\ consumed_total = 0
  /\ pc = [t \in Threads |-> "idle"]
  /\ item = [t \in Threads |-> 0]
  /\ snap = [t \in Threads |-> NoCounters]
  /\ ret = [t \in Threads |-> 0]
  /\ uitem = [t \in Threads |-> 0]
  /\ ustat = [t \in Threads |-> NoCounters]

Return(t, v) == ret' = [ret EXCEPT ![t] = v]

\* a locked region that returns v without touching sharedbuf
Reject(t, v) ==
  /\ Return(t, v)
  /\ UNCHANGED <<buffer, count, in, out, initialized, produced_total,
                 consumed_total, pc, item, snap, uitem, ustat>>

(* sys_buffer_init: clear the ring and every counter, even if the buffer *)
(* was already in use.                                                   *)
BufferInit(t) ==
  /\ pc[t] = "idle"
  /\ buffer' = [i \in Index |-> 0]
  /\ count' = 0 /\ in' = 0 /\ out' = 0
  /\ produced_total' = 0 /\ consumed_total' = 0
  /\ initialized' = TRUE
  /\ Return(t, 0)
  /\ UNCHANGED <<pc, item, snap, uitem, ustat>>

\* the store of sys_produce once both checks have passed
Store(t, x, nextIn) ==
  /\ produced_total < MaxTotal
  /\ buffer' = [buffer EXCEPT ![in] = x]
  /\ in' = nextIn
  /\ count' = count + 1
  /\ produced_total' = produced_total + 1
  /\ Return(t, 0)
  /\ UNCHANGED <<out, initialized, consumed_total, pc, item, snap,
                 uitem, ustat>>

(* Mutant: the full check is off by one, count > BUFFER_SIZE. *)
ProduceOverfull(t, x) ==
  /\ pc[t] = "idle"
  /\ \/ ~initialized /\ Reject(t, -2)
     \/ initialized /\ count > BUFFER_SIZE /\ Reject(t, -1)
     \/ initialized /\ count <= BUFFER_SIZE
        /\ Store(t, x, (in + 1) % BUFFER_SIZE)

(* Mutant: the write index is advanced without wrapping. *)
ProduceNoWrap(t, x) ==
  /\ pc[t] = "idle"
  /\ \/ ~initialized /\ Reject(t, -2)
     \/ initialized /\ count >= BUFFER_SIZE /\ Reject(t, -1)
     \/ initialized /\ count < BUFFER_SIZE /\ Store(t, x, in + 1)

(* sys_produce(x): -2 before buffer_init, -1 when full, else store at in. *)
Produce(t, x) ==
  /\ pc[t] = "idle"
  /\ \/ ~initialized /\ Reject(t, -2)
     \/ initialized /\ count >= BUFFER_SIZE /\ Reject(t, -1)
     \/ initialized /\ count < BUFFER_SIZE
        /\ Store(t, x, (in + 1) % BUFFER_SIZE)

(* sys_consume, the locked part: -2 before buffer_init, -1 when empty,   *)
(* else take the item at out.                                            *)
Consume(t) ==
  /\ pc[t] = "idle"
  /\ \/ ~initialized /\ Reject(t, -2)
     \/ initialized /\ count <= 0 /\ Reject(t, -1)
     \/ /\ initialized /\ count > 0
        /\ item' = [item EXCEPT ![t] = buffer[out]]
        /\ out' = (out + 1) % BUFFER_SIZE
        /\ count' = count - 1
        /\ consumed_total' = consumed_total + 1
        /\ pc' = [pc EXCEPT ![t] = "consume_copyout"]
        /\ UNCHANGED <<buffer, in, initialized, produced_total, snap, ret,
                       uitem, ustat>>

(* sys_consume after release: copyout to the caller's address returns 0, *)
(* or -3 if the address is bad; either way the item has left the buffer. *)
CopyOut(t) ==
  /\ pc[t] = "consume_copyout"
  /\ \E ok \in CopyOutResults :
       /\ uitem' = IF ok THEN [uitem EXCEPT ![t] = item[t]] ELSE uitem
       /\ Return(t, IF ok THEN 0 ELSE -3)
  /\ pc' = [pc EXCEPT ![t] = "idle"]
  /\ item' = [item EXCEPT ![t] = 0]
  /\ UNCHANGED <<buffer, count, in, out, initialized, produced_total,
                 consumed_total, snap, ustat>>

(* sys_buffer_status, the locked part: read the three counters. *)
BufferStatus(t) ==
  /\ pc[t] = "idle"
  /\ snap' = [snap EXCEPT ![t] = [count |-> count,
                                  produced |-> produced_total,
                                  consumed |-> consumed_total]]
  /\ pc' = [pc EXCEPT ![t] = "status_copyout"]
  /\ UNCHANGED <<buffer, count, in, out, initialized, produced_total,
                 consumed_total, item, ret, uitem, ustat>>

\* the first k of the three copyouts succeed: the caller's ints get the
\* fields copied before the first bad address
StatusWritten(t, k, s) ==
  [f \in {"count", "produced", "consumed"} |->
     IF \E j \in 1 .. k : StatusFields[j] = f THEN s[f] ELSE ustat[t][f]]

(* Mutant: the totals are copied out of sharedbuf itself after the      *)
(* release, only the count from the local read under the lock.          *)
StatusCopyOutLive(t) ==
  /\ pc[t] = "status_copyout"
  /\ \E k \in 0 .. 3 :
       /\ k < 3 => FALSE \in CopyOutResults
       /\ ustat' = [ustat EXCEPT ![t] =
                      StatusWritten(t, k, [count |-> snap[t].count,
                                           produced |-> produced_total,
                                           consumed |-> consumed_total])]
       /\ Return(t, IF k = 3 THEN 0 ELSE -1)
  /\ pc' = [pc EXCEPT ![t] = "idle"]
  /\ snap' = [snap EXCEPT ![t] = NoCounters]
  /\ UNCHANGED <<buffer, count, in, out, initialized, produced_total,
                 consumed_total, item, uitem>>

(* sys_buffer_status after release: copyout count, produced and consumed *)
(* in turn, returning -1 at the first that fails, 0 if all three succeed. *)
StatusCopyOut(t) ==
  /\ pc[t] = "status_copyout"
  /\ \E k \in 0 .. 3 :
       /\ k < 3 => FALSE \in CopyOutResults
       /\ ustat' = [ustat EXCEPT ![t] = StatusWritten(t, k, snap[t])]
       /\ Return(t, IF k = 3 THEN 0 ELSE -1)
  /\ pc' = [pc EXCEPT ![t] = "idle"]
  /\ snap' = [snap EXCEPT ![t] = NoCounters]
  /\ UNCHANGED <<buffer, count, in, out, initialized, produced_total,
                 consumed_total, item, uitem>>

Next ==
  \E t \in Threads :
    \/ BufferInit(t)
    \/ \E x \in Items : Produce(t, x)
    \/ Consume(t)
    \/ CopyOut(t)
    \/ BufferStatus(t)
    \/ StatusCopyOut(t)

Spec == Init /\ [][Next]_vars

-----------------------------------------------------------------------------
(* Properties. *)

\* the count items from out onwards, oldest first
Contents == [k \in 1 .. count |-> buffer[(out + k - 1) % BUFFER_SIZE]]

\* what each caller holds: the item in flight to it, else its own int
Received == [t \in Threads |-> IF pc[t] = "consume_copyout" THEN item[t]
                                ELSE uitem[t]]

(* The ring buffer, its in/out/count arithmetic and its totals implement *)
(* a FIFO queue of BUFFER_SIZE items: produce appends, consume hands the *)
(* calling process the oldest item, buffer_init empties it.  The item a  *)
(* consumer is handed is what ends up in its own memory, so a consume    *)
(* whose copyout fails after the item left the ring breaks the mapping.  *)
Queue == INSTANCE BoundedQueue
           WITH Capacity <- BUFFER_SIZE, Clients <- Threads, NoItem <- 0,
                queue <- Contents, produced <- produced_total,
                consumed <- consumed_total, ready <- initialized,
                got <- Received
QueueRefinement == Queue!Spec

(* A buffer_status that returns 0 hands its caller one consistent        *)
(* snapshot: the count it reports is the produced total minus the        *)
(* consumed total and within the ring's size, as test_prodcons.c's       *)
(* checks of the three values together assume, even while other         *)
(* processes produce, consume and re-initialise the buffer.              *)
StatusConsistent ==
  [][\A t \in Threads :
       pc[t] = "status_copyout" /\ ret'[t] = 0 =>
         /\ ustat'[t].count = ustat'[t].produced - ustat'[t].consumed
         /\ ustat'[t].count \in 0 .. BUFFER_SIZE]_vars

=============================================================================
