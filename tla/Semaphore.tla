----------------------------- MODULE Semaphore -----------------------------
(***************************************************************************)
(* The kernel semaphore table of src/kernel/semaphore.c, with the parts of *)
(* xv6 it relies on: sleep(chan, lk), wakeup(chan), kill and the killed    *)
(* check that usertrap makes around every system call.                    *)
(*                                                                         *)
(* Every slot operation runs under the slot's spinlock, so each locked     *)
(* region is one atomic step.  The places where the lock is let go are     *)
(* separate steps: sem_init releases every slot lock before it looks at    *)
(* the next slot, and sem_wait gives up the lock inside sleep() and takes  *)
(* it again when it is woken.  sleep() releases the lock and parks the     *)
(* thread atomically (it holds p->lock, which wakeup must take), so going  *)
(* to sleep is part of the step that found value <= 0.                    *)
(***************************************************************************)
EXTENDS Integers, FiniteSets

CONSTANTS
  Threads,      \* processes calling the semaphore system calls
  NSEM,         \* MAX_SEMAPHORES
  StartValues,  \* values passed to sem_init
  Handles,      \* handles passed to sem_wait, sem_post and sem_destroy
  MaxValue,     \* model bound: sem_post is not called on a slot at MaxValue
  Killable      \* model bound: the processes that kill(pid) may be aimed at

ASSUME /\ NSEM \in Nat \ {0}
       /\ StartValues \subseteq Int
       /\ Handles \subseteq Int
       /\ MaxValue \in Nat
       /\ Killable \subseteq Threads

Slots == 0 .. NSEM - 1

VARIABLES
  value,      \* semaphores[i].value
  allocated,  \* semaphores[i].allocated
  pc,         \* where each thread is: idle, in sem_init's scan, asleep in
              \* sem_wait, woken (runnable, about to retake the lock), exited
  arg,        \* the argument of the thread's current call
  idx,        \* loop index i of sem_init's scan
  killed,     \* p->killed
  orphaned,   \* history: waiters whose semaphore was destroyed under them
  sawFull     \* history: the table was full at some point of this sem_init

vars == <<value, allocated, pc, arg, idx, killed, orphaned, sawFull>>

PCs == {"idle", "scan", "asleep", "woken", "exited"}

TypeOK ==
  /\ value \in [Slots -> Int]
  /\ allocated \in [Slots -> BOOLEAN]
  /\ pc \in [Threads -> PCs]
  /\ arg \in [Threads -> Int]
  /\ idx \in [Threads -> Slots]
  /\ killed \in [Threads -> BOOLEAN]
  /\ orphaned \subseteq Threads
  /\ sawFull \in [Threads -> BOOLEAN]

\* the table has no free slot
Full(alloc) == \A i \in Slots : alloc[i]

\* the range check and the allocated check that every call on a handle makes
Valid(h) == h \in Slots /\ allocated[h]

\* thread t is inside sem_wait on slot s, asleep or about to recheck
Waiting(t, s) == pc[t] \in {"asleep", "woken"} /\ arg[t] = s

(* seminit: every slot free with value 0. *)
Init ==
  /\ value = [i \in Slots |-> 0]
  /\ allocated = [i \in Slots |-> FALSE]
  /\ pc = [t \in Threads |-> "idle"]
  /\ arg = [t \in Threads |-> 0]
  /\ idx = [t \in Threads |-> 0]
  /\ killed = [t \in Threads |-> FALSE]
  /\ orphaned = {}
  /\ sawFull = [t \in Threads |-> FALSE]

(* Return from a system call: the call's locals are gone.  The value     *)
(* returned is not kept; properties read it off the step that returns.   *)
Return(t) ==
  /\ arg' = [arg EXCEPT ![t] = 0]
  /\ idx' = [idx EXCEPT ![t] = 0]
  /\ orphaned' = orphaned \ {t}

After(t) == IF killed[t] THEN "exited" ELSE "idle"

\* a step that changes which slots are allocated updates every scan's history
NoteFull == sawFull' = [u \in Threads |-> sawFull[u] \/ (pc[u] = "scan" /\ Full(allocated'))]

-----------------------------------------------------------------------------
(* sem_init(value): entering the call; usertrap has not seen a kill. *)
CallSemInit(t, v) ==
  /\ pc[t] = "idle" /\ ~killed[t]
  /\ pc' = [pc EXCEPT ![t] = "scan"]
  /\ arg' = [arg EXCEPT ![t] = v]
  /\ sawFull' = [sawFull EXCEPT ![t] = Full(allocated)]
  /\ UNCHANGED <<value, allocated, idx, killed, orphaned>>

(* Mutant: the loop runs one slot too far, for(i = 0; i <= MAX; i++). *)
ScanSlotPastEnd(t) ==
  LET i == idx[t] IN
  /\ pc[t] = "scan"
  /\ \/ /\ ~allocated[i]
        /\ allocated' = [allocated EXCEPT ![i] = TRUE]
        /\ value' = [value EXCEPT ![i] = arg[t]]
        /\ pc' = [pc EXCEPT ![t] = After(t)]
        /\ Return(t)
        /\ NoteFull
     \/ /\ allocated[i] /\ i + 1 <= NSEM
        /\ idx' = [idx EXCEPT ![t] = i + 1]
        /\ UNCHANGED <<value, allocated, pc, arg, orphaned, sawFull>>
     \/ /\ allocated[i] /\ i + 1 = NSEM
        /\ pc' = [pc EXCEPT ![t] = After(t)]
        /\ Return(t)
        /\ UNCHANGED <<value, allocated, sawFull>>
  /\ UNCHANGED killed

(* One iteration of sem_init's loop, between acquire and release of      *)
(* semaphores[i].lock: take the slot if it is free, else move on, and    *)
(* return -1 after the last slot.                                         *)
ScanSlot(t) ==
  LET i == idx[t] IN
  /\ pc[t] = "scan"
  /\ \/ /\ ~allocated[i]
        /\ allocated' = [allocated EXCEPT ![i] = TRUE]
        /\ value' = [value EXCEPT ![i] = arg[t]]
        /\ pc' = [pc EXCEPT ![t] = After(t)]
        /\ Return(t)
        /\ NoteFull
     \/ /\ allocated[i] /\ i + 1 < NSEM
        /\ idx' = [idx EXCEPT ![t] = i + 1]
        /\ UNCHANGED <<value, allocated, pc, arg, orphaned, sawFull>>
     \/ /\ allocated[i] /\ i + 1 = NSEM
        /\ pc' = [pc EXCEPT ![t] = After(t)]
        /\ Return(t)
        /\ UNCHANGED <<value, allocated, sawFull>>
  /\ UNCHANGED killed

(* Mutant: the take test is value != 0, as if the count were unsigned. *)
SemWaitNonZero(t, h) ==
  /\ pc[t] = "idle" /\ ~killed[t]
  /\ \/ /\ ~Valid(h)
        /\ Return(t)
        /\ UNCHANGED <<value, pc>>
     \/ /\ Valid(h) /\ value[h] # 0
        /\ value' = [value EXCEPT ![h] = @ - 1]
        /\ Return(t)
        /\ UNCHANGED pc
     \/ /\ Valid(h) /\ value[h] = 0
        /\ pc' = [pc EXCEPT ![t] = "asleep"]
        /\ arg' = [arg EXCEPT ![t] = h]
        /\ UNCHANGED <<value, idx, orphaned>>
  /\ UNCHANGED <<allocated, killed, sawFull>>

(* sem_wait(h): range check, then under the slot lock the allocated      *)
(* check, and either take a unit or go to sleep on &semaphores[h].        *)
SemWait(t, h) ==
  /\ pc[t] = "idle" /\ ~killed[t]
  /\ \/ /\ ~Valid(h)
        /\ Return(t)
        /\ UNCHANGED <<value, pc>>
     \/ /\ Valid(h) /\ value[h] > 0
        /\ value' = [value EXCEPT ![h] = @ - 1]
        /\ Return(t)
        /\ UNCHANGED pc
     \/ /\ Valid(h) /\ value[h] <= 0
        /\ pc' = [pc EXCEPT ![t] = "asleep"]
        /\ arg' = [arg EXCEPT ![t] = h]
        /\ UNCHANGED <<value, idx, orphaned>>
  /\ UNCHANGED <<allocated, killed, sawFull>>

(* A woken waiter returns from sleep() holding the lock again and        *)
(* re-evaluates the while condition; allocated is not looked at again.   *)
WaitRecheck(t) ==
  LET h == arg[t] IN
  /\ pc[t] = "woken"
  /\ \/ /\ value[h] > 0
        /\ value' = [value EXCEPT ![h] = @ - 1]
        /\ pc' = [pc EXCEPT ![t] = After(t)]
        /\ Return(t)
     \/ /\ value[h] <= 0
        /\ pc' = [pc EXCEPT ![t] = "asleep"]
        /\ UNCHANGED <<value, arg, idx, orphaned>>
  /\ UNCHANGED <<allocated, killed, sawFull>>

(* Mutant: sem_post wakes a single sleeper on the channel. *)
SemPostWakeOne(t, h) ==
  /\ pc[t] = "idle" /\ ~killed[t]
  /\ \/ /\ ~Valid(h)
        /\ Return(t)
        /\ UNCHANGED <<value, pc>>
     \/ /\ Valid(h)
        /\ value[h] < MaxValue
        /\ value' = [value EXCEPT ![h] = @ + 1]
        /\ pc' = IF \E u \in Threads : pc[u] = "asleep" /\ arg[u] = h
                 THEN LET w == CHOOSE u \in Threads : pc[u] = "asleep" /\ arg[u] = h
                      IN [pc EXCEPT ![w] = "woken"]
                 ELSE pc
        /\ Return(t)
  /\ UNCHANGED <<allocated, killed, sawFull>>

(* Mutant: sem_post without the wakeup call. *)
SemPostNoWakeup(t, h) ==
  /\ pc[t] = "idle" /\ ~killed[t]
  /\ \/ /\ ~Valid(h)
        /\ Return(t)
        /\ UNCHANGED <<value, pc>>
     \/ /\ Valid(h)
        /\ value[h] < MaxValue
        /\ value' = [value EXCEPT ![h] = @ + 1]
        /\ Return(t)
        /\ UNCHANGED pc
  /\ UNCHANGED <<allocated, killed, sawFull>>

(* sem_post(h): increment under the lock and wakeup(&semaphores[h]),     *)
(* which makes every process sleeping on that channel runnable.          *)
SemPost(t, h) ==
  /\ pc[t] = "idle" /\ ~killed[t]
  /\ \/ /\ ~Valid(h)
        /\ Return(t)
        /\ UNCHANGED <<value, pc>>
     \/ /\ Valid(h)
        /\ value[h] < MaxValue
        /\ value' = [value EXCEPT ![h] = @ + 1]
        /\ pc' = [u \in Threads |->
                    IF pc[u] = "asleep" /\ arg[u] = h THEN "woken" ELSE pc[u]]
        /\ Return(t)
  /\ UNCHANGED <<allocated, killed, sawFull>>

(* Mutant: sem_destroy clears allocated but leaves the count. *)
SemDestroyKeepValue(t, h) ==
  /\ pc[t] = "idle" /\ ~killed[t]
  /\ \/ /\ ~Valid(h)
        /\ Return(t)
        /\ UNCHANGED <<value, allocated, sawFull>>
     \/ /\ Valid(h)
        /\ allocated' = [allocated EXCEPT ![h] = FALSE]
        /\ orphaned' = orphaned \cup {u \in Threads : Waiting(u, h)}
        /\ NoteFull
        /\ UNCHANGED <<value, arg, idx>>
  /\ UNCHANGED <<pc, killed>>

(* sem_destroy(h): free the slot and zero it; nobody sleeping on it is   *)
(* woken.                                                                *)
SemDestroy(t, h) ==
  /\ pc[t] = "idle" /\ ~killed[t]
  /\ \/ /\ ~Valid(h)
        /\ Return(t)
        /\ UNCHANGED <<value, allocated, sawFull>>
     \/ /\ Valid(h)
        /\ allocated' = [allocated EXCEPT ![h] = FALSE]
        /\ value' = [value EXCEPT ![h] = 0]
        /\ orphaned' = orphaned \cup {u \in Threads : Waiting(u, h)}
        /\ NoteFull
        /\ UNCHANGED <<arg, idx>>
  /\ UNCHANGED <<pc, killed>>

(* kill(pid): set killed and make a sleeping process runnable. *)
Kill(t) ==
  /\ t \in Killable /\ ~killed[t] /\ pc[t] # "exited"
  /\ killed' = [killed EXCEPT ![t] = TRUE]
  /\ pc' = [pc EXCEPT ![t] = IF @ = "asleep" THEN "woken" ELSE @]
  /\ UNCHANGED <<value, allocated, arg, idx, orphaned, sawFull>>

(* A killed process running in user space traps and exits. *)
ExitKilled(t) ==
  /\ pc[t] = "idle" /\ killed[t]
  /\ pc' = [pc EXCEPT ![t] = "exited"]
  /\ UNCHANGED <<value, allocated, arg, idx, killed, orphaned, sawFull>>

-----------------------------------------------------------------------------
Next ==
  \E t \in Threads :
    \/ \E v \in StartValues : CallSemInit(t, v)
    \/ ScanSlot(t)
    \/ \E h \in Handles : SemWait(t, h)
    \/ WaitRecheck(t)
    \/ \E h \in Handles : SemPost(t, h)
    \/ \E h \in Handles : SemDestroy(t, h)
    \/ Kill(t)
    \/ ExitKilled(t)

(* The scheduler eventually runs every runnable process, so the kernel   *)
(* steps of a call in progress are weakly fair; a process need never     *)
(* make another call, and nobody has to kill it.                         *)
Fairness ==
  \A t \in Threads :
    /\ WF_vars(ScanSlot(t))
    /\ WF_vars(WaitRecheck(t))
    /\ WF_vars(ExitKilled(t))

Spec == Init /\ [][Next]_vars

FairSpec == Spec /\ Fairness

-----------------------------------------------------------------------------
(* Properties. *)

(* No lost wakeup: a process asleep in sem_wait on a semaphore that is   *)
(* still the one it started waiting on sleeps only while the count is    *)
(* not positive.  sem_post raises the count and wakes the channel in one *)
(* locked region; sleep() parks before the lock can be taken by a poster.*)
NoLostWakeup ==
  \A t \in Threads \ orphaned :
    pc[t] = "asleep" => value[arg[t]] <= 0

(* A waiter is never stranded next to a free unit: once a process is in  *)
(* sem_wait on s and s has a positive count, eventually it has left      *)
(* sem_wait or the count is gone again (taken by it or by a rival woken  *)
(* by the same broadcast).                                               *)
WaiterProgress ==
  \A t \in Threads, s \in Slots :
    (Waiting(t, s) /\ t \notin orphaned /\ value[s] > 0)
      ~> (~Waiting(t, s) \/ value[s] <= 0)

(* The locked regions of sem_init, sem_wait, sem_post and sem_destroy    *)
(* change the table only as the atomic operations of SemaphoreTable do.  *)
Table == INSTANCE SemaphoreTable
TableRefinement == Table!Spec

(* spec.md section 9: a waiter whose semaphore is destroyed is left      *)
(* asleep.  If the slot is created again and posted, the old waiter's    *)
(* sem_wait returns 0 with a unit of the new, unrelated semaphore.       *)
(* Stated here as the property one would want: it never does.            *)
OrphanNeverGranted ==
  [][\A t \in orphaned : pc[t] = "woken" => pc'[t] \in {"woken", "asleep"}]_vars

(* spec.md section 7: sem_init reports exhaustion (-1) only when no slot *)
(* was free; with per-slot locks it is enough that the table was full at *)
(* some moment of the call.                                              *)
InitFailsOnlyWhenFull ==
  [][\A t \in Threads :
       (pc[t] = "scan" /\ idx[t] = NSEM - 1 /\ allocated[idx[t]]
          /\ pc'[t] # "scan") => sawFull[t]]_vars

(* spec.md section 4.2: a process killed while blocked in sem_wait is    *)
(* taken out of the wait by the termination path and exits.              *)
KilledWaiterExits ==
  \A t \in Threads : killed[t] ~> pc[t] = "exited"

=============================================================================
