----------------------------- MODULE ProdCons -----------------------------
(***************************************************************************)
(* user/prodcons.c running on the kernel semaphores of Semaphore.tla.     *)
(* The parent creates the semaphores mutex (1), empty (BUFFER_SIZE) and   *)
(* full (0), forks, produces NUM_ITEMS items, waits for the child and     *)
(* destroys the semaphores; the child consumes NUM_ITEMS items.  buffer,  *)
(* in and out are user globals, so fork gives the child its own copy.     *)
(*                                                                         *)
(* Each semaphore call is a step of the Semaphore module for that process;*)
(* the program moves past the call when the module's pc is back at idle.  *)
(* pause(1) only delays and printf only prints; neither is modelled.      *)
(***************************************************************************)
EXTENDS Integers

CONSTANTS
  Parent, Child,  \* the two processes
  NSEM,           \* MAX_SEMAPHORES
  BUFFER_SIZE,
  NUM_ITEMS

Procs == {Parent, Child}

VARIABLES
  value, allocated, pc, arg, idx, killed, orphaned, sawFull, \* Semaphore
  line,    \* where each process is in main()
  i,       \* loop counter of each process
  hdl,     \* the process's locals mutex, empty and full
  ubuf,    \* each process's copy of buffer[]
  uin,     \* each process's copy of in
  uout,    \* each process's copy of out
  item     \* the child's local item

semVars == <<value, allocated, pc, arg, idx, killed, orphaned, sawFull>>
userVars == <<line, i, hdl, ubuf, uin, uout, item>>
vars == <<semVars, userVars>>

S == INSTANCE Semaphore
       WITH Threads <- Procs, StartValues <- {1, BUFFER_SIZE, 0},
            Handles <- 0 .. NSEM - 1, MaxValue <- BUFFER_SIZE, Killable <- {}

Names == {"mutex", "empty", "full"}
Index == 0 .. BUFFER_SIZE - 1

Lines == {"init_mutex", "init_empty", "init_full", "fork",
          "p_wait_empty", "p_wait_mutex", "p_write", "p_post_mutex",
          "p_post_full", "p_join", "p_destroy_mutex", "p_destroy_empty",
          "p_destroy_full", "unborn", "c_wait_full", "c_wait_mutex",
          "c_read", "c_post_mutex", "c_post_empty", "done"}

TypeOK ==
  /\ S!TypeOK
  /\ line \in [Procs -> Lines]
  /\ i \in [Procs -> 0 .. NUM_ITEMS]
  /\ hdl \in [Procs -> [Names -> Int]]
  /\ ubuf \in [Procs -> [Index -> Int]]
  /\ uin \in [Procs -> Index] /\ uout \in [Procs -> Index]
  /\ item \in Int

(* The program starts in main() of the parent; buffer, in and out are   *)
(* zeroed globals.                                                       *)
Init ==
  /\ S!Init
  /\ line = [p \in Procs |-> IF p = Parent THEN "init_mutex" ELSE "unborn"]
  /\ i = [p \in Procs |-> 0]
  /\ hdl = [p \in Procs |-> [n \in Names |-> 0]]
  /\ ubuf = [p \in Procs |-> [k \in Index |-> 0]]
  /\ uin = [p \in Procs |-> 0] /\ uout = [p \in Procs |-> 0]
  /\ item = 0

Goto(p, l) == line' = [line EXCEPT ![p] = l]

(* A semaphore system call made at line `from`: one step of Semaphore   *)
(* for process p; the program is at `to` once the call has returned.    *)
Call(p, from, to, act) ==
  /\ line[p] = from
  /\ act
  /\ Goto(p, IF pc'[p] = "idle" THEN to ELSE from)

\* sem_init(v) at line `from`, its result stored in the local `name`
SemInitCall(p, from, to, name, v) ==
  \/ /\ Call(p, from, to, S!CallSemInit(p, v))
     /\ UNCHANGED <<i, hdl, ubuf, uin, uout, item>>
  \/ /\ Call(p, from, to, S!ScanSlot(p))
     /\ hdl' = IF pc'[p] = "idle"
               THEN [hdl EXCEPT ![p][name] =
                       IF allocated' # allocated THEN idx[p] ELSE -1]
               ELSE hdl
     /\ UNCHANGED <<i, ubuf, uin, uout, item>>

\* a sem_wait, sem_post or sem_destroy that leaves user memory alone
SemCall(p, from, to, act) ==
  /\ Call(p, from, to, act)
  /\ UNCHANGED <<i, hdl, ubuf, uin, uout, item>>

\* a step of p's own code, which leaves the kernel semaphores alone
Local(p, from) == line[p] = from /\ pc[p] = "idle" /\ UNCHANGED semVars

-----------------------------------------------------------------------------
(* main() lines 21-23: create the three semaphores. *)
InitSems ==
  \/ SemInitCall(Parent, "init_mutex", "init_empty", "mutex", 1)
  \/ SemInitCall(Parent, "init_empty", "init_full", "empty", BUFFER_SIZE)
  \/ SemInitCall(Parent, "init_full", "fork", "full", 0)

(* Lines 25-33: exit(1) if a sem_init failed, else fork.  A child starts *)
(* with copies of the parent's locals and globals.  fork can fail (no     *)
(* free proc or memory in kfork); -1 is not 0, so the parent then runs    *)
(* the producer branch with no consumer.                                  *)
Fork ==
  /\ Local(Parent, "fork")
  /\ IF \E n \in Names : hdl[Parent][n] < 0
     THEN /\ Goto(Parent, "done")
          /\ UNCHANGED <<i, hdl, ubuf, uin, uout, item>>
     ELSE \/ /\ line' = [line EXCEPT ![Parent] = "p_wait_empty",
                                     ![Child] = "c_wait_full"]
             /\ hdl' = [hdl EXCEPT ![Child] = hdl[Parent]]
             /\ ubuf' = [ubuf EXCEPT ![Child] = ubuf[Parent]]
             /\ uin' = [uin EXCEPT ![Child] = uin[Parent]]
             /\ uout' = [uout EXCEPT ![Child] = uout[Parent]]
             /\ UNCHANGED <<i, item>>
          \/ /\ Goto(Parent, "p_wait_empty")
             /\ UNCHANGED <<i, hdl, ubuf, uin, uout, item>>

(* Mutant: the producer writes without taking mutex. *)
ProducerNoMutex ==
  LET p == Parent IN
  \/ SemCall(p, "p_wait_empty", "p_write", S!SemWait(p, hdl[p]["empty"]))
  \/ SemCall(p, "p_wait_mutex", "p_write", S!SemWait(p, hdl[p]["mutex"]))
  \/ SemCall(p, "p_wait_empty", "p_write", S!WaitRecheck(p))
  \/ SemCall(p, "p_wait_mutex", "p_write", S!WaitRecheck(p))
  \/ /\ Local(p, "p_write")
     /\ ubuf' = [ubuf EXCEPT ![p][uin[p]] = i[p]]
     /\ uin' = [uin EXCEPT ![p] = (@ + 1) % BUFFER_SIZE]
     /\ Goto(p, "p_post_mutex")
     /\ UNCHANGED <<i, hdl, uout, item>>
  \/ SemCall(p, "p_post_mutex", "p_post_full", S!SemPost(p, hdl[p]["mutex"]))
  \/ /\ line[p] = "p_post_full"
     /\ S!SemPost(p, hdl[p]["full"])
     /\ i' = [i EXCEPT ![p] = @ + 1]
     /\ Goto(p, IF i[p] + 1 < NUM_ITEMS THEN "p_wait_empty" ELSE "p_join")
     /\ UNCHANGED <<hdl, ubuf, uin, uout, item>>

(* Producer loop, lines 51-63. *)
Producer ==
  LET p == Parent IN
  \/ SemCall(p, "p_wait_empty", "p_wait_mutex", S!SemWait(p, hdl[p]["empty"]))
  \/ SemCall(p, "p_wait_mutex", "p_write", S!SemWait(p, hdl[p]["mutex"]))
  \/ SemCall(p, "p_wait_empty", "p_wait_mutex", S!WaitRecheck(p))
  \/ SemCall(p, "p_wait_mutex", "p_write", S!WaitRecheck(p))
  \/ /\ Local(p, "p_write")
     /\ ubuf' = [ubuf EXCEPT ![p][uin[p]] = i[p]]
     /\ uin' = [uin EXCEPT ![p] = (@ + 1) % BUFFER_SIZE]
     /\ Goto(p, "p_post_mutex")
     /\ UNCHANGED <<i, hdl, uout, item>>
  \/ SemCall(p, "p_post_mutex", "p_post_full", S!SemPost(p, hdl[p]["mutex"]))
  \/ /\ line[p] = "p_post_full"
     /\ S!SemPost(p, hdl[p]["full"])
     /\ i' = [i EXCEPT ![p] = @ + 1]
     /\ Goto(p, IF i[p] + 1 < NUM_ITEMS THEN "p_wait_empty" ELSE "p_join")
     /\ UNCHANGED <<hdl, ubuf, uin, uout, item>>

(* Lines 65-70: wait(0) returns once the child has exited, or at once   *)
(* (-1) when fork failed and there is no child; then destroy.           *)
Cleanup ==
  LET p == Parent IN
  \/ /\ Local(p, "p_join") /\ line[Child] \in {"done", "unborn"}
     /\ Goto(p, "p_destroy_mutex")
     /\ UNCHANGED <<i, hdl, ubuf, uin, uout, item>>
  \/ SemCall(p, "p_destroy_mutex", "p_destroy_empty", S!SemDestroy(p, hdl[p]["mutex"]))
  \/ SemCall(p, "p_destroy_empty", "p_destroy_full", S!SemDestroy(p, hdl[p]["empty"]))
  \/ SemCall(p, "p_destroy_full", "done", S!SemDestroy(p, hdl[p]["full"]))

(* Mutant: out is advanced without % BUFFER_SIZE. *)
ConsumerNoWrap ==
  LET c == Child IN
  \/ SemCall(c, "c_wait_full", "c_wait_mutex", S!SemWait(c, hdl[c]["full"]))
  \/ SemCall(c, "c_wait_mutex", "c_read", S!SemWait(c, hdl[c]["mutex"]))
  \/ SemCall(c, "c_wait_full", "c_wait_mutex", S!WaitRecheck(c))
  \/ SemCall(c, "c_wait_mutex", "c_read", S!WaitRecheck(c))
  \/ /\ Local(c, "c_read")
     /\ item' = ubuf[c][uout[c]]
     /\ uout' = [uout EXCEPT ![c] = @ + 1]
     /\ Goto(c, "c_post_mutex")
     /\ UNCHANGED <<i, hdl, ubuf, uin>>
  \/ SemCall(c, "c_post_mutex", "c_post_empty", S!SemPost(c, hdl[c]["mutex"]))
  \/ /\ line[c] = "c_post_empty"
     /\ S!SemPost(c, hdl[c]["empty"])
     /\ i' = [i EXCEPT ![c] = @ + 1]
     /\ Goto(c, IF i[c] + 1 < NUM_ITEMS THEN "c_wait_full" ELSE "done")
     /\ UNCHANGED <<hdl, ubuf, uin, uout, item>>

(* Mutant: the consumer signals mutex where it should signal empty. *)
ConsumerPostsMutex ==
  LET c == Child IN
  \/ SemCall(c, "c_wait_full", "c_wait_mutex", S!SemWait(c, hdl[c]["full"]))
  \/ SemCall(c, "c_wait_mutex", "c_read", S!SemWait(c, hdl[c]["mutex"]))
  \/ SemCall(c, "c_wait_full", "c_wait_mutex", S!WaitRecheck(c))
  \/ SemCall(c, "c_wait_mutex", "c_read", S!WaitRecheck(c))
  \/ /\ Local(c, "c_read")
     /\ item' = ubuf[c][uout[c]]
     /\ uout' = [uout EXCEPT ![c] = (@ + 1) % BUFFER_SIZE]
     /\ Goto(c, "c_post_mutex")
     /\ UNCHANGED <<i, hdl, ubuf, uin>>
  \/ SemCall(c, "c_post_mutex", "c_post_empty", S!SemPost(c, hdl[c]["mutex"]))
  \/ /\ line[c] = "c_post_empty"
     /\ S!SemPost(c, hdl[c]["mutex"])
     /\ i' = [i EXCEPT ![c] = @ + 1]
     /\ Goto(c, IF i[c] + 1 < NUM_ITEMS THEN "c_wait_full" ELSE "done")
     /\ UNCHANGED <<hdl, ubuf, uin, uout, item>>

(* Mutant: the consumer loop runs once more, i <= NUM_ITEMS. *)
ConsumerExtraRound ==
  LET c == Child IN
  \/ SemCall(c, "c_wait_full", "c_wait_mutex", S!SemWait(c, hdl[c]["full"]))
  \/ SemCall(c, "c_wait_mutex", "c_read", S!SemWait(c, hdl[c]["mutex"]))
  \/ SemCall(c, "c_wait_full", "c_wait_mutex", S!WaitRecheck(c))
  \/ SemCall(c, "c_wait_mutex", "c_read", S!WaitRecheck(c))
  \/ /\ Local(c, "c_read")
     /\ item' = ubuf[c][uout[c]]
     /\ uout' = [uout EXCEPT ![c] = (@ + 1) % BUFFER_SIZE]
     /\ Goto(c, "c_post_mutex")
     /\ UNCHANGED <<i, hdl, ubuf, uin>>
  \/ SemCall(c, "c_post_mutex", "c_post_empty", S!SemPost(c, hdl[c]["mutex"]))
  \/ /\ line[c] = "c_post_empty"
     /\ S!SemPost(c, hdl[c]["empty"])
     /\ i' = [i EXCEPT ![c] = @ + 1]
     /\ Goto(c, IF i[c] + 1 <= NUM_ITEMS THEN "c_wait_full" ELSE "done")
     /\ UNCHANGED <<hdl, ubuf, uin, uout, item>>

(* Consumer loop, lines 35-48. *)
Consumer ==
  LET c == Child IN
  \/ SemCall(c, "c_wait_full", "c_wait_mutex", S!SemWait(c, hdl[c]["full"]))
  \/ SemCall(c, "c_wait_mutex", "c_read", S!SemWait(c, hdl[c]["mutex"]))
  \/ SemCall(c, "c_wait_full", "c_wait_mutex", S!WaitRecheck(c))
  \/ SemCall(c, "c_wait_mutex", "c_read", S!WaitRecheck(c))
  \/ /\ Local(c, "c_read")
     /\ item' = ubuf[c][uout[c]]
     /\ uout' = [uout EXCEPT ![c] = (@ + 1) % BUFFER_SIZE]
     /\ Goto(c, "c_post_mutex")
     /\ UNCHANGED <<i, hdl, ubuf, uin>>
  \/ SemCall(c, "c_post_mutex", "c_post_empty", S!SemPost(c, hdl[c]["mutex"]))
  \/ /\ line[c] = "c_post_empty"
     /\ S!SemPost(c, hdl[c]["empty"])
     /\ i' = [i EXCEPT ![c] = @ + 1]
     /\ Goto(c, IF i[c] + 1 < NUM_ITEMS THEN "c_wait_full" ELSE "done")
     /\ UNCHANGED <<hdl, ubuf, uin, uout, item>>

Next == InitSems \/ Fork \/ Producer \/ Cleanup \/ Consumer

(* Both processes are runnable whenever they are not asleep in sem_wait, *)
(* and the scheduler eventually runs each of them.                       *)
Fairness ==
  /\ WF_vars(InitSems \/ Fork \/ Producer \/ Cleanup)
  /\ WF_vars(Consumer)

Spec == Init /\ [][Next]_vars

FairSpec == Spec /\ Fairness

-----------------------------------------------------------------------------
(* Properties. *)

\* the parent is between taking mutex and posting it; likewise the child
ProducerInCS == line[Parent] \in {"p_write", "p_post_mutex"}
ConsumerInCS == line[Child] \in {"c_read", "c_post_mutex"}

(* The mutex semaphore keeps the producer's write of buffer[in] and the  *)
(* consumer's read of buffer[out] apart.                                 *)
MutualExclusion == ~(ProducerInCS /\ ConsumerInCS)

\* the producer holds an empty slot it has not yet posted to full
ProducerHolds == line[Parent] \in {"p_wait_mutex", "p_write", "p_post_mutex", "p_post_full"}
\* the consumer holds a full slot it has not yet posted to empty
ConsumerHolds == line[Child] \in {"c_wait_mutex", "c_read", "c_post_mutex", "c_post_empty"}
\* from the fork until the parent starts destroying them
SemsLive == line[Parent] \in {"p_wait_empty", "p_wait_mutex", "p_write",
                              "p_post_mutex", "p_post_full", "p_join"}

(* Slot accounting: while the semaphores live, the counts of empty and   *)
(* full plus the slots each process has taken and not yet handed on add  *)
(* up to BUFFER_SIZE.                                                    *)
SlotAccounting ==
  SemsLive =>
    value[hdl[Parent]["empty"]] + value[hdl[Parent]["full"]]
      + (IF ProducerHolds THEN 1 ELSE 0) + (IF ConsumerHolds THEN 1 ELSE 0)
      = BUFFER_SIZE

\* fork has returned a child
Forked == line[Child] # "unborn"

(* Once fork has created the consumer, the program runs to completion:   *)
(* the wait/post protocol on mutex, empty and full lets both loops finish *)
(* their NUM_ITEMS rounds, wait(0) returns, and both processes exit.      *)
(* When fork fails the parent produces alone and blocks in               *)
(* sem_wait(empty) once the buffer is full, so the promise is only made   *)
(* of a forked program.                                                  *)
Terminates == Forked ~> (\A p \in Procs : line[p] = "done")

(* The comments and output of prodcons.c say the consumer consumes the   *)
(* items the producer produced: its k-th read returns item k-1.           *)
ConsumerReadsProduced ==
  [][line[Child] = "c_read" /\ line'[Child] = "c_post_mutex" => item' = i[Child]]_vars

=============================================================================
