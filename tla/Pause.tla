------------------------------- MODULE Pause -------------------------------
(***************************************************************************)
(* sys_pause of src/kernel/sysproc.c with the xv6 parts it relies on: the *)
(* clock interrupt (ticks++ and wakeup(&ticks) under tickslock), kill,    *)
(* which makes a sleeping process runnable, and the killed check of       *)
(* usertrap; and sys_settickets, the other call of sysproc.c that       *)
(* changes the caller's own proc (sys_uptime only reads ticks).  ticks   *)
(* is a uint, so it is kept modulo 2^WIDTH; the model shrinks the 32     *)
(* bits to WIDTH and the arguments with them.                            *)
(*                                                                         *)
(* Everything sys_pause does between acquire(&tickslock) and sleep, or    *)
(* between being woken and the next sleep or return, is one step: the    *)
(* lock is held throughout, and sleep parks the process atomically.       *)
(***************************************************************************)
EXTENDS Integers

CONSTANTS
  Threads,  \* processes calling pause
  WIDTH,    \* bits of uint, 32
  Args,     \* values passed to pause(n)
  TicketArgs,      \* values passed to settickets(n)
  DEFAULT_TICKETS  \* p->tickets as allocproc (proc.c) leaves it

ASSUME /\ WIDTH \in Nat \ {0}
       /\ Args \subseteq -(2^WIDTH) .. 2^(WIDTH - 1) - 1
       /\ TicketArgs \subseteq -(2^WIDTH) .. 2^(WIDTH - 1) - 1
       /\ DEFAULT_TICKETS \in Nat \ {0}

UINT == 2^WIDTH

VARIABLES
  ticks,    \* the global tick counter
  pc,       \* idle (in user space), asleep on &ticks, woken, exited
  n,        \* the clamped argument of the current pause
  ticks0,   \* ticks when the current pause began
  ret,      \* the value the last pause returned
  killed,   \* p->killed
  elapsed,  \* history: clock ticks since the current pause began
  tickets   \* p->tickets

vars == <<ticks, pc, n, ticks0, ret, killed, elapsed, tickets>>

TypeOK ==
  /\ ticks \in 0 .. UINT - 1
  /\ pc \in [Threads -> {"idle", "asleep", "woken", "exited"}]
  /\ n \in [Threads -> 0 .. UINT - 1]
  /\ ticks0 \in [Threads -> 0 .. UINT - 1]
  /\ ret \in [Threads -> {0, -1}]
  /\ killed \in [Threads -> BOOLEAN]
  /\ elapsed \in [Threads -> 0 .. UINT]
  /\ tickets \in [Threads -> Int]

Init ==
  /\ ticks \in 0 .. UINT - 1
  /\ pc = [t \in Threads |-> "idle"]
  /\ n = [t \in Threads |-> 0]
  /\ ticks0 = [t \in Threads |-> 0]
  /\ ret = [t \in Threads |-> 0]
  /\ killed = [t \in Threads |-> FALSE]
  /\ elapsed = [t \in Threads |-> 0]
  /\ tickets = [t \in Threads |-> DEFAULT_TICKETS]

(* Mutant: the naive test ticks < ticks0 + n, wrong once ticks wraps. *)
StillWaitingNaive(t) == ticks < (ticks0[t] + n[t]) % UINT

\* ticks - ticks0 < n, in unsigned arithmetic (n >= 0 is converted to uint)
StillWaiting(t) == (ticks - ticks0[t]) % UINT < n[t]

\* leave the kernel with value v; the locals n, ticks0 (and the history
\* elapsed) are dead once the call has returned
Return(t, v) ==
  /\ pc' = [pc EXCEPT ![t] = "idle"]
  /\ ret' = [ret EXCEPT ![t] = v]
  /\ n' = [n EXCEPT ![t] = 0]
  /\ ticks0' = [ticks0 EXCEPT ![t] = 0]
  /\ elapsed' = [elapsed EXCEPT ![t] = 0]

Sleep(t) ==
  /\ pc' = [pc EXCEPT ![t] = "asleep"]
  /\ UNCHANGED <<ret, n, ticks0, elapsed>>

\* one pass of the while loop, under tickslock: return -1 if killed,
\* sleep if the time is not up, return 0 otherwise
LoopStep(t) ==
  IF StillWaiting(t)
  THEN IF killed[t]
       THEN Return(t, -1)
       ELSE Sleep(t)
  ELSE Return(t, 0)

(* Mutant: n < 0 is not clamped; the test 0 < n is then made on (uint)n. *)
SysPauseNoClamp(t, k) ==
  /\ pc[t] = "idle" /\ ~killed[t]
  /\ IF k # 0
     THEN /\ n' = [n EXCEPT ![t] = k]
          /\ ticks0' = [ticks0 EXCEPT ![t] = ticks]
          /\ pc' = [pc EXCEPT ![t] = "asleep"]
          /\ UNCHANGED <<ret, elapsed>>
     ELSE Return(t, 0)
  /\ UNCHANGED <<ticks, killed, tickets>>

\* the system call: clamp n, record ticks0, then the first pass of the
\* loop, where ticks - ticks0 = 0 < n holds iff n > 0
SysPause(t, k) ==
  /\ pc[t] = "idle" /\ ~killed[t]
  /\ IF k > 0
     THEN /\ n' = [n EXCEPT ![t] = k]
          /\ ticks0' = [ticks0 EXCEPT ![t] = ticks]
          /\ pc' = [pc EXCEPT ![t] = "asleep"]
          /\ UNCHANGED <<ret, elapsed>>
     ELSE Return(t, 0)
  /\ UNCHANGED <<ticks, killed, tickets>>

\* a woken pause retakes tickslock and runs the loop again
PauseRecheck(t) ==
  /\ pc[t] = "woken"
  /\ LoopStep(t)
  /\ UNCHANGED <<ticks, killed, tickets>>

WakeAll(p) == [t \in Threads |-> IF p[t] = "asleep" THEN "woken" ELSE p[t]]

(* Mutant: the clock interrupt does not call wakeup(&ticks). *)
ClockTickNoWakeup ==
  /\ \A t \in Threads : pc[t] \in {"asleep", "woken"} => elapsed[t] < UINT - 1
  /\ ticks' = (ticks + 1) % UINT
  /\ elapsed' = [t \in Threads |->
                   IF pc[t] \in {"asleep", "woken"}
                   THEN elapsed[t] + 1 ELSE elapsed[t]]
  /\ UNCHANGED <<pc, n, ticks0, ret, killed, tickets>>

\* timing assumption: a process inside pause runs again before ticks has
\* come round to ticks0 (2^32 ticks in xv6); without it a woken process
\* that is not scheduled for a whole cycle sees ticks - ticks0 < n again
InTimeWindow == \A t \in Threads :
                  pc[t] \in {"asleep", "woken"} => elapsed[t] < UINT - 1

\* clockintr: ticks++ and wakeup(&ticks)
ClockTick ==
  /\ InTimeWindow
  /\ ticks' = (ticks + 1) % UINT
  /\ pc' = WakeAll(pc)
  /\ elapsed' = [t \in Threads |->
                   IF pc[t] \in {"asleep", "woken"}
                   THEN elapsed[t] + 1 ELSE elapsed[t]]
  /\ UNCHANGED <<n, ticks0, ret, killed, tickets>>

\* sys_kill / kkill: set killed and make a sleeping process runnable
Kill(t) ==
  /\ pc[t] # "exited" /\ ~killed[t]
  /\ killed' = [killed EXCEPT ![t] = TRUE]
  /\ pc' = IF pc[t] = "asleep" THEN [pc EXCEPT ![t] = "woken"] ELSE pc
  /\ UNCHANGED <<ticks, n, ticks0, ret, elapsed, tickets>>

\* usertrap: a killed process in user space exits
ExitKilled(t) ==
  /\ pc[t] = "idle" /\ killed[t]
  /\ pc' = [pc EXCEPT ![t] = "exited"]
  /\ UNCHANGED <<ticks, n, ticks0, ret, killed, elapsed, tickets>>

\* sys_settickets(n): at least one ticket, set under p->lock; returns 0
SysSettickets(t, k) ==
  /\ pc[t] = "idle" /\ ~killed[t]
  /\ tickets' = [tickets EXCEPT ![t] = IF k < 1 THEN 1 ELSE k]
  /\ Return(t, 0)
  /\ UNCHANGED <<ticks, killed>>

Next ==
  \/ ClockTick
  \/ \E t \in Threads :
       \/ \E k \in Args : SysPause(t, k)
       \/ PauseRecheck(t)
       \/ Kill(t)
       \/ ExitKilled(t)
       \/ \E k \in TicketArgs : SysSettickets(t, k)

\* the clock interrupts periodically; the scheduler runs every runnable
\* process; kill and new calls are up to the user
Fairness ==
  /\ WF_vars(ClockTick)
  /\ \A t \in Threads : WF_vars(PauseRecheck(t)) /\ WF_vars(ExitKilled(t))

Spec == Init /\ [][Next]_vars

FairSpec == Spec /\ Fairness

-----------------------------------------------------------------------------
(* pause(n) that returns 0 has slept through at least n clock ticks, also *)
(* when ticks wraps around during the pause (the unsigned subtraction in   *)
(* the while condition of sys_pause).                                      *)
PauseLongEnough ==
  [][\A t \in Threads :
       pc[t] = "woken" /\ pc'[t] = "idle" /\ ret'[t] = 0 => elapsed[t] >= n[t]]_vars

(* Every pause ends: a sleeping process eventually returns to user space  *)
(* or exits, given periodic clock interrupts and a fair scheduler.        *)
PauseReturns ==
  \A t \in Threads : pc[t] = "asleep" ~> pc[t] \in {"idle", "exited"}

=============================================================================
