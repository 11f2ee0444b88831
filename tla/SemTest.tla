------------------------------ MODULE SemTest ------------------------------
(***************************************************************************)
(* user/semtest.c run by several processes at once (the shell's           *)
(* `semtest & semtest`) on the kernel semaphores of Semaphore.tla.  Each  *)
(* process creates sem1 (1), sem2 (5) and sem3 (0), waits and posts on   *)
(* them, destroys them, and then checks that a wait on the destroyed sem1 *)
(* and a destroy of handle 99 are rejected.                               *)
(*                                                                         *)
(* The table is shared by all processes; a handle is a slot index with no *)
(* generation, so a slot one process has destroyed can be created again  *)
(* by another.  printf is left out.                                       *)
(***************************************************************************)
EXTENDS Integers

CONSTANTS
  Procs,  \* the processes running semtest
  NSEM    \* MAX_SEMAPHORES

VARIABLES
  value, allocated, pc, arg, idx, killed, orphaned, sawFull, \* Semaphore
  line,   \* where each process is in main()
  i,      \* the loop counter of lines 38 and 46
  hdl     \* the locals sem1, sem2, sem3

semVars == <<value, allocated, pc, arg, idx, killed, orphaned, sawFull>>
userVars == <<line, i, hdl>>
vars == <<semVars, userVars>>

S == INSTANCE Semaphore
       WITH Threads <- Procs, StartValues <- {1, 5, 0},
            Handles <- 0 .. NSEM - 1, MaxValue <- 5, Killable <- {}

Names == {"sem1", "sem2", "sem3"}

Lines == {"init1", "init2", "init3", "check", "wait1", "post1", "wait2",
          "post2", "destroy1", "destroy2", "destroy3", "stale_wait",
          "stale_rejected", "stale_accepted", "destroy99", "failed", "done"}

TypeOK ==
  /\ S!TypeOK
  /\ line \in [Procs -> Lines]
  /\ i \in [Procs -> 0 .. 3]
  /\ hdl \in [Procs -> [Names -> -1 .. NSEM - 1]]

Init ==
  /\ S!Init
  /\ line = [p \in Procs |-> "init1"]
  /\ i = [p \in Procs |-> 0]
  /\ hdl = [p \in Procs |-> [n \in Names |-> 0]]

Goto(p, l) == line' = [line EXCEPT ![p] = l]

\* what a sem_wait, sem_post or sem_destroy step on h returns once it is
\* back in user space: -1 from the range or allocated check on entry, else 0
Ret(p, h) == IF pc[p] = "idle" /\ ~S!Valid(h) THEN -1 ELSE 0

(* A checked call at line `from` on handle h: one step of Semaphore for *)
(* p; once the call has returned the program goes on at `ok`, or at     *)
(* `bad` if it returned -1.                                             *)
Checked(p, from, ok, bad, h, act) ==
  /\ line[p] = from
  /\ act
  /\ Goto(p, IF pc'[p] # "idle" THEN from
             ELSE IF Ret(p, h) < 0 THEN bad ELSE ok)

\* sem_wait(h) at `from`: entry, or the recheck after a wakeup
WaitCall(p, from, ok, bad, h) ==
  \/ Checked(p, from, ok, bad, h, S!SemWait(p, h))
  \/ Checked(p, from, ok, bad, h, S!WaitRecheck(p))

Local(p, from) == line[p] = from /\ pc[p] = "idle" /\ UNCHANGED semVars

-----------------------------------------------------------------------------
(* Lines 12-14: sem_init(1), sem_init(5), sem_init(0). *)
SemInits(p) ==
  \E <<from, to, name, v>> \in {<<"init1", "init2", "sem1", 1>>,
                                <<"init2", "init3", "sem2", 5>>,
                                <<"init3", "check", "sem3", 0>>} :
    /\ line[p] = from
    /\ \/ /\ S!CallSemInit(p, v)
          /\ UNCHANGED <<line, hdl>>
       \/ /\ S!ScanSlot(p)
          /\ IF pc'[p] = "idle"
             THEN /\ hdl' = [hdl EXCEPT ![p][name] =
                               IF allocated' # allocated THEN idx[p] ELSE -1]
                  /\ Goto(p, to)
             ELSE UNCHANGED <<line, hdl>>
    /\ UNCHANGED i

(* Lines 16-19: exit(1) if a sem_init failed. *)
CheckInits(p) ==
  /\ Local(p, "check")
  /\ Goto(p, IF \E n \in Names : hdl[p][n] < 0 THEN "failed" ELSE "wait1")
  /\ UNCHANGED <<i, hdl>>

(* Lines 24-34: sem_wait(sem1), then sem_post(sem1). *)
Sem1(p) ==
  /\ \/ WaitCall(p, "wait1", "post1", "failed", hdl[p]["sem1"])
     \/ Checked(p, "post1", "wait2", "failed", hdl[p]["sem1"],
                S!SemPost(p, hdl[p]["sem1"]))
  /\ UNCHANGED <<i, hdl>>

(* Lines 38-52: three sem_wait(sem2), then three sem_post(sem2). *)
Sem2(p) ==
  LET h == hdl[p]["sem2"]
      last == i[p] + 1 = 3
  IN /\ \/ WaitCall(p, "wait2", IF last THEN "post2" ELSE "wait2", "failed", h)
        \/ Checked(p, "post2", IF last THEN "destroy1" ELSE "post2", "failed",
                   h, S!SemPost(p, h))
     /\ i' = [i EXCEPT ![p] = IF pc'[p] # "idle" THEN @
                              ELSE IF last THEN 0 ELSE @ + 1]
     /\ UNCHANGED hdl

(* Lines 56-72: destroy sem1, sem2 and sem3, exit(1) on a failure. *)
Destroys(p) ==
  /\ \E <<from, to, name>> \in {<<"destroy1", "destroy2", "sem1">>,
                                <<"destroy2", "destroy3", "sem2">>,
                                <<"destroy3", "stale_wait", "sem3">>} :
       Checked(p, from, to, "failed", hdl[p][name],
               S!SemDestroy(p, hdl[p][name]))
  /\ UNCHANGED <<i, hdl>>

(* Lines 76-82: sem_wait on the destroyed sem1, expected to return -1,   *)
(* and sem_destroy(99).                                                  *)
Invalid(p) ==
  /\ \/ WaitCall(p, "stale_wait", "stale_accepted", "stale_rejected",
                 hdl[p]["sem1"])
     \/ /\ Local(p, "stale_accepted") \/ Local(p, "stale_rejected")
        /\ Goto(p, "destroy99")
     \/ Checked(p, "destroy99", "done", "done", 99, S!SemDestroy(p, 99))
  /\ UNCHANGED <<i, hdl>>

Next ==
  \E p \in Procs :
    SemInits(p) \/ CheckInits(p) \/ Sem1(p) \/ Sem2(p) \/ Destroys(p)
      \/ Invalid(p)

Spec == Init /\ [][Next]_vars

-----------------------------------------------------------------------------
(* semtest.c line 76 expects sem_wait on its destroyed sem1 to be         *)
(* rejected ("Correctly rejected wait on destroyed semaphore").          *)
StaleWaitRejected == \A p \in Procs : line[p] # "stale_accepted"

=============================================================================
