CONSTANTS
  Threads = {t1, t2, t3}
  NSEM <- MCNSEM
  StartValues <- MCStartValues
  Handles <- MCHandles
  MaxValue <- MCMaxValue
  Killable = {t1}

SPECIFICATION FairSpec

INVARIANT TypeOK
INVARIANT NoLostWakeup
PROPERTY TableRefinement
PROPERTY WaiterProgress

\* a process may block in sem_wait on a semaphore nobody posts, and all of
\* them may: the model stops there as the kernel would
CHECK_DEADLOCK FALSE
