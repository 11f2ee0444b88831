CONSTANTS
  Threads = {t1, t2, t3}
  NSEM <- MCNSEM
  StartValues <- MCStartValues
  Handles <- MCHandles
  MaxValue <- MCMaxValue
  Killable = {t1}

SPECIFICATION FairSpec

PROPERTY KilledWaiterExits

CHECK_DEADLOCK FALSE
