CONSTANTS
  p1 = p1
  p2 = p2
  Procs = {p1, p2}
  NSEM <- MCNSEM
SPECIFICATION Spec
INVARIANT StaleWaitRejected
CHECK_DEADLOCK FALSE
