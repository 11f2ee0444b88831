CONSTANTS
  Threads = {t1, t2, t3}
  NSEM <- MCNSEM
  StartValues <- MCStartValues
  Handles <- MCHandles
  MaxValue <- MCMaxValue
  Killable = {}

SPECIFICATION Spec

PROPERTY OrphanNeverGranted

CHECK_DEADLOCK FALSE
