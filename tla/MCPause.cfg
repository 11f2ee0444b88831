CONSTANTS
  t1 = t1
  t2 = t2
  Threads = {t1, t2}
  WIDTH = 3
  Args <- MCArgs
  TicketArgs <- MCTicketArgs
  DEFAULT_TICKETS = 1
SPECIFICATION FairSpec
INVARIANTS TypeOK
PROPERTIES PauseLongEnough PauseReturns
CHECK_DEADLOCK FALSE
