CONSTANTS
  Parent = Parent
  Child = Child
  NSEM <- MCNSEM
  BUFFER_SIZE <- MCBufferSize
  NUM_ITEMS <- MCNumItems

SPECIFICATION FairSpec

INVARIANT TypeOK
INVARIANT MutualExclusion
INVARIANT SlotAccounting
PROPERTY Terminates

\* the program ends: both processes exit; and when fork fails the parent
\* really stops, asleep in sem_wait(empty) with nobody to post it
CHECK_DEADLOCK FALSE
