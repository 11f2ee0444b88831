CONSTANTS
  Parent = Parent
  Child = Child
  NSEM <- MCNSEM
  BUFFER_SIZE <- MCBufferSize
  NUM_ITEMS <- MCNumItems

SPECIFICATION Spec

PROPERTY ConsumerReadsProduced

\* the program ends: both processes exit
CHECK_DEADLOCK FALSE
