CONSTANTS
  Threads = {t1, t2}
  BUFFER_SIZE <- MCBufferSize
  Items <- MCItems
  MaxTotal <- MCMaxTotal
  CopyOutResults <- MCGoodAddresses

SPECIFICATION Spec

INVARIANT TypeOK
PROPERTY QueueRefinement
PROPERTY StatusConsistent
