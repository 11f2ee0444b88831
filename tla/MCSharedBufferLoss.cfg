CONSTANTS
  Threads = {t1, t2}
  BUFFER_SIZE <- MCBufferSize
  Items <- MCItems
  MaxTotal <- MCMaxTotal
  CopyOutResults <- MCAnyAddresses

SPECIFICATION Spec

PROPERTY QueueRefinement
