CONSTANTS
  ENCRYPT_KEY = 90
  CHUNK = 2
  MAXLEN = 3
  PGSIZE = 2
  NPAGES = 3
  HEAPBASE = 1
  FreeInit <- MCFreeInit
  MemstatArgs <- MCMemstatArgs
  TOTALALLOC = 7
  SbrkArgs <- MCSbrkArgs
  Lens <- MCLens
SPECIFICATION Spec
PROPERTY FailureLeavesBuffer
