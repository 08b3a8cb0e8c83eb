SPECIFICATION FairSpec
CONSTANTS
  Worker <- MCWorker
  Request <- MCRequest
  Cap = 2
  Buf = 2
  Chunk = 2
INVARIANTS TypeOK RelayExact Settled
PROPERTIES Finishes
CHECK_DEADLOCK FALSE
