SPECIFICATION FairSpec
CONSTANTS
  Worker <- MCWorker
  Request <- MCRequest
  Path <- MCPath
  InitialFs <- MCFs
  InitialDisk <- MCDisk
  Config <- MCConfig
  Edit <- MCEdit
  MaxLevel = 1
  Chunk = 1
  MaxTime = 2
INVARIANTS TypeOK GetIsTrue AccessHeld
PROPERTIES PutStored ChangesAuthorized RequestsEnd
CHECK_DEADLOCK FALSE
