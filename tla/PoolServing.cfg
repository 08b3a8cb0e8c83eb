SPECIFICATION FairSpec
CONSTANTS
  Conn = {"c1", "c2", "c3"}
  Worker = {"w1", "w2"}
  QueueSize = 1
  None = "none"
  MayStop = FALSE
  SpawnMayFail = TRUE
  MemoryMayFail = TRUE
  SpuriousWakeups = FALSE
PROPERTIES ImplementsService Served
CHECK_DEADLOCK FALSE
