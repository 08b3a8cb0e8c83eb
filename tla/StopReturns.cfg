SPECIFICATION FairSpec
CONSTANTS
  Conn = {"c1"}
  Worker = {"w1", "w2"}
  QueueSize = 1
  None = "none"
  MayStop = TRUE
  SpawnMayFail = FALSE
  MemoryMayFail = FALSE
  SpuriousWakeups = FALSE
PROPERTY StopReturns
CHECK_DEADLOCK FALSE
