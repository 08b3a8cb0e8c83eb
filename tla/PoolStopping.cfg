SPECIFICATION Spec
CONSTANTS
  Conn = {"c1", "c2", "c3"}
  Worker = {"w1", "w2"}
  QueueSize = 2
  None = "none"
  MayStop = TRUE
  SpawnMayFail = TRUE
  MemoryMayFail = TRUE
  SpuriousWakeups = TRUE
INVARIANTS OneOwner NoneForgotten StopIsLast
CHECK_DEADLOCK FALSE
