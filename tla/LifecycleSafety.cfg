SPECIFICATION FairSpec
CONSTANTS
  DevCount = 2
  Worker = {"w1", "w2"}
INVARIANTS HandlersSeeMonitor NvmlBracketed EventSetsKept
PROPERTIES RunsWhileServing ServesUntilKilled
