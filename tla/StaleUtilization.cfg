SPECIFICATION Spec
CONSTANTS
  DevCount = 2
  Capable <- MixedCapable
  Flaky = {}
  CountClockAccepted = FALSE
  Client = {"browser"}
  MaxPass = 3
INVARIANTS UtilizationIsCurrent
