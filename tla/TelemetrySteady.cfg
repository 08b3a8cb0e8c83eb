SPECIFICATION FairSpec
CONSTANTS
  DevCount = 2
  Capable <- ClockCapable
  Flaky = {}
  CountClockAccepted = TRUE
  Client = {"browser"}
  MaxPass = 3
INVARIANTS SkewBound LastUpdateDatesReadings
PROPERTY CatchesUp
