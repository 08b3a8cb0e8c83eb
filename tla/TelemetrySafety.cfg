SPECIFICATION Spec
CONSTANTS
  DevCount = 2
  Capable <- MixedCapable
  Flaky = {"memory"}
  CountClockAccepted = FALSE
  Client = {"browser"}
  MaxPass = 3
INVARIANTS PrintsOnlyRead WithinRequest TimeCoversReply
PROPERTIES MonotonicReplies ImplementsRegisters
