SPECIFICATION FairSpec
CONSTANTS
  Key = {"memory", "fan"}
  Fleets <- MCFleets
  Down = Down
  SeriesMax = 3
  MaxReply = 5
INVARIANTS SeriesIsWindow OnlyFirstUnmeasured
PROPERTY Recovers
