SPECIFICATION FairSpec
CONSTANTS
  Period = 2
  AggPeriod = 3
  MaxSteps = 3
  MaxOutages = 1
  MaxFails = 1
  Durations <- MCDurations
INVARIANTS
  NeverEarly
  LagBounded
  BatchesCatchUp
  RowsAccounted
PROPERTIES
  ImplementsFeed
  ShutdownCompletes
