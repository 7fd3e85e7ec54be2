SPECIFICATION FairMC
CONSTANTS
  MaxRecords = 2
  Stops = {"s1"}
  MaxRestarts = 1
  HealthPort = TRUE
  Requests <- StartRanks
INVARIANTS
  OneChildPerRecord
  NewsPending
  GangsAreWhole
  PlacementIsRight
  FiguresAreRight
PROPERTIES
  ThreadsSettle
  GangsSettle
CHECK_DEADLOCK FALSE
