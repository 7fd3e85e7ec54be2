\* No Stop at all.
SPECIFICATION MCSpec
CONSTANTS
  MaxRecords = 2
  Stops = {}
  MaxRestarts = 1
  HealthPort = TRUE
  Requests <- StartBoth
INVARIANT OneChildPerId
CHECK_DEADLOCK FALSE
