\* Line 1 cannot be sent; 0 and 2 share a prompt.
SPECIFICATION FairSpec
CONSTANTS
  Total = 3
  Invalid = {1}
  Alike = {{0, 1, 2}}
  Workers = {"w1", "w2"}
  Faults = {"kill", "stop", "ready", "shortResult", "sync", "upload"}
  MaxFaults = 2
CHECK_DEADLOCK FALSE
INVARIANTS
  LinesOnce
  BatchIsTrue
PROPERTIES
  EventuallyOver
