SPECIFICATION SweepSpec
CONSTANTS
  Nodes = {"a", "b"}
  Keeps = {"b"}
  Moves = {"m1"}
  Requests = {"r1"}
  Patient = TRUE
  MaxFaults <- Steady
PROPERTY
  PinnedIsRight
