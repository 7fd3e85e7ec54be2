SPECIFICATION MCSpec
CONSTANTS
  Nodes = {"a", "b"}
  Keeps = {"b"}
  Moves = {"m1"}
  Requests = {"r1"}
  Patient = TRUE
  MaxFaults <- Steady
INVARIANTS
  DrainHasADriver
  ServiceStays
  MemoryIsAsSaid
PROPERTIES
  ReleasedStaysOut
  MovesUnderFaults
  FilesAreWhole
