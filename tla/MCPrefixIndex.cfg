SPECIFICATION MCSpec
CONSTANTS
  Calls = {c1, c2}
  MaxBoots = 2
  MaxTasks = 1
  Happens = {"drain", "undrain", "remove"}
  MaxOps = 2
CHECK_DEADLOCK FALSE
INVARIANT
  IndexIsTrue
