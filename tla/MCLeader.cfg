SPECIFICATION MCSpec
CONSTANTS
  Calls = {c1, c2}
  MaxBoots = 2
  MaxTasks = 1
  Happens = {"drain", "undrain", "remove"}
  MaxOps = 2
SYMMETRY CallSymmetry
CHECK_DEADLOCK FALSE
INVARIANTS
  DrainStands
  PrefixesAreTrue
  ViewsAgree
  SettingsInForce
  FeedIsSound
PROPERTIES
  LeaderTakesOver
