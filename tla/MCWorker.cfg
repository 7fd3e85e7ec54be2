SPECIFICATION FairMC
CONSTANTS
  Environments <- JoinSettings
  Requests = {"r"}
  MaxRefusedRegisters = 2
  selfLoadAttempts = 1
  MaxBoots = 1
  MaxTurns = 1
INVARIANT DrainBeforeStop
PROPERTIES
  StopsEnd
  RecordSettles
  EveryWaitEnds
CHECK_DEADLOCK FALSE
