SPECIFICATION MCSpec
CONSTANTS
  Nodes <- Three
  Gangs <- GangIds
  Models <- Catalogue
  Requests <- Pair
  Placed <- PlacedOn
  LocalHas = {"own"}
  GangsOf <- GangsBy
  Coordinator <- Heads
  Ranks <- Parts
  Role <- Whole
  Revision <- OneRevision
  Peer = {}
  Slots <- Free
  Signal <- Quiet
  Defaults <- NoPenalty
  Weights <- NoWeights
  Chains <- NoCatalogChains
  Cap = 0
  P95s <- Unmeasured
  Threshold = 0
  AllowedFails = 2
  HedgeReplicas = 0
  Affinity = FALSE
  BlockWeight = 0
  KVWeight = 0
  KVSaturation = 0
  Call <- WCall
  Answers <- Faulty
  Events = {"remove", "expire"}
  Movers = {"a"}
  Statuses = {}
  Changes = 1
INVARIANT CountsOpenCalls
PROPERTIES
  NoWorkerPassedOver
  ImplementsFailover
