SPECIFICATION LongSpec
CONSTANTS
  Flows = {"fa", "fb", "fc"}
  Requests = {1, 2, 3, 4}
  FlowOf <- GateFlowOf
  KeyClass <- GateKeyClass
  Header <- GateHeader
  Workers = {"w1"}
  Reports <- OneSlot
  Context = 4
  Policies <- OnlyTight
PROPERTY
  DoorKeepsWorkers
