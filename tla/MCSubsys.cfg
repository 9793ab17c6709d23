CONSTANTS
  SCH_DEPTH = 3
  CQ_DEPTH = 1
  SchTags <- MCTags
  Addrs <- MCAddrs
  Data <- MCData
  ZeroTxn <- Zero
  None = None
  MCTags = {p, q, r, s}
  OtherTags = {r, s}
  MCAddrs = {x, y}
  SchedulerInputs = {}
  BackendInputs = {}
  SubsysInputs <- MCInputs
SPECIFICATION ReplayFairSpec
INVARIANTS AgeTotalOrder PerAddressOrder ReadAfterWrite QuiescentMemory SubsysMatchesModel
PROPERTY TableDrains
