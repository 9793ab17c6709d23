CONSTANTS
  DEPTH = 1
  SLOT_SPACE = 2
  GEN_MOD = 2
  TS_MOD = 8
  CNT_MAX = 0
  Entry <- FabricEntries
  ZeroEntry <- FabricZero
  None = None
  TrackerInputs <- NoInputs
  LIFETIME = 1
  MAX_BORN = 3
  THRESH = 3
  Steps = {1, 5}
  AGE_CAP = 3
SPECIFICATION FabricSpec
INVARIANTS NoAlias ReclaimReportedOnce TimeoutExact
CHECK_DEADLOCK FALSE
