CONSTANTS
  DEPTH = 1
  SLOT_SPACE = 1
  GEN_MOD = 2
  TS_MOD = 4
  TS_HALF = 2
  CNT_MAX = 0
  N_POOLS = 1
  COUNT_MAX = 3
  CfgCountMax = 3
  AMT_MAX = 1
  RET_MAX = 3
  RESET_MAX = 2
  DIAG_MAX = 1
  None = None
  Epochs <- MCEpochs
  Entry <- MCEntries
  ZeroEntry <- Zero
  Configs <- MCConfigs
  ZeroConfig <- Reset0
  BadWindow <- NoWindow
  TrackerInputs <- NoInputs
  CreditInputs <- NoInputs
  AdmInputs <- NoInputs
  CPInputs <- MCInputs
SPECIFICATION CPReplaySpec
INVARIANTS LiveEntriesOfActiveEpoch OneSharedCommit ActiveIsValid EmptyAfterCommit ControlPlaneMatchesModel
