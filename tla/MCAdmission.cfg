CONSTANTS
  DEPTH = 2
  SLOT_SPACE = 2
  GEN_MOD = 2
  TS_MOD = 4
  CNT_MAX = 0
  N_POOLS = 2
  COUNT_MAX = 3
  AMT_MAX = 1
  RET_MAX = 3
  RESET_MAX = 2
  DIAG_MAX = 1
  None = None
  Epochs <- MCEpochs
  Entry <- MCEntries
  ZeroEntry <- Zero
  TrackerInputs <- NoInputs
  CreditInputs <- NoInputs
  AdmInputs <- MCInputs
SPECIFICATION AdmReplaySpec
INVARIANTS CreditConservation LedgerNeverRefuses AdmissionMatchesModel
PROPERTY OneAcceptEvent
