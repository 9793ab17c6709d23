CONSTANTS
  N_POOLS = 2
  COUNT_MAX = 7
  AMT_MAX = 3
  RET_MAX = 7
  RESET_MAX = 2
  DIAG_MAX = 1
  None = None
  CreditInputs <- Beats
SPECIFICATION ReplaySpec
INVARIANTS UsedWithinMax CreditMatchesModel
PROPERTY MaxMovesOnlyUnused
