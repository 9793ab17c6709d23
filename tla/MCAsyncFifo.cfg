CONSTANTS
  FIFO_AW = 2
  STAGES = 2
  Payloads = {p, q}
  None = None
SPECIFICATION ReplayFairSpec
INVARIANTS SyncedPointersTrail FifoMatchesModel
PROPERTIES ImplementsQueue NewsCrosses
