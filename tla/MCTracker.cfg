CONSTANTS
  DEPTH = 2
  SLOT_SPACE = 2
  GEN_MOD = 2
  TS_MOD = 4
  CNT_MAX = 3
  Entry <- MCEntries
  ZeroEntry <- Zero
  None = None
  TrackerInputs <- IssueThenAge
  MaxRefusals = 1
SPECIFICATION ReplaySpec
INVARIANTS TrackerTypeOK OccupancyExact  AllocationsAccounted TrackerMatchesModel DirectedBeatsHit
PROPERTY LiveEntryKept
CONSTRAINT RefusalsBounded
