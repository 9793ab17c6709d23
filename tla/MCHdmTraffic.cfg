SPECIFICATION TrafficFairSpec
CONSTANTS
  None = None
  N_WIN = 2
  HPA_SPACE = 8
  DPA_SPACE = 8
  LINE = 2
  EPOCH_MOD = 2
  HDM_TS_HALF = 2
  HDM_TS_MAX = 3
  HdmInputs <- HdmInputSample
  InFlightPlaces = {p1}
INVARIANTS
  ActiveDecodesCleanly
  AdmittedStays
  AnswerTellsTruth
  HdmMatchesModel
PROPERTIES
  UpdateEnds
