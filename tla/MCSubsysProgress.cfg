CONSTANTS
  SCH_DEPTH = 4
  CQ_DEPTH = 2
  SchTags = {0, 1, 2, 3}
  Addrs = {x, y}
  Data = {zero}
  ZeroTxn <- SomeTxn
  None = None
  SchedulerInputs = {}
  BackendInputs = {}
  SubsysInputs <- ReadsTaken
SPECIFICATION ProgressSpec
PROPERTY Answered
