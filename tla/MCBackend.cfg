CONSTANTS
  CQ_DEPTH = 3
  SchTags = {p, q}
  Addrs = {x, y}
  Data = {zero, one}
  ZeroTxn <- SomeTxn
  None = None
  BackendInputs <- BackendInputType
SPECIFICATION BackendSpec
PROPERTY ImplementsTaggedMemory
