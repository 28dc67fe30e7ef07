SPECIFICATION FairSpec
CONSTANTS
  NumBatches = 1
  Callers = {c1}
  Retried <- AnyIndex
  Column <- Storable
  MaxCalls = 2
  Ops = {"process", "retry"}
PROPERTY
  EveryBatchSettles
CHECK_DEADLOCK FALSE
