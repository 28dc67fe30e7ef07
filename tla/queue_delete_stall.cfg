SPECIFICATION FairSpec
CONSTANTS
  NumBatches = 2
  Callers = {c1}
  Retried = {}
  Column = {0, 1}
  MaxCalls = 2
  Ops = {"process", "delete"}
PROPERTY
  EveryBatchSettles
CHECK_DEADLOCK FALSE
