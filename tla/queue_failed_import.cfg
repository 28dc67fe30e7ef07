SPECIFICATION FairSpec
CONSTANTS
  NumBatches = 2
  Callers = {c1}
  Retried = {}
  Column = {0, 1}
  MaxCalls = 2
  Ops = {"process", "no_source"}
PROPERTY
  ImportSettles
CHECK_DEADLOCK FALSE
