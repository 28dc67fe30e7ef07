SPECIFICATION FairSpec
CONSTANTS
  NumBatches = 2
  Callers = {c1, c2}
  Retried = {}
  Column = {0, 1}
  MaxCalls = 3
  Ops = {"process", "playback", "no_source", "reload_error"}
PROPERTIES
  EveryBatchSettles
  WorkerEnds
CHECK_DEADLOCK FALSE
