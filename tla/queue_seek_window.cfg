SPECIFICATION Spec
CONSTANTS
  NumBatches = 3
  Callers = {c1}
  Retried = {}
  Column = {0, 1, 2}
  MaxCalls = 2
  Ops = {"process", "playback"}
PROPERTY
  SeekWindowFirst
CHECK_DEADLOCK FALSE
