SPECIFICATION Spec
CONSTANTS
  NumBatches = 2
  Callers = {c1, c2}
  Retried <- AnyIndex
  Column <- Storable
  MaxCalls = 3
  Ops = {"process", "retry", "playback", "delete", "restart", "no_source", "reload_error"}
SYMMETRY CallersSymmetry
INVARIANTS
  TypeOK
  PriorityOK
  LinesFollowBatches
  CompletedVideoHasNoFailure
  RetryIsRedone
PROPERTY
  ImplementsLedger
CHECK_DEADLOCK FALSE
