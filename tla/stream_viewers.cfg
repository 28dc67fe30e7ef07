SPECIFICATION StreamSpec
CONSTANTS
  NumBatches = 2
  Callers = {c1}
  Retried <- AnyIndex
  Column <- Storable
  MaxCalls = 2
  Ops = {"process", "retry", "restart", "delete", "no_source"}
  Viewers = {v1}
  Observers = {o1}
  MaxTries = 2
  MaxReaders = 1
INVARIANTS
  StreamTypeOK
  StreamLosesNothing
  ClosedPageIsWhole
PROPERTIES
  ObserverEnds
CHECK_DEADLOCK FALSE
