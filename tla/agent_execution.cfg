SPECIFICATION FairSpec
CONSTANTS
  Callers = {c1}
  Videos = {v1}
  Words = {w1}
  Guests = {g1}
  GuestLimit = 1
  MaxPolls = 2
  MaxCalls = 1
  MaxRestarts = 2
  Ops = {"approve", "reject", "import", "restart", "database_error"}
INVARIANTS
  TypeOK
  OnlyApprovedRuns
  CompletedWasDone
  NoneForgotten
PROPERTIES
  ImplementsLifecycle
  ApprovedFinishes
