SPECIFICATION Spec
CONSTANTS
  Callers = {c1}
  Videos = {v1}
  Words = {w1}
  Guests = {}
  GuestLimit = 1
  MaxPolls = 1
  MaxCalls = 1
  MaxRestarts = 0
  Ops = {"approve", "reject", "import"}
PROPERTY
  RepeatedCallbackRejected
