SPECIFICATION Spec
CONSTANTS
  Callers = {c1, c2}
  Videos = {v1, v2}
  Words = {w1}
  Guests = {g1}
  GuestLimit = 1
  MaxPolls = 1
  MaxCalls = 3
  MaxRestarts = 0
  Ops = {"reject"}
SYMMETRY CallersSymmetry
INVARIANTS
  GuestWithinLimit
  WaitingWithinCallers
