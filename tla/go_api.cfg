SPECIFICATION GoApiSpec
CONSTANTS
  Slots = {s1, s2}
  Addresses = {a1}
  Cookies = {k1}
  Limit = 1
  Window = 2
  MaxDelay = 1
  MaxTime = 3
  MaxArrivals = 3
  Handlers = {h1, h2}
  Browsers = {b1}
  Tokens = {t1, t2}
  Words = {w1, w2}
  Backends = {"go", "python"}
  MaxRequests = 3
  MaxClicks = 2
  MaxFaults = 1
SYMMETRY Same
INVARIANTS
  LimiterTypeOK
  GuestTypeOK
  PassedWithinLimit
  SavedIsKept
  SavedWordsStayReachable
  MeaningBelongsToWord
PROPERTY
  IsolatedByGuest
CHECK_DEADLOCK FALSE
