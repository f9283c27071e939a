CONSTANTS
  a = a
  b = b
  c = c
  NoRequest = NoRequest
  Requests <- TwoRequests
  CursorPages = {b}
  MaxAttempts = 2
  Seeds = {a, b}
  Links <- MCLinks
  Redirects <- MCRedirects
  ScopeOf <- MCScopeOf
  Concurrency = 2
  PerDomain = 2
  Limit = 2
  MaxRequests = 3
  ResetOnRun = TRUE
  ResetCursor = TRUE
  Outcomes = {"ok", "transient", "extract"}
  Events = {"crash", "recover", "interrupt", "late", "limits", "store", "callback"}
  MaxFaults = 1
  MaxRuns = 2
SPECIFICATION Spec
INVARIANTS
  DoneIsStored
  AttemptsBound
PROPERTIES
  ImplementsLedger
CHECK_DEADLOCK FALSE
