CONSTANTS
  a = a
  b = b
  c = c
  NoRequest = NoRequest
  Requests <- MCRequests
  CursorPages = {}
  MaxAttempts = 2
  Seeds = {a, c}
  Links <- MCLinks
  Redirects <- MCRedirects
  ScopeOf <- MCScopeOf
  Concurrency = 2
  PerDomain = 1
  Limit = 2
  MaxRequests = 4
  ResetOnRun = FALSE
  ResetCursor = FALSE
  Outcomes = {"ok", "transient"}
  Events = {"pause", "resume", "stop"}
  MaxFaults = 0
  MaxRuns = 1
SPECIFICATION FairSpec
INVARIANTS
  BudgetsHold
PROPERTIES
  StopHalts
  Termination
CHECK_DEADLOCK FALSE
