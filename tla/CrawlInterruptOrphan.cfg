CONSTANTS
  a = a
  b = b
  c = c
  NoRequest = NoRequest
  Requests <- TwoRequests
  CursorPages = {}
  MaxAttempts = 2
  Seeds = {a, b}
  Links <- MCLinks
  Redirects <- MCRedirects
  ScopeOf <- MCScopeOf
  Concurrency = 2
  PerDomain = 2
  Limit = 2
  MaxRequests = 4
  ResetOnRun = FALSE
  ResetCursor = FALSE
  Outcomes = {"ok"}
  Events = {"interrupt"}
  MaxFaults = 1
  MaxRuns = 1
SPECIFICATION Spec
INVARIANT
  InterruptLeavesNoOrphan
CHECK_DEADLOCK FALSE
