CONSTANTS
  a = a
  b = b
  c = c
  NoRequest = NoRequest
  Requests <- TwoRequests
  CursorPages = {}
  MaxAttempts = 2
  Seeds = {a, b}
  Links <- MCLinks
  Redirects <- MCRedirects
  ScopeOf <- MCScopeOf
  Concurrency = 2
  PerDomain = 2
  Limit = 2
  MaxRequests = 3
  ResetOnRun = FALSE
  ResetCursor = FALSE
  Outcomes = {"ok", "transient", "policy", "session"}
  Events = {"error", "resource", "store", "callback", "hook", "interrupt", "cancel", "stop", "pause", "misread"}
  MaxFaults = 2
  MaxRuns = 1
SPECIFICATION Spec
INVARIANTS
  TypeOK
  HolderOwnsClaim
  ClaimsHaveOwner
  NoOrphanAtExit
  FailureIsRecorded
  HonestVerdict
  FinishIsLegal
PROPERTIES
  LoopExitIsTerminal
  DeliveredStaysDone
CHECK_DEADLOCK FALSE
