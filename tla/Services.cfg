CONSTANTS
  Schedules = {s1, s2, s3}
  Triggers = {t1, t2}
  Limit = 2
  PoolSize = 1
  MaxScheduleFaults = 1
  Tasks = {k1, k2, k3}
  Scopes = {x1, x2, x3}
  GlobalLimit = 2
  PerDomainLimit = 1
  MaxCached = 2
  MaxSemaphores = 4
  MaxCancels = 1
  MaxBrowserTasks = 3
  Workers = 2
  MaxBrowserFaults = 2
  WatchedFiles = {fa, fb}
  NoPath = NoPath
  MaxFiles = 2
  MaxProcessed = 12
  MaxFileVersion = 3
  MaxConvertFaults = 1
SPECIFICATION ServicesSpec
INVARIANTS
  SharedOnlyIfDisturbed
  DomainLimitsHold
  ConvertedTwiceOnlyWhenWritten
PROPERTIES
  DueScheduleRuns
  AcquireIsServed
  AcceptedIsAnswered
  LastVersionIsConverted
CHECK_DEADLOCK FALSE
