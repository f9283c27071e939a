CONSTANTS
  Procs = {p1, p2}
  NoProc = NoProc
  MaxVersion = 2
  MaxSnapshots = 2
  MaxFaults = 2
  Files <- MCFiles
  UserOwned <- MCUserOwned
  Manifest <- MCManifest
  Partial = Partial
  NoFile = NoFile
  MaxRuns = 3
  MaxUpdateFaults = 2
  Fetchers = {f1, f2, f3}
  Operators = {o1, o2}
  Nobody = Nobody
  MaximumConcurrency = 2
  MaximumRequests = 2
  MaximumBytes = 1
  CircuitThreshold = 2
  MaxControlWrites = 2
  MaxCoarseWrites = 1
  Managers = {m1, m2}
  NoManager = NoManager
  Components = {"ocr", "lang"}
  Packages <- MCPackages
  NameOf <- MCNameOf
  Needs <- MCNeeds
  None = None
  Evidence <- MCEvidence
  Improving <- MCGood
  Outcome <- MCOutcome
  NoResult = NoResult
  RequiredRounds = 2
  RegressionLimit = 2
  MaxEdits = 1
  MaxObservations = 3
  MaxRepairFaults = 1
  Runs = {r1, r2}
  Nothing = Nothing
  Altered = Altered
  MaxInput = 4
  MaxExportFaults = 1
SPECIFICATION GuardsSpec
INVARIANTS
  NoStoreDuringRestore
  EgressLimitsHold
  RegistryIsSound
  RepairIsTracked
  CommitsAreSettled
PROPERTIES
  ImplementsRestoreContract
  
  StopIsSeen
  ImplementsRegistryContract
  EditsKept
  DeliveryIsCurrent
CHECK_DEADLOCK FALSE
