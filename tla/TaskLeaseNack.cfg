CONSTANTS
  MaxTasks = 1
  Workers = {w1, w2}
  NoWorker = NoWorker
  MaxFaults = 1
SPECIFICATION Spec
PROPERTY
  RemovesOwnLease
CHECK_DEADLOCK FALSE
