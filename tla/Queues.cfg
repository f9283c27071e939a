CONSTANTS
  MaxTasks = 2
  Workers = {w1, w2, w3}
  NoWorker = NoWorker
  MaxFaults = 2
  Detectors = {d1, d2}
  Contents = {0, 1, 2}
  Confirmations = 2
  Threshold = 2
  None = None
  MaxPageChanges = 3
  MaxSaveFaults = 1
  MaxEvents = 2
  Senders = {s1, s2}
  GiveUp = 2
  MaxDeliveryFaults = 1
SPECIFICATION QueuesSpec
INVARIANTS
  TaskNeverLost
  OneLiveLease
  EventsAreSound
  DeliveryIsHonest
PROPERTIES
  TaskResolved
  LastContentIsSeen
  EventIsSettled
CHECK_DEADLOCK FALSE
