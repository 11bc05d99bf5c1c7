SPECIFICATION Spec
CONSTANTS
  Events <- MCEvents
  Kind <- MCKind
  Queue <- MCQueue
  Misrouted = {}
  Threads = {w1, w2}
  Idle = idle
  MaxTimeouts = 1
  MaxFaults = 2
  MaxCrashes = 1
CHECK_DEADLOCK FALSE
INVARIANTS
  TypeOK
  AckedVerdictsPersisted
  AckedMessagesAnswered
  RepeatsAddNoTurn
  VerdictsInOrder
PROPERTY
  QueueDrains
