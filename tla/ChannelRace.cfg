SPECIFICATION Spec
CONSTANTS
  Events <- MCEvents
  Kind <- MCKind
  Queue <- MCQueue
  Misrouted = {}
  Threads = {w1, w2}
  Idle = idle
  MaxTimeouts = 1
  MaxFaults = 0
  MaxCrashes = 0
CHECK_DEADLOCK FALSE
INVARIANT
  NeverReprocessed
