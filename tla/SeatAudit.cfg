SPECIFICATION SeatBehavior
CONSTANTS
  Specs <- MCSpecs
  Boxes <- MCBoxes
  Items <- MCItems
  MAX_RESTARTS = 1
  MaxLaunches = 1
  MaxCalls = 2
INVARIANT
  AuditCoversEveryCall
CHECK_DEADLOCK FALSE
