SPECIFICATION Spec
CONSTANTS
  Keys = {"a"}
  Records <- MCRecords
  Days = {0, 31}
  StoreCap = 3
  MaxDecisions = 2
  MaxRollbacks = 1
  MaxFaults = 1
  Shapes = {"triage"}
  SeatOf <- MCSeatOf
  InitialCatalog = {}
  MaxRuns = 5
  MaxFlyFaults = 2
INVARIANTS
  TypeOK
  LandedIsCleared
  RejectedStaysOut
  MarkedIsStored
  ShapesEarned
PROPERTIES
  VaultDelivers
  ApprovedSettles
  FlywheelDelivers
