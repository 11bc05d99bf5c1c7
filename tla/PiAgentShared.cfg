SPECIFICATION Spec
CONSTANTS
  Workers = {w1, w2}
  Msgs = {"m1", "m2"}
  RunIds = {"r1"}
  RunIdOf <- SharedRun
  Family <- BothReactive
  Writes <- NoWrites
  Plans = {}
  ImplicitPlan <- MCImplicit
  TaskIds = {"t1"}
  Names <- MCNames
  NoTool = "none"
  Allowlist = {"look", "mail"}
  MaxReplans = 0
  Brokers <- Tightened
  Off = off
  Idle = idle
  NoRow = norow
  SerialResume = FALSE
  MaxFaults = 0
  CountCap = 0
SYMMETRY WorkerSymmetry
INVARIANTS
  HardDenyAbsolute
  ConsentPrecedesMutation
  PauseIsDurable
