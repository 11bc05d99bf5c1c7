SPECIFICATION Spec
CONSTANTS
  Workers = {w1}
  Msgs = {"m1"}
  RunIds = {"r1"}
  RunIdOf <- OneRun
  Family <- OneFamily
  Writes <- OneWrites
  Plans <- OnePlans
  ImplicitPlan <- MCImplicit
  TaskIds = {"t1", "t2", "t3"}
  Names <- MCNames
  NoTool = "none"
  Allowlist = {"look", "mail"}
  MaxReplans = 1
  Brokers <- SerialBrokers
  Off = off
  Idle = idle
  NoRow = norow
  SerialResume = TRUE
  MaxFaults = 0
  CountCap = 5
PROPERTY
  LifecycleHolds
