SPECIFICATION Spec
CONSTANTS
  TaskIds = {"a", "b", "c"}
  Plans <- ShortPlans
  Absent = absent
CHECK_DEADLOCK FALSE
INVARIANTS
  TypeOK
  Sorted
  CyclesAreReal
PROPERTY
  Terminates
