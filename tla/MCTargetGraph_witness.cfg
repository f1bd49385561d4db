CONSTANTS
  N = 3
  Undefined = Undefined
  MaxDeps = 2
  DepIds <- MCDepIds
  DriverStates = {"ok", "missing"}
SPECIFICATION Spec
INVARIANTS
  CycleWitnessOnCycle
CHECK_DEADLOCK FALSE
