CONSTANTS
  Targets = {"a", "b", "c"}
  DepsOf <- MCDepsOf
  Axis = {a1}
  MaxRuns = 2
  MaxEdits = 1
  MaxOptionEdits = 1
  MaxFailures = 1
  MaxInterrupts = 1
  GoalSets <- MCGoalSets
  Exportable = {"c"}
  Coarse = FALSE
SPECIFICATION Spec
INVARIANTS
  TypeOK
  CheckedBeforeBuilt
  CacheNotWrittenWhileRead
PROPERTIES
  SuccessfulBuildIsFresh
CHECK_DEADLOCK FALSE
