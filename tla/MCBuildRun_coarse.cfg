CONSTANTS
  Targets = {"a", "b", "c"}
  DepsOf <- MCDepsOf
  Axis = {a1}
  MaxRuns = 2
  MaxEdits = 1
  MaxOptionEdits = 0
  MaxFailures = 0
  MaxInterrupts = 0
  GoalSets <- MCGoalSets
  Exportable = {"c"}
  Coarse = TRUE
SPECIFICATION Spec
PROPERTY
  SuccessfulBuildIsFresh
CHECK_DEADLOCK FALSE
