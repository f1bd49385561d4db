CONSTANTS
  Targets = {"a", "b", "c"}
  DepsOf <- MCDepsOf
  Axis = {a1}
  MaxRuns = 2
  MaxEdits = 1
  MaxOptionEdits = 0
  MaxFailures = 0
  MaxInterrupts = 0
  GoalSets <- MCGoalSets
  Exportable = {"b"}
  Coarse = FALSE
SPECIFICATION Spec
INVARIANT
  CacheNotWrittenWhileRead
CHECK_DEADLOCK FALSE
