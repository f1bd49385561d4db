CONSTANTS
  Targets = {"a", "b", "c"}
  DepsOf <- MCDepsOf
  Axis = {a1}
  MaxRuns = 2
  MaxEdits = 1
  MaxOptionEdits = 1
  MaxFailures = 0
  MaxInterrupts = 0
  GoalSets <- MCGoalSets
  Exportable = {"c"}
  Coarse = FALSE
SPECIFICATION Spec
PROPERTY
  SuccessfulBuildUsesCurrentOptions
