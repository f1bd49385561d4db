CONSTANTS
  Classes = {"gcc", "clang"}
  Compilers <- MCCompilers
  DefaultVersion <- MCDefaultVersion
  BuildTypes = {"debug", "release"}
  Recipes <- MCRecipes
  ShellEnvs <- MCCleanShell
  Absent = Absent
SPECIFICATION Spec
INVARIANTS
  TypeOK
  ProfileMatchesRequest
  DirectRunWritesNoMarker
PROPERTY
  RefinesRuleStep
CHECK_DEADLOCK FALSE
