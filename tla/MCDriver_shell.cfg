CONSTANTS
  Classes = {"gcc", "clang"}
  Compilers <- MCCompilers
  DefaultVersion <- MCDefaultVersion
  BuildTypes = {"debug", "release"}
  Recipes <- MCRecipes
  ShellEnvs <- MCAnyShell
  Absent = Absent
SPECIFICATION Spec
INVARIANT
  ProfileMatchesRequest
CHECK_DEADLOCK FALSE
