CONSTANTS
  Classes = {"gcc", "clang"}
  DefaultVersion <- MCDefaultVersion
  Compilers <- MCCompilers
  Argvs <- MCArgvs
  None = None
  Bad = Bad
SPECIFICATION Spec
INVARIANT
  ConfigOnAxis
CHECK_DEADLOCK FALSE
