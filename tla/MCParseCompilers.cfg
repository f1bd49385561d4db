CONSTANTS
  Classes = {"gcc", "clang"}
  DefaultVersion <- MCDefaultVersion
  Compilers <- MCCompilers
  Argvs <- MCArgvs
  None = None
  Bad = Bad
SPECIFICATION Spec
INVARIANTS
  TypeOK
  AnswerMatchesRequest
CHECK_DEADLOCK FALSE
