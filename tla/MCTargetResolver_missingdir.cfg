CONSTANTS
  NormalList <- MCNormalList
  TestList <- MCTestList
  Creative = {"all", "tests", "everything"}
  Destructive = {"clean", "distclean"}
  PathTokens = {p1, p2}
  Unknown = Unknown
  NoDir = NoDir
  Elsewhere = Elsewhere
  Declarations <- MCDeclarations
  MaxTokens = 2
  Present = {"b", "test-a"}
SPECIFICATION Spec
PROPERTY Refines
CHECK_DEADLOCK FALSE
