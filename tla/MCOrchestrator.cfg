CONSTANTS
  NormalList <- MCNormalList
  TestList <- MCTestList
  Creative = {"all", "tests", "everything"}
  Destructive = {"clean", "distclean"}
  PathTokens = {p1, p2}
  Unknown = Unknown
  NoDir = NoDir
  Elsewhere = Elsewhere
  MaxTokens = 2
  Present = {"a", "b", "test-a"}
  Declarations <- MCDeclarations
  Compilers = {gcc}
  BuildTypes = {release}
  None = None
SPECIFICATION Spec
INVARIANTS TypeOK NoRecursionError CheckTargetsAreClosure ExecutesOnlyValidated
PROPERTY ResolverRefines
CHECK_DEADLOCK FALSE
