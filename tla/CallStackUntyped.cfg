SPECIFICATION Spec
CONSTANTS
  StackMax = 3
  StackChecks = TRUE
  Main = Main
  plain = plain
  named = named
  unnamed = unnamed
  ctor = ctor
  Constructors = {ctor}
  IndexedKinds = {"array", "other"}
  DestructuredKinds = {"array", "other"}
  PatternSizes = {0, 1, 2}
  MaxCount = 1
  MaxArgs = 2
  MaxDepth = 4
  MaxLocals = 1
  Functions <- MCFunctions
  Arity <- MCArity
  VarArg <- MCVariadicConstructor
INVARIANTS
  TypeOK
  OneResult
CHECK_DEADLOCK FALSE
