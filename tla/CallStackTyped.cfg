SPECIFICATION Spec
CONSTANTS
  StackMax = 6
  StackChecks = FALSE
  Main = Main
  plain = plain
  named = named
  unnamed = unnamed
  ctor = ctor
  Constructors = {ctor}
  IndexedKinds = {"array", "str", "dict"}
  DestructuredKinds = {"array"}
  PatternSizes = {1, 2}
  MaxCount = 1
  MaxArgs = 2
  MaxDepth = 6
  MaxLocals = 0
  Functions <- MCFunctions
  Arity <- MCTwo
  VarArg <- MCVarArg
INVARIANTS
  
  OperandsPresent
  FramesBounded
  NoUnderflow
  Aligned
CHECK_DEADLOCK FALSE
