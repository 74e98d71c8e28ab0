SPECIFICATION FairSpec
CONSTANTS
  main = main
  f = f
  s1 = s1
  null = null
  c1 = c1
  c2 = c2
  c3 = c3
  u1 = u1
  o1 = o1
  o2 = o2
  b1 = b1
  a1 = a1
  Programs = {main, f}
  Strings = {}
  Closures = {c1, c2, c3}
  UpValues = {u1}
  Containers = {}
  Binds = {}
  VarArgs = {}
  Main = main
  Null = null
  Constants <- ScriptConstants
  MaxStack = 4
  MaxFrames = 2
  FunctionCache = FALSE
  ReturnsObjects = TRUE
  PacksObjects = FALSE
  BindsTemporaries = FALSE
INVARIANTS TypeOK NoDangling CleanMarks OpenOnStack
PROPERTY CollectionEnds
CHECK_DEADLOCK FALSE
