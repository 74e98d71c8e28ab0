SPECIFICATION Spec
CONSTANTS
  main = main
  f = f
  s1 = s1
  null = null
  c1 = c1
  c2 = c2
  c3 = c3
  u1 = u1
  o1 = o1
  o2 = o2
  b1 = b1
  a1 = a1
  Programs = {main}
  Strings = {}
  Closures = {c1}
  UpValues = {}
  Containers = {o1, o2}
  Binds = {b1}
  VarArgs = {a1}
  Main = main
  Null = null
  Constants <- ScriptConstants
  MaxStack = 3
  MaxFrames = 2
  FunctionCache = TRUE
  ReturnsObjects = FALSE
  PacksObjects = FALSE
  BindsTemporaries = FALSE
SYMMETRY Symmetry
INVARIANTS GarbageCollected NoDangling
CHECK_DEADLOCK FALSE
