SPECIFICATION Spec
CONSTANTS
  Functions = {"Node", "init"}
  Constructors = {"init"}
  Closures = {"Node", "init"}
  FunctionOf <- Function
  Captured <- SameCaptured
  Arguments <- Values
  Body <- Script
  Hash <- ValueHash
  Ticks = {"Node"}
  Reads = {}
  MaxTicks = 2
INVARIANTS Transparent
