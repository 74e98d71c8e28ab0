SPECIFICATION Spec
CONSTANTS
  Functions = {"down", "twice", "init"}
  Constructors = {"init"}
  Closures = {"down", "twice", "also", "init"}
  FunctionOf <- Function
  Captured <- SameCaptured
  Arguments <- Values
  Body <- Script
  Hash <- ValueHash
  Ticks = {}
  Reads = {}
  MaxTicks = 0
INVARIANTS TypeOK Transparent
