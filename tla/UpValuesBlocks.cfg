SPECIFICATION Spec
CONSTANTS
  u1 = u1
  u2 = u2
  u3 = u3
  k1 = k1
  k2 = k2
  k3 = k3
  a = a
  b = b
  none = none
  MaxStack = 3
  UpValueObjects = {u1, u2}
  Captures = {k1, k2, k3}
  Values = {a, b}
  None = none
  AnyBlock = TRUE
PROPERTIES SharesVariables
