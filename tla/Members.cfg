SPECIFICATION Spec
CONSTANTS
  Hierarchies <- MCHierarchies
  ByName <- MCByName
  Names = {"x"}
  Methods = {"set", "restore", "on"}
  Values = {1}
  Variables = {v, w}
  MaxWritten = 2
SYMMETRY MCSymmetry
CHECK_DEADLOCK FALSE
INVARIANTS
  TypeOK
  Inherits
  WrittenIsRead
PROPERTIES
  ConstantsKept
  ReadsConfined
