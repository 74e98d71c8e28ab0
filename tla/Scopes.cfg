SPECIFICATION Spec
CONSTANTS
  io = io
  x = x
  none = none
  Names = {io, x}
  Libraries <- OneLibrary
  ParamCounts = {0, 1}
  None = none
  MaxDeclarations = 5
  MaxTables = 3
  MaxBlocks = 3
  Uses = {}
INVARIANTS TypeOK ResolvesLexically RefusesRedefinitions SlotsAreScopes CapturedIsMarked
