SPECIFICATION Spec
CONSTANTS
  ConstantMax = 24
  MaxAnswers = 3
  Programs <- MCPrograms
CHECK_DEADLOCK FALSE
INVARIANTS
  TypeOK
  SlotsAsCounted
  RunsAsMeant
PROPERTY
  Finishes
