SPECIFICATION Spec
CONSTANTS
  Letters = {"a", "b", "c", "d", "e", "f", "g", "h", "i", "j", "k", "l", "m", "n", "o", "p", "q", "r", "s", "t", "u", "v", "w", "x", "y", "z", "A", "_"}
  Digits = {"0", "1", "2", "3", "4", "5", "6", "7", "8", "9"}
  Texts <- MCTexts
  Scripts <- MCScripts
CHECK_DEADLOCK FALSE
INVARIANTS
  TypeOK
  Located
  ParsedAsWritten
PROPERTY
  LongestPiece
