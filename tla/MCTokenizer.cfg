CONSTANTS
  Alphabet <- MCAlphabet
  MaxLen = 5
  capitalize <- MCcapitalize
  reserved <- MCreserved
SPECIFICATION Spec
INVARIANTS
  Covered
  Ordered
  Munch
  RowsRight
CHECK_DEADLOCK FALSE
