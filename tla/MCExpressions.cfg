\* Programs whose variables are p and q.
CONSTANTS
  p = p
  q = q
  Names = {p, q}
  MaxStack = 3
  MaxNodes = 6
SPECIFICATION Spec
INVARIANTS
  PassesAgree
  MeaningfulCompiles
SYMMETRY NameSymmetry
CHECK_DEADLOCK FALSE
