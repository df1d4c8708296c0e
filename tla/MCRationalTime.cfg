SPECIFICATION SpecAll
CONSTANTS
  HalfBits = 3
  Operands <- MCOperands
  MaxFields = 2
  MaxLen = 3
  Alphabet = {0, 1, 2, 3, 10, 11}
INVARIANTS
  TimeTypeOK
  ArithmeticIsExact
  ComparisonIsExact
  WireFormIsExact
CHECK_DEADLOCK FALSE
