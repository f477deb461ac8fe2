SPECIFICATION Spec
CONSTANTS
  W = 1
  N = 197
  Operands = {0, 1, 2, 77, 127, 128, 196, 198}
INVARIANT ProductsRight
CHECK_DEADLOCK FALSE
