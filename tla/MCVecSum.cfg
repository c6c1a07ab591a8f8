\* Vectors of one thread block and of two.
SPECIFICATION Spec
CONSTANTS
  BLOCK_SIZE = 2
  Lengths = {2, 4}
CHECK_DEADLOCK FALSE
INVARIANTS SumIsWhole
