\* All tensors of up to three nonzeros, cut into blocks of one, of two, and of any
\* size.
SPECIFICATION Spec
CONSTANTS
  Width = 3
  DimSets <- SmallTensors
  MaxNonzeros = 3
  MaxBlockSizes = {0, 1, 2}
CHECK_DEADLOCK FALSE
INVARIANTS
  TypeOK
  FormatIsLossless
  BlocksAreCounted
