CONSTANTS
  Typesizes = {1, 2, 3, 4, 8, 12, 16, 24}
  Sizes = {7, 16, 40}
  Blocks <- MCBlocks
  Precisions = {1, 20, 23, 40, 52}
SPECIFICATION Spec
INVARIANTS SameFormat Restored TailAsModelled
CHECK_DEADLOCK FALSE
