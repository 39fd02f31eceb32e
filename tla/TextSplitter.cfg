SPECIFICATION SplitSpec
CONSTANTS
  Sizes = {2, 4}
  Overlaps = {0, 1, 2, 3, 4}
  LineMax = 3
  TextLen = 10
INVARIANTS ChunksFit ChunksCoverInOrder
CHECK_DEADLOCK FALSE
