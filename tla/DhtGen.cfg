SPECIFICATION FairSpec
CONSTANTS
  LLCounts <- MCLLCounts
  DCounts <- MCDCounts
  Literals = 6
  MaxDepth = 4
  InitialLimit = 80
  MinRepeat = 2
  Max16 = 3
  Max17 = 2
  Max18 = 4
INVARIANTS CodesBest ReadBack BitsBounded
PROPERTIES Finishes
CHECK_DEADLOCK FALSE
