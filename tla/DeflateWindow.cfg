SPECIFICATION Spec
CONSTANTS
  Histories = {0, 4}
  Wraps = {"raw", "zlib"}
  QuadWord = 2
  LenIn = 12
  MaxDict = 4
  Threshold = 2
  BufSize = 3
  PerJob = 6
  StoredLen = 3
  MinInput = 2
  Chunks = {0, 1, 4}
  DictLens = {3, 6}
  MaxRow = 1
  MaxPlace = 11
  MaxResets = 1
  NULL = NULL
CHECK_DEADLOCK FALSE
INVARIANTS
  JobsContinue
  FullHistory
