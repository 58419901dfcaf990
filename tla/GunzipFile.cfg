CONSTANTS
  Files <- MCFiles
  Bits = 2
  Trailer = 2
  FifoIn = 7
  FifoOut = 14
  LineSz = 1
  Reserve = 8
  Window = 4
  QuadWord = 2
  PageSz = 6
  RetryMax = 2
  Ratio = 4
  StdioSz = 3
SPECIFICATION Spec
INVARIANT JobsResume
INVARIANT WritesPlain
PROPERTY Decompresses
