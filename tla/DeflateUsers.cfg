SPECIFICATION UsersSpec
CONSTANTS
  N = 3
  MaxOut = 3
  Wraps = {"raw", "zlib", "gzip"}
  Threshold = 1
  BufSize = 2
  PerJob = 3
  StoredLen = 2
  Users = {"app", "compress", "gzfile"}
  MaxPiece = 2
  Dests = {0, 4, 7, 12}
  MaxLen = 3
CHECK_DEADLOCK FALSE
INVARIANTS
  Decodable
  EndIsEnd
  FlushDelivers
  CompressRight
  GzFileWhole
PROPERTIES
  FinishEnds
