SPECIFICATION UsersSpec
CONSTANTS
  Members <- MCMembers
  Wraps <- MCWraps
  CarefulHcrc = TRUE
  NULL = NULL
  Bits = 2
  Window = 4
  QuadWord = 2
  LenOut = 16
  Threshold = 4
  MinInput = 2
  MaxLoops = 8
  MaxFaults = 1
  Trailers <- MCTrailers
  Extra = 1
  Chunks = {1}
  Rooms = {0, 1, 3}
  Flushes = {"no", "finish"}
  Again <- MCAgain
  MaxResets = 1
  MembersOf <- MCMembersOf
  MaxPiece = 4
  FewBytes = 2
  Dests = {0, 1, 3, 5, 8}
  Lens = {1, 3, 6}
CHECK_DEADLOCK FALSE
INVARIANTS
  JobsResume
  OutputRight
  NoFalseError
  EndIsEnd
  UncompressRight
  GzreadRight
PROPERTIES
  Completes
