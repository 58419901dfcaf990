SPECIFICATION Spec
CONSTANTS
  c1 = c1
  c2 = c2
  c3 = c3
  h1 = h1
  h2 = h2
  h3 = h3
  NULL = NULL
  p1 = p1
  p2 = p2
  p3 = p3
  Procs = {p1, p2, p3}
  Clients <- MCClients2
  Handles <- MCHandles3
  MaxReuse <- MCReuse
  PowerVM = FALSE
  Credits = 2
  OpenRetries = 2
  RecyclePids = FALSE
CHECK_DEADLOCK FALSE
SYMMETRY Symmetry
INVARIANTS
  OpenCntCoversUsers
  NotInherited
  NoIdleOrphan
