SPECIFICATION FairSpec
CONSTANTS
  t1 = t1
  t2 = t2
  Threads <- MCThreads
  Nobody = Nobody
  PowerVM = TRUE
  PasteTimeout = 3
  CsbTimeout = 1
  MaxCredits = 1
  MaxWindows = 3
INVARIANTS
  PasteAddressMapped
PROPERTIES
  ImplementsSharedWindow
  ReturnsWithWindow
