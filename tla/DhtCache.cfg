SPECIFICATION FairSpec
CONSTANTS
  none = none
  c1 = c1
  c2 = c2
  c3 = c3
  c4 = c4
  NumSlots = 3
  NumBuiltin = 2
  BuiltinKey <- MCBuiltinKey
  Counts <- MCCounts
  NoCounts = none
  KeyOf <- MCKeyOf
  Left <- MCLeft
  Budget = 2
  JobBytes = {1}
  NULL = NULL
CHECK_DEADLOCK FALSE
INVARIANTS
  UniqueKeys
  LastUsedIntact
PROPERTIES
  VictimUnused
  LookupReturns
