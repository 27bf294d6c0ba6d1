CONSTANTS
  t1 = t1
  t2 = t2
  NoContext = NoContext
  NoRange = NoRange
  Clients = {t1, t2}
  Names <- MCNames
  Ranges <- MCRanges
  Policies <- MCPolicies
  SECINITSID_NUM = 2
  SECINITSID_UNLABELED = 2
  UINT_MAX = 6
SPECIFICATION Spec
INVARIANTS SidsInRange
PROPERTIES ImplementsSidMap
