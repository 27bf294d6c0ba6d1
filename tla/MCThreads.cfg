CONSTANTS
  t1 = t1
  t2 = t2
  d1 = d1
  Tasks = {t1, t2}
  Loaders = {d1}
  NoVector = NoVector
  Perms <- MCPerms
  Vectors <- MCVectors
  AvdOf <- MCAvdOf
  Policies <- MCPolicies
  StatusWrites = {TRUE}
  ModeWrites = {TRUE}
  MaxCalls = 2
  MaxBlocks = 4
SPECIFICATION Spec
INVARIANTS MemorySafeInTurns NoLeak
CHECK_DEADLOCK FALSE
SYMMETRY Symmetry
