CONSTANTS
  t1 = t1
  d1 = d1
  Tasks = {t1}
  Loaders = {d1}
  NoVector = NoVector
  Perms <- MCPerms
  Vectors <- MCVectors
  AvdOf <- MCAvdOf
  Policies <- MCPolicies
  StatusWrites = {TRUE, FALSE}
  ModeWrites = {TRUE}
  MaxCalls = 3
  MaxBlocks = 4
SPECIFICATION SerialSpec
INVARIANTS NoSignaturePassed
PROPERTIES ImplementsMonitor
CHECK_DEADLOCK FALSE
