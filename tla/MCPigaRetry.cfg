CONSTANTS
  t1 = t1
  Tasks = {t1}
  NoVector = NoVector
  Perms <- MCPerms
  Vectors <- MCVectors
  AvdOf <- MCAvdOf
  Policies <- MCPolicies
  MaxCalls = 3
SPECIFICATION Spec
INVARIANTS RetryIsJustLater
