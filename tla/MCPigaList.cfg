CONSTANTS
  t1 = t1
  Tasks = {t1}
  NoVector = NoVector
  Perms <- MCPerms
  Vectors <- MCVectors
  AvdOf <- MCAvdOf
  Policies <- MCPolicies
  MaxCalls = 1
SPECIFICATION Spec
INVARIANTS PolicyFileShowsSignatures
