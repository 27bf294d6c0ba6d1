CONSTANTS
  t1 = t1
  t2 = t2
  d1 = d1
  Tasks = {t1, t2}
  Loaders = {d1}
  NoVector = NoVector
  Perms <- MCPerms
  Vectors <- ChainVectors
  AvdOf <- ChainAvdOf
  Policies <- ChainPolicies
  StatusWrites = {TRUE}
  ModeWrites = {}
  MaxCalls = 4
  MaxBlocks = 2
SPECIFICATION Spec
INVARIANTS NoSignaturePassed
CHECK_DEADLOCK FALSE
SYMMETRY Symmetry
