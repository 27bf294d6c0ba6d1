CONSTANTS
  t1 = t1
  t2 = t2
  n1 = n1
  n2 = n2
  n3 = n3
  k1 = k1
  None = None
  Tasks = {t1, t2}
  Nodes = {n1, n2, n3}
  Keys = {k1}
  NumSlots = 2
  avc_hash <- MCHash
  Perms <- MCPerms
  Checks <- MCChecks
  Policies <- MCPolicies
  Threshold = 1
  Reclaim = 1
  MaxLoads = 2
SPECIFICATION Spec
INVARIANTS HitStaysReadable ActiveNodesExact OneNodePerKey GrantsFlushed CacheFresh
SYMMETRY Symmetry
