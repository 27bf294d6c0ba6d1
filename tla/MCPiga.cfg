CONSTANTS
  t1 = t1
  t2 = t2
  Tasks = {t1, t2}
  NoVector = NoVector
  Perms <- MCPerms
  Vectors <- MCVectors
  AvdOf <- MCAvdOf
  Policies <- MCPolicies
  MaxCalls = 4
SPECIFICATION FairSpec
INVARIANTS TypeOK TokenInSequence NoSignatureCompleted DenialJustified
PROPERTIES TokensMoveForward LookupCompletes
