CONSTANTS
  c1 = c1
  c2 = c2
  c3 = c3
  Clients = {c1, c2, c3}
  Contexts <- MCContexts
  SidsOf <- MCSidsOf
  NoContext = NoContext
SPECIFICATION Spec
SYMMETRY ClientSymmetry
INVARIANTS AnswerNotStale
