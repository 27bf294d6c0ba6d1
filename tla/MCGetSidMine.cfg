CONSTANTS
  c1 = c1
  c2 = c2
  Clients = {c1, c2}
  Contexts <- MCContexts
  SidsOf <- MCSidsOf
  NoContext = NoContext
SPECIFICATION Spec
INVARIANTS AnswerIsMine
