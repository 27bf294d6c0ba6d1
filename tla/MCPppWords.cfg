CONSTANTS
  Perms <- MCPerms
  Contexts <- MCContexts
  Answers <- MCAnswers
  Classes <- MCClasses
  TclassOf <- MCTclassOf
  Words <- MCWords
  AvPerm <- MCAvPerm
  AfterL <- MCAfterL
  BadSid = 99
  MaxSeq = 2
  MaxLink = 5
  MaxLen = 2
SPECIFICATION Spec
INVARIANTS AllPermissionsRequested
CHECK_DEADLOCK FALSE
