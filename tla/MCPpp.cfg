CONSTANTS
  Perms <- MCPerms
  Contexts <- MCContexts
  Answers <- MCAnswers
  Classes <- MCClasses
  TclassOf <- MCTclassOf
  Words <- MCWords
  AvPerm <- MCAvPerm
  AfterL <- MCAfterL
  BadSid = 99
  MaxSeq = 3
  MaxLink = 5
  MaxLen = 2
SPECIFICATION Spec
INVARIANTS TableMirrorsFile CountsExact HandedWellFormed OverrunOnlyWhenFull
CHECK_DEADLOCK FALSE
