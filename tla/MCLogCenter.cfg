CONSTANTS
  MaxStatements = 3
  Configuration <- MCConfiguration
  Message <- MCMessage
SPECIFICATION Spec
INVARIANT SentIsRoute
CHECK_DEADLOCK FALSE
