\* Two clients, or the console, two lines in all.
SPECIFICATION Spec
CONSTANTS
  Clients = {ana, luis}
  Lines <- MCLines
  ConsoleLines <- MCConsoleLines
  MaxLines = 2
  MaxTorn = 1
\* Users stop typing, and a write to a client that has gone may end the server.
CHECK_DEADLOCK FALSE
INVARIANTS TypeOK DispatchAgrees ConditionKept AnswersMatch SessionHasOneUser
PROPERTIES Answered ServerMovesOn
