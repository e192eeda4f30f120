SPECIFICATION Spec
CONSTANTS
  Spaces <- MCSpaces
  Words <- MCWords
  ExitName <- MCExit
  PingName <- MCPing
  GetName <- MCGet
  SetName <- MCSet
  DelName <- MCDel
  FlushName <- MCFlush
  NoValue = NoValue
  OK = OK
  Pong = Pong
  Nothing = Nothing
  Invalid = Invalid
  Lines <- MCLines
INVARIANTS
  TokensAreStretches
  AcceptedExactly
PROPERTIES
  SessionIsDict
\* The session may end.
CHECK_DEADLOCK FALSE
