SPECIFICATION FairSpec
CONSTANTS
  c1 = c1
  c2 = c2
  c3 = c3
  Clients <- MCThreeClients
  Spaces <- MCSpaces
  Words <- MCWords
  ExitName <- MCExit
  PingName <- MCPing
  GetName <- MCGet
  SetName <- MCSet
  DelName <- MCDel
  FlushName <- MCFlush
  NoValue = NoValue
  OK = OK
  Pong = Pong
  Nothing = Nothing
  Invalid = Invalid
  Lines <- MCPingLine
  RequestSize <- MCRequestSize
  AnswerSize <- MCAnswerSize
  MaxAsked <- MCFewAsked
  HeaderSize = 1
  MaxMessage = 1
  BufferSize = 1
  DescriptorLimit = 2
  Window = 1
  Stalled <- MCStalled
PROPERTIES
  EveryoneServed
  EveryoneAdmitted
\* Clients may all leave.
CHECK_DEADLOCK FALSE
