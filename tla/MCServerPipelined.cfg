SPECIFICATION Spec
CONSTANTS
  c1 = c1
  c2 = c2
  c3 = c3
  Clients <- MCClients
  Spaces <- MCSpaces
  Words <- MCWords
  ExitName <- MCExit
  PingName <- MCPing
  GetName <- MCGet
  SetName <- MCSet
  DelName <- MCDel
  FlushName <- MCFlush
  NoValue = NoValue
  OK = OK
  Pong = Pong
  Nothing = Nothing
  Invalid = Invalid
  Lines <- MCFewLines
  RequestSize <- MCRequestSize
  AnswerSize <- MCAnswerSize
  MaxAsked <- MCMaxAsked
  HeaderSize = 2
  MaxMessage = 1
  BufferSize = 4
  DescriptorLimit = 1
  Window = 2
  Stalled = {}
INVARIANTS
  TypeOK
  BytesAccountedFor
PROPERTIES
  ImplementsService
\* Clients may all leave.
CHECK_DEADLOCK FALSE
