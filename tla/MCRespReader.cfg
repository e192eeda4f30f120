SPECIFICATION Spec
CONSTANTS
  Bytes <- MCBytes
  Base = 5
  Digit <- MCDigit
  MaxReply = 3
  MaxInt = 22
  Requests <- MCRequests
INVARIANTS
  TypeOK
  ReadsOneReply
  ReturnsOnlyReplies
  RequestUnambiguous
\* The command ends.
CHECK_DEADLOCK FALSE
