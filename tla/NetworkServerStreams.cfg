CONSTANTS
  Base = 2
  c1 = c1
  c2 = c2
  Conns <- MCConns
  NoSocket = NoSocket
  Messages <- LongMessages
  Unparsable <- EmptyMessage
  MaxSent = 3
  BufSize = 7
SPECIFICATION Spec
INVARIANTS
  ConnectionInv
  FramesIntact
  RepliesFramed
  RepliesMatch
  AnswersAll
  ReceivedIsHandled
PROPERTIES
  HangupLosesNothing
SYMMETRY Symmetry
