CONSTANTS
  Base = 2
  c1 = c1
  c2 = c2
  Conns <- MCConns
  NoSocket = NoSocket
  Messages <- EmptyMessage
  Unparsable <- EmptyMessage
  MaxSent = 1
  BufSize = 4
SPECIFICATION FairSpec
PROPERTY
  NewClientTakesOver
