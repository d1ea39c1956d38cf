CONSTANTS
  Base = 2
  c1 = c1
  c2 = c2
  Conns <- MCConns
  NoSocket = NoSocket
  Messages <- MCMessages
  Unparsable <- MCNone
  MaxSent = 4
  BufSize = 5
  ListRequest <- MCRequest
  ImageRequest <- MCRequest
  FrameRequest <- MCRequest
  FinalFrame <- MCFinal
  Commands <- MCPictures
  MaxPackets = 1
  MaxFaults = 1
SPECIFICATION CastSpec
INVARIANTS
  NoMutualWait
  PostedSurvives
PROPERTY
  ImplementsCalls
SYMMETRY Symmetry
