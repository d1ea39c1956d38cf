CONSTANTS
  Base = 2
  c1 = c1
  c2 = c2
  Conns <- MCOneConn
  NoSocket = NoSocket
  Messages <- MCMessages
  Unparsable <- MCNone
  MaxSent = 4
  BufSize = 5
  ListRequest <- MCRequest
  ImageRequest <- MCRequest
  FrameRequest <- MCRequest
  FinalFrame <- MCFinal
  Commands <- MCAll
  MaxPackets = 2
  MaxFaults = 0
SPECIFICATION CastSpec
INVARIANT
  EachFrameProcessed
