CONSTANTS
  Base = 2
  c1 = c1
  c2 = c2
  Conns <- MCConns
  NoSocket = NoSocket
  Messages <- ShortMessages
  Unparsable <- EmptyMessage
  MaxSent = 2
  BufSize = 5
SPECIFICATION FairSpec
INVARIANTS
  IInv
  OneClient
  StopClosesItsClient
  StopIsClean
  LibrariesOutliveListener
  ListenerAlive
  StopUnblocks
PROPERTIES
  ImplementsService
  ListenerNearer
  StopTerminates
  MessagesHandled
