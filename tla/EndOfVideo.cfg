CONSTANTS
  w1 = w1
  w2 = w2
  h1 = h1
  h2 = h2
  s1 = s1
  s2 = s2
  Windows <- MCOneWindow
  NoWindow = NoWindow
  Handles <- MCOneHandle
  NoHandle = NoHandle
  Sizes <- MCOneSize
  NoSize = NoSize
  MaxChanges = 0
  MaxRequests = 1
SPECIFICATION Spec
INVARIANT
  EndOfVideoNotDrawn
