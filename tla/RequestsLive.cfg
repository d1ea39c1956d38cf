CONSTANTS
  w1 = w1
  w2 = w2
  h1 = h1
  h2 = h2
  s1 = s1
  s2 = s2
  Windows <- MCWindows
  NoWindow = NoWindow
  Handles <- MCOneHandle
  NoHandle = NoHandle
  Sizes <- MCOneSize
  NoSize = NoSize
  MaxChanges = 1
  MaxRequests = 2
SPECIFICATION FairSpec
PROPERTY
  AllAnswered
