CONSTANTS
  w1 = w1
  w2 = w2
  h1 = h1
  h2 = h2
  s1 = s1
  s2 = s2
  Windows <- MCWindows
  NoWindow = NoWindow
  Handles <- MCHandles
  NoHandle = NoHandle
  Sizes <- MCSizes
  NoSize = NoSize
  MaxChanges = 2
  MaxRequests = 2
SPECIFICATION Spec
INVARIANTS
  HandlerInv
  NothingLost
  LeavesNoTrace
  SuccessIsDrawn
  ServesUndisturbed
  ListExact
PROPERTIES
  OnlyTargetDrawn
  RequestNearer
  ImplementsDrawing
SYMMETRY Symmetry
