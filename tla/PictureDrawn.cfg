CONSTANTS
  Align = 8
  Sizes <- MCOneSize
SPECIFICATION Spec
INVARIANT
  PictureDrawn
