SPECIFICATION Spec
CONSTANTS
  Values = {0, 70}
  Length = 3
INVARIANT TypeOK
PROPERTIES IntactFrameAccepted NoMixedFrame
