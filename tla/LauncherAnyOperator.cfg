SPECIFICATION FairSpec
CONSTANTS
  SVThreadOn = FALSE
  Requests <- Buttons
INVARIANTS
  TypeOK
  LoaderClearOfShot
  LoaderSequenced
  IdleIsSafe
  ClosedUnlessMeddled
PROPERTIES
  RequestRetired
  CycleSpec
  ShotAtRequestedPoint
