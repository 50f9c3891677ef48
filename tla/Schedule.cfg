SPECIFICATION FairSpec
CONSTANTS
  Unit = 50
  Late = 1
INVARIANTS
  TypeOK
  NoLostUpdate
  FeedClearOfShot
  VisitStartsClosed
PROPERTIES
  NoRequestLost
  RequestServed
  PressureBeforeShot
  CycleSpec
