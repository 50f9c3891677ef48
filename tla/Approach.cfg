SPECIFICATION FairSpec
CONSTANTS
  BlockSize = 8
  Trimmed = 2
  Chunk = 3
  MaxPolls = 2
  Legs <- TwoLegs
  Marks = {120, 159, 349, 350, 640, 1200}
  MaxGarbled = 1
INVARIANTS TypeOK Configured NoSurge
PROPERTIES StopsNear SensorSettles ApproachSettles
CHECK_DEADLOCK FALSE
