SPECIFICATION Spec
CONSTANTS
  Encodings = {"X2", "X4"}
  Lines = 5
  pulsesPerRev = 10
  Reach = 21
  Starts = {0, 18, 19, 20, 21}
  MaxIndex = 2
  MaxLate = 1
INVARIANTS TypeOK DriftBounded
PROPERTY IndexCorrects
