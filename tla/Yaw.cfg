SPECIFICATION Spec
CONSTANTS
  Modulus = 255
  Turns = {1, 40, 127}
  MaxHeading = 300
INVARIANTS TypeOK ReadSinceReset
PROPERTY HeadingSpec
