SPECIFICATION Spec
CONSTANTS
  SVThreadOn = FALSE
  Requests <- Buttons
INVARIANTS
  NoneMeansClosed
