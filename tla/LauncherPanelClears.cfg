SPECIFICATION Spec
CONSTANTS
  SVThreadOn = TRUE
  Requests <- Buttons
PROPERTIES
  NoneIsNotLaunched
