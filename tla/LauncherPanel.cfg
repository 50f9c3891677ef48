SPECIFICATION Spec
CONSTANTS
  SVThreadOn = TRUE
  Requests <- NoButtons
INVARIANTS
  LoaderOnlyInReload
