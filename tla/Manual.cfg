SPECIFICATION Spec
CONSTANTS
  Motors = 1
  Speeds = {355}
  Fingers = {"CIRCLE"}
INVARIANTS TypeOK EmergencyStopReaches NothingBeforeFirstFrame
PROPERTIES OneTogglePerPress OneRequestPerPress ReleasedStickStops
