SPECIFICATION XrangeSpec
CONSTANTS
  Bounds <- MCBounds
  Steps <- MCSteps
INVARIANT
  VisitsAll
CHECK_DEADLOCK FALSE
