SPECIFICATION Spec
CONSTANTS
  MaxCalls = 4
  Failures = {}
PROPERTIES
  QuitReachesTeardown
CHECK_DEADLOCK FALSE
