SPECIFICATION Spec
CONSTANTS
  MaxCalls = 4
  Failures = {"memory", "exception", "renderer", "rom", "mods"}
INVARIANTS
  RuntimeInv
  SettingsKept
PROPERTIES
  BootEnds
  QuitEnds
CHECK_DEADLOCK FALSE
