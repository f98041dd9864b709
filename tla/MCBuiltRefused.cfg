SPECIFICATION MSpec
CONSTANTS
  Scripts <- MCScripts
INVARIANTS
  BuiltAlwaysPasses
CHECK_DEADLOCK FALSE
