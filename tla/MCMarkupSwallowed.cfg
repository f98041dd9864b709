SPECIFICATION MSpec
CONSTANTS
  Scripts <- MCScripts
INVARIANTS
  NothingSwallowed
CHECK_DEADLOCK FALSE
