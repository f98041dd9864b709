SPECIFICATION Spec
CONSTANTS
  Meetings <- UnitMisheard
INVARIANTS
  WrongUnitIsDeleted
CHECK_DEADLOCK FALSE
