SPECIFICATION MCSpec
CONSTANTS
  Meetings <- MCMeetings
  Scripts <- MCScripts
INVARIANTS
  HitMeansSaid
  UnheardIsLost
  PassedMarksScript
  RefusedForIdsOrSeams
CHECK_DEADLOCK FALSE
