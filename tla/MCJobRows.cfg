SPECIFICATION MCSpec
CONSTANTS
  t1 = t1
  r1 = r1
  a1 = a1
  None = None
  Transcripts <- MCTranscripts
  Results <- MCResults
  Errors <- MCErrors
  Budgets <- MCBudgets
  Ids <- MCIds
  Audios <- MCAudios
  Text <- MCText
  Strange <- MCStrange
  MaxStored = 2
  MaxNow = 1
  MaxCrashes = 1
INVARIANTS
  ReadBackIsHeld
  RepeatedByCrashesOnly
PROPERTIES
  StoredWorkKept
  NothingOnHollowRow
  RowsMoveByCalls
  RowsImplementContract
