SPECIFICATION FairDSpec
CONSTANTS
  t1 = t1
  t2 = t2
  r1 = r1
  r2 = r2
  boom = boom
  None = None
  Transcripts <- MCTranscripts
  Results <- MCResults
  Errors <- MCErrors
  Budgets <- MCBudgets
  ComputedOn <- MCComputedOn
INVARIANTS
  ResultOfTranscript
PROPERTIES
  EventuallySettled
  ResultDelivered
