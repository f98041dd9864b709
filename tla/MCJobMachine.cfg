SPECIFICATION Spec
CONSTANTS
  t1 = t1
  t2 = t2
  r1 = r1
  r2 = r2
  boom = boom
  None = None
  Transcripts <- MCTranscripts
  Results <- MCResults
  Errors <- MCErrors
  Budgets <- MCBudgets
INVARIANTS
  TypeOK
  Lineage
  BudgetKept
  RedeliveryAbsorbed
PROPERTIES
  PaidWorkKept
  NeverRepeats
  ImplementsContract
