CONSTANTS
  Worker = {w1, w2}
  NoJob = NoJob
  Depth = 2
  BatchSize = 2
  MaxRound = 3
  Budgets <- MCBudgets

SPECIFICATION Spec

INVARIANTS
  TypeOK
  MarkedIsAwaited
  ProofsKeepPlaces
  RootIsCurrent

CHECK_DEADLOCK FALSE

PROPERTIES
  EventuallyQuiet
