CONSTANTS
  w0 = w0
  w1 = w1
  w2 = w2
  Worker = {w0, w1, w2}
  LevelOf <- MCLevelOf
  NoJob = NoJob
  Top = 2
  CircuitSize = 4
  ChunkSize = 2
  BatchSize = 1
  Counted <- MCCounted
  Balance <- MCBalance
  Budgets <- MCBudgets

SPECIFICATION Spec

INVARIANTS
  TypeOK
  FinalProofIsRight
  PlaceholdersAwaited
  NothingAboveMarked
  RootIsComplete

CHECK_DEADLOCK FALSE

PROPERTIES
  LevelsAreDone
