CONSTANTS
  Size = 3
  ZeroRoot = 0
  Domain = {"mainnet", "prater"}
  MyDomain = "mainnet"
  Root <- MCRoot
  Genesis <- MCGenesis
  Provable <- MCProvable

SPECIFICATION Spec

INVARIANTS
  TypeOK
  QueriesTellHistory
  SlotOfNewest

PROPERTY Refinement

\* the last header has no successor: the finite chain ends
CHECK_DEADLOCK FALSE
