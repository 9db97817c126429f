CONSTANTS
  goerli = goerli
  sepolia = sepolia
  Contract = {goerli}
  FirstSlot <- MCFirstSlotOne
  Prover = {w1, w2}
  Span = 1
  MaxHead = 2
  MaxAttempts = 2
  MaxStalled = 1
  MaxFaults = 2
  NoJob = NoJob

SPECIFICATION Spec

INVARIANTS
  TypeOK
  WorkIsHandedOver

PROPERTIES
  ContractsCatchUp

\* the bounded chain ends
CHECK_DEADLOCK FALSE
