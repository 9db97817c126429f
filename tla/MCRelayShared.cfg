CONSTANTS
  goerli = goerli
  sepolia = sepolia
  Contract = {goerli, sepolia}
  FirstSlot <- MCFirstSlot
  Prover = {w1}
  Span = 1
  MaxHead = 2
  MaxAttempts = 2
  MaxStalled = 0
  MaxFaults = 1
  NoJob = NoJob

SPECIFICATION SafetySpec

PROPERTY UpdatesStay

\* the bounded chain ends
CHECK_DEADLOCK FALSE
