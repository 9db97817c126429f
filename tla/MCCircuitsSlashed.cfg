CONSTANTS
  Kinds = {"registry"}
  LimbBits = 4
  ByteBits = 2
  SlotsPerEpoch = 4
  Operands <- MCOperands
  Messages <- MCMessages
  KnownDigests <- MCKnownDigests
  Levels = {0, 1, 2, 37, 38, 40, 41}
  AllLevels = all
  Credentials <- MCCredentials
  RegistryDepth = 4
  Registries <- MCRegistries
SPECIFICATION Spec
INVARIANT
  TreesMatch
CHECK_DEADLOCK FALSE
