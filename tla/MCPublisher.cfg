CONSTANTS
  Drain = {d1, d2}
  Slot <- MCSlot
  FirstSlot = 0
  NoProof = NoProof
  MaxFailedNumber = 1
  MaxRetries = 2
  MaxFaults = 3

SPECIFICATION FairSpec

INVARIANTS
  TypeOK
  FlagMeansDraining
  OneDrainUnlessStopping
  PendingLinked
  PostedIsOnChain

PROPERTIES
  Publication
  ProofsArePublished
