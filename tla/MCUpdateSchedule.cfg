CONSTANTS
  SLOTS_PER_EPOCH = 2
  SLOTS_PER_PERIOD = 6
  slotsJump = 3
  FirstSlot = 4
  MaxSlot = 22
  MaxEmpty = 2
  MaxWeak = 1

SPECIFICATION Spec

INVARIANTS
  TypeOK
  PollFindsTheJob
  SearchIsExact
  UpdatesArePeriodic
  NothingToAddOnlyAtHead

\* the bounded chain ends
CHECK_DEADLOCK FALSE
