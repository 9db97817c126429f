CONSTANTS
  SLOTS_PER_EPOCH = 2
  SLOTS_PER_PERIOD = 6
  slotsJump = 3
  FirstSlot = 4
  MaxSlot = 22
  MaxEmpty = 0
  MaxWeak = 0

SPECIFICATION Spec

INVARIANT EveryUpdateIsProvable

\* the bounded chain ends
CHECK_DEADLOCK FALSE
