CONSTANTS
  ArraySize = 8
  Priorities = {1, 2}
  Junk = {0}
SPECIFICATION QueueSpec
INVARIANTS
  WrapKept
CHECK_DEADLOCK FALSE
