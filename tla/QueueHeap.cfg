CONSTANTS
  ArraySize = 8
  Priorities = {1, 2}
  Junk = {0}
SPECIFICATION QueueSpec
INVARIANTS
  IsValidHeap
CHECK_DEADLOCK FALSE
