CONSTANTS
  MAX_TASKS = 4
  MaxSpawned = 3
  StallLimit = 3
SPECIFICATION Spec
INVARIANT SyscallSurvives
CHECK_DEADLOCK FALSE
