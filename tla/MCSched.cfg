CONSTANTS
  MAX_TASKS = 4
  MaxSpawned = 3
  StallLimit = 3
SPECIFICATION FairSpec
INVARIANT TypeOK
INVARIANT OwnFrames
INVARIANT OwnEnvironment
PROPERTY DeadStaysOff
PROPERTY KillOnlyQuiet
PROPERTY NoStarvation
PROPERTY HungIsKilled
CHECK_DEADLOCK FALSE
