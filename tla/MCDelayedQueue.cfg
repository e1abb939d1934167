SPECIFICATION QueueFairSpec
CONSTANTS
  Delays = {0, 1, 2}
  Remapping = TRUE
  Early = 1
  MaxTime = 4
  MaxCount = 4
INVARIANTS
  TimerGuards
PROPERTIES
  IsDelayLine
  EventuallySent
CHECK_DEADLOCK FALSE
