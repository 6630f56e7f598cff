CONSTANTS
  Fun = {f1, f2, f3}
  Delay <- MCDelay
  Idle = Idle
  NULL = NULL
  Beyond = Beyond
  NCALL = 10
  MaxLate = 1
SPECIFICATION Spec
PROPERTIES
  CallsMade
  ImplementsTimers
