SPECIFICATION Spec
CONSTANTS
  p1 = p1
  p2 = p2
  b1 = b1
  b2 = b2
  b3 = b3
  k1 = k1
  p3 = p3
  k2 = k2
  k3 = k3
  Proc = {p1, p2}
  Buf = {b1, b2, b3}
  NBUF = 3
  Block = {k1, k2}
  Val = {0}
  Blank = 0
  None = None
  NODEV = NODEV
  NoProc = NoProc
  NoBuf = NoBuf
  NoChan = NoChan
  bfreelist = bfreelist
  Jobs <- WaitJobs
  Errors = TRUE
PROPERTIES SleepersWoken
CHECK_DEADLOCK FALSE
