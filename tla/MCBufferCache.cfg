SPECIFICATION Spec
CONSTANTS
  p1 = p1
  p2 = p2
  b1 = b1
  b2 = b2
  b3 = b3
  k1 = k1
  p3 = p3
  k2 = k2
  k3 = k3
  Proc = {p1, p2}
  Buf = {b1, b2}
  NBUF = 2
  Block = {k1, k2, k3}
  Val = {0, 1}
  Blank = 0
  None = None
  NODEV = NODEV
  NoProc = NoProc
  NoBuf = NoBuf
  NoChan = NoChan
  bfreelist = bfreelist
  Jobs <- DataJobs
  Errors = FALSE
SYMMETRY DataSymmetry
INVARIANTS CacheSound OneBufferPerBlock SyncWriteIsOnDisk
PROPERTIES ImplementsStore
