CONSTANTS
  p1 = p1
  p2 = p2
  p3 = p3
  Proc = {p1, p2, p3}
  NoProc = NoProc
  NINODE = 2
  NFILE = 2
  INOPB = 1
  NICINOD = 1
  Errors = FALSE
SPECIFICATION Spec
SYMMETRY MCSymmetry
INVARIANTS OneSlotPerInode CountsReferences NoLostWakeup AllocationSound
