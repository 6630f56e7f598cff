CONSTANTS
  p1 = p1
  p2 = p2
  p3 = p3
  c = c
  d = d
  sched = sched
  Proc = {p1, p2, p3, sched}
  Chan = {c, d}
  RUNOUT = RUNOUT
  RUNIN = RUNIN
  HASH <- Shared
  NULL = NULL
  MaxCore = 2
  Signals = TRUE
SPECIFICATION Spec
SYMMETRY MCSymmetry
CONSTRAINT Uncrossed
INVARIANTS
  QueuesSound
  SwapperTold
