SPECIFICATION Spec
CONSTANTS
  t1 = t1
  t2 = t2
  t3 = t3
  n1 = n1
  n2 = n2
  n3 = n3
  Thread = {t1, t2, t3}
  Node = {n1, n2, n3}
  NULL = NULL
  Msg <- MCMsg
  BufLen <- MCBufLen
INVARIANTS TypeOK MutualExclusion SingleOwner Linked
PROPERTY ImplementsQueue
SYMMETRY MCSymmetry
