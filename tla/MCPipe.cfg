CONSTANTS
  Reader = {r1}
  Writer = {w1, w2}
  Sync = sync
  Req <- MCReq
  PIPSIZ = 2
  MaxUpset = 1
SPECIFICATION Spec
CHECK_DEADLOCK FALSE
INVARIANTS
  PipeSound
PROPERTIES
  ImplementsBytes
  EndsAfterClose
