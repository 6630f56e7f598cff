SPECIFICATION Spec
CONSTANTS
  Call = {1, 2}
  From <- MCFrom
  Work <- MCWork
  At <- MCAt
  Type <- MCType
  Denied = {2}
  Early = {1, 2}
  Refused = {1, 5, 6}
  Source = {}
  LLEN = 1
  SeqMax = 2
  MAXRECALLS = 0
  MaxFault = 1
  Stale = {0}
INVARIANTS OneConversation InStep SuccessIsTrue CountsAgree Kept
PROPERTY CallsEnd
CHECK_DEADLOCK FALSE
