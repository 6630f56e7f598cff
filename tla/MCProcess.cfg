SPECIFICATION Spec
CONSTANTS
  NPROC = 5
  PIDMAX = 11
  MAXUPRC = 3
  Tty = {1}
  Begin <- MCBegin
INVARIANTS WaitNotMissed LiveParent NumberOfGroup NotStoppedForever AnswerIsOwn
CHECK_DEADLOCK FALSE
PROPERTIES OrphansReaped Answered
