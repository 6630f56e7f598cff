SPECIFICATION PkSpec
CONSTANTS
  MOD = 4
  WINDOWS = 2
  GETRIES = 4
  CONBAD = 1
  Turns <- MCTurns
  Faulty = {"INITB"}
  MaxLoss = 1
  MaxEarly = 0

PROPERTY Opens
CHECK_DEADLOCK FALSE
