SPECIFICATION MCSpec
CONSTANTS
  MOD = 4
  WINDOWS = 2
  GETRIES = 4
  CONBAD = 1
  Turns <- MCTurns
  Faulty = {"DATA", "RR", "RJ", "CLOSE", "INITA", "INITB", "INITC"}
  MaxLoss = 3
  MaxEarly = 1
INVARIANTS InOrder SenderSound
PROPERTY Ends
CHECK_DEADLOCK FALSE
