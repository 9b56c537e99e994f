\* Two users who play and neither restart nor quit.
SPECIFICATION Spec
CONSTANTS
  BOARDSZ = 4
  Restarts <- Never
  Quits = FALSE
  EarlyKeys = FALSE
  Coalesce = TRUE
  SendBuf = 2
  MaxDiscs = 10
INVARIANTS TypeOK OneTurn SameView
PROPERTY PlaysOneGame
\* A server whose client was refused waits for another one for ever.
CHECK_DEADLOCK FALSE
