\* Users who play, restart (the client, when it has the turn) and quit at any time.
SPECIFICATION FairSpec
CONSTANTS
  BOARDSZ = 4
  Restarts <- OnClientTurn
  Quits = TRUE
  EarlyKeys = FALSE
  Coalesce = TRUE
  SendBuf = 2
  MaxDiscs = 6
INVARIANTS SameViewAtRest OneTurnAtRest
PROPERTIES RestartHonoured TurnArrives QuitEndsBoth
\* A server whose client was refused waits for another one for ever.
CHECK_DEADLOCK FALSE
