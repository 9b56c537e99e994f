SPECIFICATION Spec
CONSTANTS
  Lines <- StrayLines
  Children = {3, 4}
  Careful = TRUE
  MaxCmds = 5
INVARIANTS
  KeysStayInForeground
CHECK_DEADLOCK FALSE
