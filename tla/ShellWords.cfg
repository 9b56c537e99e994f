SPECIFICATION Spec
CONSTANTS
  Programs = {"ls"}
  Builtins = {"jobs"}
  Patterns = {"*", "?"}
  Matches <- Found
  MAX_ARGC = 4
  MAX_PIPE_NUM = 3
  MaxWords = 5
INVARIANTS
  LineAsWritten
  
  
CHECK_DEADLOCK FALSE
