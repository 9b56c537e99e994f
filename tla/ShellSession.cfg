SPECIFICATION Spec
CONSTANTS
  Lines <- Session
  Children = {3, 4, 5}
  Careful = TRUE
  MaxCmds = 4
INVARIANTS
  TypeOK
  JobsNameTheirCommands
  CountsAreOfTheJob
  
  PromptOwnsTerminal
  
CHECK_DEADLOCK FALSE
