SPECIFICATION FairSpec
CONSTANTS
  Lines <- FgPipeLines
  Children = {3, 4}
  Careful = TRUE
  MaxCmds = 5
PROPERTIES
  PromptAfterStop
CHECK_DEADLOCK FALSE
