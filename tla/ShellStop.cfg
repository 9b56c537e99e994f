SPECIFICATION FairSpec
CONSTANTS
  Lines <- WithoutFg
  Children = {3, 4}
  Careful = TRUE
  MaxCmds = 4
INVARIANTS
  StoppedJobsListed
  

  
CHECK_DEADLOCK FALSE
