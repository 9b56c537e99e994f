SPECIFICATION Spec
CONSTANTS
  Threads = {1, 2}
  Calls <- Shapes
  Streams <- Own
  monitor_MAGIC = 5
  Early = 1
  MaxCalls = 2
INVARIANTS
  
  OnlyDlsymIsCheated
  
  PathIsCallers
CHECK_DEADLOCK FALSE
