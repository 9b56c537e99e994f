SPECIFICATION FairSpec
CONSTANTS
  Lines <- Typed
  Children = {1, 2, 3, 4, 5}
  PipeBuf = 1
  Supply = 2
  MaxLines = 2
INVARIANTS
  StraightPipe
  WritersUpstream
  StdioRestored
  LeakBounded
PROPERTIES
  PromptReturns
  StagesEnd
CHECK_DEADLOCK FALSE
