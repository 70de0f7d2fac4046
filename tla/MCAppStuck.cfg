SPECIFICATION FairSpec
CONSTANTS
  Enqueue = {FALSE}
  Items = {}
  MaxCalls = 2
  MaxDepth = 1
PROPERTY AskedIsStarted
CHECK_DEADLOCK FALSE
