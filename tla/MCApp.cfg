SPECIFICATION FairSpec
CONSTANTS
  Enqueue = {FALSE, TRUE}
  Items = {0, 2}
  MaxCalls = 4
  MaxDepth = 2
INVARIANTS TypeOK JoinEnds BeginsAreEnded
PROPERTY EndedTaskEnds
CHECK_DEADLOCK FALSE
