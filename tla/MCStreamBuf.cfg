SPECIFICATION Spec
CONSTANTS
  Capacity = 8
  MAX_STREAM_CMDS = 3
  Reserve = 2
  StopMax = 2
  Bufs = {}
  Sizes = {}
INVARIANTS TypeOK DiscardEnds SlotsDoNotLap
PROPERTY ImplementsCommandStream
CHECK_DEADLOCK FALSE
