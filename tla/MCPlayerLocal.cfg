SPECIFICATION FairSpec
CONSTANTS
  MaxTracks = 2
  StreamMax = 4
  QueueMax = 2
  PcmMax = 1
INVARIANTS TypeOK StoppedIsClean DecodedByOwnDecoder NeverAborts
PROPERTIES FlushEnds StopEnds BeginUnblocks
CHECK_DEADLOCK FALSE
