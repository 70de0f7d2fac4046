SPECIFICATION Spec
CONSTANTS
  Byte = {0, 1}
  Size = 5
  Bufs <- MCBufs
  Sizes <- MCSizes
INVARIANT StaleTrailsFresh
PROPERTY ImplementsByteStream
