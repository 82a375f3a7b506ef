\* One buffered call and one stream, every interleaving.
SPECIFICATION Spec
CONSTANTS
  Requests = {b, s}
  Streams = {s}
  StreamCap = 1
  WireCap = 2
  MaxChunks = 2
INVARIANTS
  TypeOK
  ChannelSafety
  NoPendingLeak
  WaiterHasWakeup
  BufferedNeverBlocksLoop
  CancelFindsStream
  InOrder
  EofMeansComplete
PROPERTY
  AtMostOnce
CHECK_DEADLOCK FALSE
