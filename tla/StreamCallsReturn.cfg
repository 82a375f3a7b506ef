\* One stream is enough.
SPECIFICATION FairSpec
CONSTANTS
  Requests = {s}
  Streams = {s}
  StreamCap = 1
  WireCap = 1
  MaxChunks = 2
PROPERTY
  StreamCallsReturn
CHECK_DEADLOCK FALSE
