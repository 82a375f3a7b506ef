\* One stream is enough.
SPECIFICATION FairSpec
CONSTANTS
  Requests = {s}
  Streams = {s}
  StreamCap = 1
  WireCap = 1
  MaxChunks = 2
PROPERTY
  AgentGoneGoesOffline
CHECK_DEADLOCK FALSE
