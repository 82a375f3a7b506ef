\* The same instance under the fairness of the goroutines.
SPECIFICATION FairSpec
CONSTANTS
  Requests = {b, s}
  Streams = {s}
  StreamCap = 1
  WireCap = 1
  MaxChunks = 2
PROPERTIES
  BufferedCallsReturn
  OfflineUnlessWedged
  CancelStopsStream
CHECK_DEADLOCK FALSE
