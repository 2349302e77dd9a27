SPECIFICATION Spec
CONSTANTS
  Descriptions <- MCDescriptions
  Clients <- MCClients
  Streams <- MCStreams
  Threads = 2
  Garbage = {0, 255}
  NoResult = NoResult
  Beyond = {0, 128}
CHECK_DEADLOCK FALSE
INVARIANTS
  WritesInsideBuffer
  ParsedAsEncoded
  SameDescription
  RejectedWasReported
  RecordsTile
