SPECIFICATION Spec
CONSTANTS
  ClientNum = 1
  SendBufSize = 13
  RegionSize = 9
  Msgs <- LongMsgs
  HdrSize = 2
  ChunkSize = 2
  MaxReqs = 1
  MaxMsgs = 5
  AllowEmptyPhase = FALSE
INVARIANTS StreamInOrder CopyOnlyRead
