SPECIFICATION Spec
CONSTANTS
  ClientNum = 1
  SendBufSize = 9
  RegionSize = 8
  Msgs <- EvenMsgs
  HdrSize = 1
  ChunkSize = 1
  MaxReqs = 2
  MaxMsgs = 4
  AllowEmptyPhase = FALSE
INVARIANTS CopyOnlyRead
