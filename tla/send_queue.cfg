SPECIFICATION Spec
CONSTANTS
  ClientNum = 1
  SendBufSize = 25
  RegionSize = 24
  Msgs <- OneLongMsg
  HdrSize = 1
  ChunkSize = 1
  MaxReqs = 10
  MaxMsgs = 2
  AllowEmptyPhase = FALSE
INVARIANTS PostsFit
