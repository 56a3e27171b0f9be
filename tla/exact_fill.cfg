SPECIFICATION Spec
CONSTANTS
  ClientNum = 1
  SendBufSize = 8
  RegionSize = 8
  Msgs <- ExactMsgs
  HdrSize = 1
  ChunkSize = 3
  MaxReqs = 10
  MaxMsgs = 4
  AllowEmptyPhase = FALSE
INVARIANTS EndMarksUsed
