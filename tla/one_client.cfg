SPECIFICATION FairSpec
CONSTANTS
  ClientNum = 1
  SendBufSize = 9
  RegionSize = 8
  Msgs <- EvenMsgs
  HdrSize = 1
  ChunkSize = 3
  MaxReqs = 10
  MaxMsgs = 5
  AllowEmptyPhase = FALSE
INVARIANTS TypeOK StreamInOrder UntakenIntact EndMarksUsed Handover
PROPERTIES PublicationAcked CallReturns
