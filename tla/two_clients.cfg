SPECIFICATION FairSpec
CONSTANTS
  ClientNum = 2
  SendBufSize = 7
  RegionSize = 5
  Msgs <- SmallMsgs
  HdrSize = 1
  ChunkSize = 2
  MaxReqs = 10
  MaxMsgs = 3
  AllowEmptyPhase = FALSE
INVARIANTS CountsAgree ListedApart NothingLeft
PROPERTIES ChannelSpec Ends
