CONSTANTS
  Byte <- AllBytes
  Requests <- MoreRequests
  Services <- OneService
  BufferSize = 96
  Beyond = {0, 3}
SPECIFICATION FairSpec
INVARIANTS TypeOK Framed RepliesKept
PROPERTY ClosedEnds
CHECK_DEADLOCK FALSE
