CONSTANTS
  Byte <- AllBytes
  Requests <- FewRequests
  Services <- OneService
  BufferSize = 128
  Beyond = {0, 3}
SPECIFICATION FairSpec
PROPERTY DecodeReturns
CHECK_DEADLOCK FALSE
