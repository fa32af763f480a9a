CONSTANTS
  wfd = wfd
  sock = sock
  LoopThread = lt
  Poster = {p1}
  Client = {c1}
  Fd = {wfd, sock}
  WakeupFd = wfd
  WakeFlags = {TRUE, FALSE}
  Requests <- NoRequests
  Arrivals <- InOnly
  MaxEvents = 1
  NoTask = NoTask
  NoOwner = NoOwner
SPECIFICATION FairSpec
CHECK_DEADLOCK FALSE
PROPERTIES PostedTaskRuns StopExits
