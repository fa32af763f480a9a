CONSTANTS
  wfd = wfd
  sock = sock
  LoopThread = lt
  Poster = {p1}
  Client = {c1, c2}
  Fd = {wfd, sock}
  WakeupFd = wfd
  WakeFlags = {TRUE}
  Requests <- NoRequests
  Arrivals <- NoArrivals
  MaxEvents = 1
  NoTask = NoTask
  NoOwner = NoOwner
SPECIFICATION Spec
CHECK_DEADLOCK FALSE
INVARIANT GuardHolds
