CONSTANTS
  wfd = wfd
  sock = sock
  LoopThread = lt
  Poster = {p1}
  Client = {c1}
  Fd = {wfd, sock}
  WakeupFd = wfd
  WakeFlags = {FALSE}
  Requests <- AddOrDelete
  Arrivals <- InError
  MaxEvents = 1
  NoTask = NoTask
  NoOwner = NoOwner
SPECIFICATION Spec
INVARIANTS TypeOK HandlerQueuedOnce
PROPERTY ImplementsTaskQueue
CHECK_DEADLOCK FALSE
