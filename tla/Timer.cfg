CONSTANTS
  short = short
  long = long
  again = again
  LoopThread = lt
  Adder = {}
  TimerEvent = {short, long, again}
  Interval <- MCInterval
  Repeated = {again}
  Retry = 2
  Off = Off
  NoEvent = NoEvent
SPECIFICATION FairSpec
INVARIANTS TypeOK Armed PendingOnce
PROPERTY TimerFires
