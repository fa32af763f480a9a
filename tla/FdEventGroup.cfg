CONSTANTS
  Thread = {t1, t2, t3}
  Fd = {0, 2, 4}
  InitialSize = 2
  NoOwner = NoOwner
  NoEvent = NoEvent
  OutOfBounds = OutOfBounds
SPECIFICATION Spec
INVARIANTS TypeOK Exclusive EventOfItsFd
