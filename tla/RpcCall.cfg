CONSTANTS
  NoOwner = NoOwner
  provider = provider
  consumer = consumer
  Caller = {provider, consumer}
  g_msg_id_length = 20
  Requests <- MCRequests
  UserIds <- MCUserIds
  RandomIds <- MCRandomIds
  EarlierIds <- MCEarlierIds
  INT_MAX = 6
  MaxSockets = 2
  Closing <- MCClosing
SPECIFICATION Spec
INVARIANTS TypeOK CallHasOneOutcome LookupIsCurrent ReplyFindsCall OrderIsItsOwn
CHECK_DEADLOCK FALSE
