CONSTANTS
  Thread = {t1}
  Loop = loop
  NoOwner = NoOwner
  NoFile = NoFile
  m_type = 1
  m_set_level = 1
  m_max_file_size = 0
  Earlier <- MCEarlier
  Logged = {"app"}
  Stoppable = {"app"}
  MaxLogs = 3
  MaxDate = 1
SPECIFICATION FairSpec
INVARIANTS TypeOK NothingLost
PROPERTIES OverlongOnce MessageWritten
CHECK_DEADLOCK FALSE
