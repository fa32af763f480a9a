CONSTANTS
  Owner = {o1, o2, o3}
  PoolSize = 3
  FirstIndex = 0
  MaxId = 7
  NoCor = NoCor
SPECIFICATION PoolSpec
INVARIANTS PoolTypeOK ExclusiveUntilGrown
PROPERTY GivenIdle
CHECK_DEADLOCK FALSE
