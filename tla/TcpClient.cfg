CONSTANT MaxCalls = 3
SPECIFICATION FairSpec
INVARIANTS TypeOK WaitHasDeadline WaitListens TimeoutHasCause
PROPERTY CallReturns
CHECK_DEADLOCK FALSE
