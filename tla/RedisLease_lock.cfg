SPECIFICATION FairSpec
CONSTANTS
  Processes = {p1, p2, p3}
  TTL = 5
  Interval = 2
  Delay = 1
  MaxErrors = 2
  MaxCrashes = 2
INVARIANT TypeOK
INVARIANT RenewedMeansOwner
INVARIANT ExclusiveWhileRedisAnswers
PROPERTY LockSpec
PROPERTY OrphanExpires
CHECK_DEADLOCK FALSE
