SPECIFICATION FairSpec
CONSTANTS
  k1 = k1
  Clusters = {k1}
  Specs <- Schedules
  Unset = Unset
  DefaultMin = 1
  DefaultMax = 2
  PendingRequeue = 1
  MaxTime = 3
  MaxChanges = 1
  MaxFaults = 1
CHECK_DEADLOCK FALSE
INVARIANT TypeOK
INVARIANT WakesInTime
INVARIANT NoRunWithoutClaim
PROPERTY ClaimedOncePerInterval
PROPERTY DueIsClaimed
