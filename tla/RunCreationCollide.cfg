SPECIFICATION Spec
CONSTANTS
  a1 = a1
  a2 = a2
  n1 = n1
  c1 = c1
  c2 = c2
  Attempts = {a1, a2}
  Names = {n1}
  Clusters = {c1, c2}
  NameOf <- CollidingNames
  ClusterOf <- TwoClusters
  Cached = {}
  Conditions <- OneCondition
  Timely = TRUE
  Absent = Absent
  NoRun = NoRun
CHECK_DEADLOCK FALSE
INVARIANT TypeOK
INVARIANT RunHasRecord
INVARIANT FailedMeansNoRun
PROPERTY NoSecondRun
PROPERTY ImplementsLedger
