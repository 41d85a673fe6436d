SPECIFICATION Spec
CONSTANTS
  a1 = a1
  a2 = a2
  n1 = n1
  c1 = c1
  c2 = c2
  Attempts = {a1}
  Names = {n1}
  Clusters = {c1}
  NameOf <- OneName
  ClusterOf <- OneCluster
  Cached = {a1}
  Conditions <- OneCondition
  Timely = FALSE
  Absent = Absent
  NoRun = NoRun
CHECK_DEADLOCK FALSE
INVARIANT FailedMeansNoRun
