SPECIFICATION Spec
CONSTANTS
  Alerts <- TwoAlerts
  Checks <- OneCheck
  UserAlerts <- None
  Clusters <- OneCluster
  Specs <- AllSpecs
  BareObjects <- None
  Broken = {}
  Absent = Absent
  Bare = Bare
  MaxChanges = 2
  MaxFaults = 1
INVARIANT TypeOK
INVARIANT RestIsComplete
INVARIANT LeftoversExplained
