SPECIFICATION FairSpec
CONSTANTS
  Alerts <- OneAlert
  Checks <- OneCheck
  UserAlerts <- OneUserAlert
  Clusters <- OneCluster
  Specs <- AlertSpecs
  BareObjects <- BareRules
  Broken = {}
  Absent = Absent
  Bare = Bare
  MaxChanges = 1
  MaxFaults = 0
PROPERTY FailuresNotFatal
