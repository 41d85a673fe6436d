SPECIFICATION FairSpec
CONSTANTS
  Alerts <- OneAlert
  Checks <- OneCheck
  UserAlerts <- OneUserAlert
  Clusters <- OneCluster
  Specs <- ValidSpecs
  BareObjects <- OneBare
  Broken = {"metrics"}
  Absent = Absent
  Bare = Bare
  MaxChanges = 2
  MaxFaults = 0
PROPERTY Converges
PROPERTY StatusTracksClusters
PROPERTY PeriodicChecksReached
PROPERTY DeletedInTheEnd
