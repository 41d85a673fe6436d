SPECIFICATION FairSpec
CONSTANTS
  Alerts <- FourAlerts
  ClusterOf <- Where
  Config <- Configured
  Quoted <- OneQuoted
  Unnameable <- OneUnnameable
  MaxPayload = 2
  Clusters <- TwoClusters
  MaxChanges = 4
  MaxFaults = 1
CHECK_DEADLOCK FALSE
INVARIANT TypeOK
INVARIANT AnswerCoversPayload
PROPERTY FiringIsTried
