SPECIFICATION Spec
CONSTANTS
  Ours = "telco-anomaly-webhook"
  Others <- TwoOthers
  Default = "null"
  NoReceiver = NoReceiver
  NoRoute = NoRoute
  Alerts <- TwoAlerts
  MaxRoutes = 2
  MaxReceivers = 3
INVARIANT TypeOK
INVARIANT ConfigurationValid
PROPERTY OthersPreserved
PROPERTY RoutingKept
