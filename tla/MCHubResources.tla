--------------------------- MODULE MCHubResources ---------------------------
(* Small instances of HubResources.                                        *)
EXTENDS HubResources

TheSpec(alerts, user, checks, purge, include, exclude) ==
  [alerts |-> alerts, user |-> user, checks |-> checks, purge |-> purge, include |-> include, exclude |-> exclude]

TwoAlerts == <<"host", "pod">>
OneAlert == <<"host">>
OneCheck == <<RDS>>
OneUserAlert == {"mine"}
OneCluster == {"k1"}
None == {}
BareRules == {"rules"}
OneBare == {"receiver"}

Everything == TheSpec(AlertSet, TRUE, {RDS}, "valid", Clusters, {})
Little == TheSpec({}, FALSE, {}, "none", {}, Clusters)
Refused == TheSpec(AlertSet, FALSE, {}, "invalid", {}, {})
Alerting == TheSpec(AlertSet, TRUE, {}, "none", {}, {})

AllSpecs == {Everything, Little, Refused}
ValidSpecs == {Everything, Little}
AlertSpecs == {Alerting, Little}
=============================================================================
