------------------------ MODULE MCAlertmanagerConfig ------------------------
(* Small instances of AlertmanagerConfig.                                  *)
EXTENDS AlertmanagerConfig

TwoAlerts == {"telco", "other"}
TwoOthers == {"null", "pager"}
=============================================================================
