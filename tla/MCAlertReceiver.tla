-------------------------- MODULE MCAlertReceiver ---------------------------
(* Small instances of AlertReceiver.                                       *)
EXTENDS AlertReceiver

(* A good alert, one whose rule quotes its name, one whose name makes no    *)
(* object name, and one whose configuration never loads.                    *)
FourAlerts == {"drops", "cpu", "my_alert", "bad"}
TwoClusters == {"k1", "k2"}
Where == [a \in Alerts |-> IF a = "cpu" THEN "k2" ELSE "k1"]
Configured == [a \in Alerts |-> IF a = "bad" THEN "broken" ELSE "ok"]
OneQuoted == {"cpu"}
OneUnnameable == {"my_alert"}
=============================================================================
