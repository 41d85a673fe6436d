--------------------------- MODULE MCRunCreation ---------------------------
(* Small instances of RunCreation.                                         *)
EXTENDS RunCreation, TLC

CONSTANTS a1, a2, n1, c1, c2

(* Two alerts handled in one nanosecond get one run name for two clusters. *)
CollidingNames == [a \in {a1, a2} |-> n1]
TwoClusters == (a1 :> c1) @@ (a2 :> c2)

(* One attempt. *)
OneName == [a \in {a1} |-> n1]
OneCluster == [a \in {a1} |-> c1]

Analyzed == [type |-> "Analyzed", phase |-> "Succeeded"]
Executed == [type |-> "Executed", phase |-> "Failed"]

OneCondition == {Analyzed}
TwoConditions == {Analyzed, Executed}
=============================================================================
