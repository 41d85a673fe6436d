---------------------------- MODULE MCRunAlerts ----------------------------
(* Small instances of RunAlerts.                                           *)
EXTENDS RunAlerts

Seen(t, a) == [type |-> t, action |-> a]

AnalyzedTrue == Seen("Analyzed", "True")
Later == Seen("Executed", "True")
Missing == Seen("Analyzed", "missing")

(* Action required and not, and a later step of the run. *)
Readable == {AnalyzedTrue, Seen("Analyzed", "False"), Later}

(* Also a result without an action, a missing result and an expired run. *)
Mixed == {AnalyzedTrue, Later, Seen("Analyzed", ""), Missing, Seen("gone", "")}

=============================================================================
