----------------------------- MODULE RunLedger -----------------------------
(***************************************************************************)
(* What the creation of hub runs promises: a ledger with one entry a name. *)
(*                                                                         *)
(* An entry is opened for a cluster before anything is started, and a run  *)
(* starts at most once, for that cluster, while its entry is open.  The    *)
(* entry is closed as created only after the run has started, and as       *)
(* failed only while there is no run, after which none starts.  What the   *)
(* run reports replaces the outcome.  Nothing is promised about a name     *)
(* whose entry was purged.  RunCreation implements this with two objects,  *)
(* two processes and retries.                                              *)
(***************************************************************************)
CONSTANTS Names, Clusters, None, Over

VARIABLES
  entry,  \* name -> the state of its entry
  owner,  \* name -> the cluster the entry was opened for, or None
  run     \* name -> the cluster of the run, None before it and Over after it

vars == <<entry, owner, run>>

States == {"none", "open", "created", "failed", "reported", "purged"}

Init ==
  /\ entry = [n \in Names |-> "none"]
  /\ owner = [n \in Names |-> None]
  /\ run = [n \in Names |-> None]

Write(n, state) == entry' = [entry EXCEPT ![n] = state]

Open(n, c) ==
  /\ entry[n] = "none"
  /\ Write(n, "open")
  /\ owner' = [owner EXCEPT ![n] = c]
  /\ UNCHANGED run

Start(n) ==
  /\ entry[n] = "open" /\ run[n] = None
  /\ run' = [run EXCEPT ![n] = owner[n]]
  /\ UNCHANGED <<entry, owner>>

Expire(n) ==
  /\ run[n] \in Clusters
  /\ run' = [run EXCEPT ![n] = Over]
  /\ UNCHANGED <<entry, owner>>

Confirm(n) ==
  /\ entry[n] = "open" /\ run[n] # None
  /\ Write(n, "created")
  /\ UNCHANGED <<owner, run>>

Fail(n) ==
  /\ entry[n] = "open" /\ run[n] \notin Clusters
  /\ Write(n, "failed")
  /\ UNCHANGED <<owner, run>>

Report(n) ==
  /\ entry[n] \in {"open", "created", "failed"} /\ run[n] # None
  /\ Write(n, "reported")
  /\ UNCHANGED <<owner, run>>

Purge(n) ==
  /\ entry[n] # "purged"
  /\ Write(n, "purged")
  /\ owner' = [owner EXCEPT ![n] = None]
  /\ run' = [run EXCEPT ![n] = None]

Next ==
  \E n \in Names :
    \/ \E c \in Clusters : Open(n, c)
    \/ Start(n) \/ Expire(n) \/ Confirm(n) \/ Fail(n) \/ Report(n) \/ Purge(n)

Spec == Init /\ [][Next]_vars
=============================================================================
