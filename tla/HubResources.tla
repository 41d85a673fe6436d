---------------------------- MODULE HubResources ----------------------------
(***************************************************************************)
(* The singleton TelcoHealthcheck and the hub objects that follow it.      *)
(*                                                                         *)
(* Reconcile (telcohealthcheck_controller.go) reads the singleton and most *)
(* objects from informer caches and writes to the API server, one object   *)
(* after the other: the system alert and periodic ConfigMaps, the          *)
(* kube-compare-mcp manifests, the purge CronJob, the Thanos rules, the    *)
(* metrics allowlist, the webhook receiver in the Alertmanager Secret and  *)
(* its own status.  Errors up to the CronJob end the pass and requeue it,  *)
(* errors of the next three are only logged.  On deletion cleanupResources *)
(* visits them all and the finalizer is removed whatever errors it met.    *)
(*                                                                         *)
(* A helper reads one object and writes it: one step, refused when the     *)
(* copy it read is not the stored one.  The content of an alert ConfigMap  *)
(* is the set of alerts it defines; rules and metrics hold those sets.     *)
(***************************************************************************)
EXTENDS Naturals, Sequences, Functions

CONSTANTS
  Alerts,        \* systemAlertAssets, in order
  Checks,        \* systemPeriodicAssets, in order
  UserAlerts,    \* names of user alert ConfigMaps
  Clusters,      \* names of ManagedClusters
  Specs,         \* the specs the singleton may have
  BareObjects,   \* objects that may exist without data before the operator
  Broken,        \* objects whose every call fails
  Absent,        \* no such object
  Bare,          \* an object without data
  MaxChanges,    \* bound on changes from outside
  MaxFaults      \* bound on failed calls and crashes

AlertSet == Range(Alerts)
CheckSet == Range(Checks)
Compare == {"registry", "rbac", "mcp"}  \* the kube-compare-mcp objects
Soft == {"rules", "metrics", "receiver"}
Managed == AlertSet \cup CheckSet \cup Compare \cup Soft \cup {"purge"}
Objects == Managed \cup UserAlerts \cup Clusters \cup {"thc"}
Steps == {"clusters", "removed", "status", "addFinalizer", "finalizer"}  \* of a pass, that write no managed object
Shared == {"rules", "receiver"}  \* the rules ConfigMap and the Alertmanager Secret, written by others as well

(* Objects of different kinds are different objects, and none is a step. *)
ASSUME NamesAssumption ==
  /\ Alerts \in Seq(AlertSet) /\ Checks \in Seq(CheckSet)
  /\ LET Others == Compare \cup Soft \cup {"purge", "thc"} \cup Steps IN
     /\ (AlertSet \cup CheckSet) \cap (UserAlerts \cup Clusters \cup Others) = {} /\ AlertSet \cap CheckSet = {}
     /\ (UserAlerts \cup Clusters) \cap Others = {} /\ UserAlerts \cap Clusters = {}
ASSUME SpecsAssumption ==
  \A s \in Specs : s.alerts \subseteq AlertSet /\ s.checks \subseteq CheckSet /\ s.user \in BOOLEAN
                   /\ s.purge \in {"none", "valid", "invalid"} /\ s.include \cup s.exclude \subseteq Clusters
                   /\ (s.include = {} \/ s.exclude = {})
ASSUME BoundsAssumption == {MaxChanges, MaxFaults} \subseteq Nat /\ Broken \subseteq Managed
ASSUME BareAssumption == BareObjects \subseteq Shared /\ Absent # Bare

(* What an object holds, where its kind is there. *)
Contents(o) ==
  CASE o = "purge"  -> {{n} : n \in 1 .. MaxChanges}
    [] o \in Shared -> {Bare} \cup SUBSET (AlertSet \cup UserAlerts)
    [] OTHER        -> SUBSET (AlertSet \cup UserAlerts)
Singleton == [uid : 1 .. MaxChanges, finalizer : BOOLEAN, deleting : BOOLEAN, spec : Specs, status : SUBSET Clusters]

ASSUME AbsentAssumption ==
  /\ \A thc \in Singleton : thc # Absent
  /\ \A o \in Objects : \A c \in Contents(o) : c # Absent /\ (o \notin Shared => c # Bare)

VARIABLES
  store,    \* the hub's objects
  cache,    \* the informers' copies
  lag,      \* objects whose copy is not the stored one
  queued,   \* the singleton is in the work queue
  todo,     \* the steps Reconcile has left; none: it does not run
  mine,     \* the copy of the singleton it works on
  fresh,    \* nobody else has written the singleton since that copy
  failed,   \* a step that does not end the pass has failed
  missed,   \* objects that the cleanups since the last reconcile tried, and failed, to delete
  skipped,  \* objects those cleanups did not try, because another one failed
  changes, faults

vars == <<store, cache, lag, queued, todo, mine, fresh, failed, missed, skipped, changes, faults>>

Init ==
  /\ \E bare \in SUBSET BareObjects : store = [o \in Objects |-> IF o \in bare THEN Bare ELSE Absent]
  /\ cache = store
  /\ lag = {}
  /\ queued = FALSE /\ todo = <<>> /\ mine = Absent /\ fresh = FALSE /\ failed = FALSE
  /\ missed = {} /\ skipped = {}
  /\ changes = 0 /\ faults = 0

-----------------------------------------------------------------------------
(* What the spec asks for *)

RDS == "rds-compliance"

(* getMonitoredClusters. *)
Monitored(spec, view) ==
  {k \in Clusters : view[k] # Absent /\ IF spec.include # {} THEN k \in spec.include ELSE k \notin spec.exclude}

(* listAllAlertConfigs: an invalid ConfigMap defines no alert. *)
Listed(spec, view) ==
  UNION {view[a] : a \in {b \in AlertSet \cup (IF spec.user THEN UserAlerts ELSE {}) : view[b] # Absent}}

(* Wrong on purpose: the CronJob gets no owner reference. *)
PurgeOwnersMissing(thc) == {}

(* The owner reference of the purge CronJob. *)
PurgeOwners(thc) == {thc.uid}

(* What each object should hold for a singleton: an alert ConfigMap defines *)
(* its alert, the CronJob names its owner.                                  *)
AlertWanted(o, thc) == IF o \in thc.spec.alerts THEN {o} ELSE Absent
CheckWanted(o, thc) == IF o \in thc.spec.checks THEN {} ELSE Absent
CompareWanted(thc) == IF RDS \in thc.spec.checks THEN {} ELSE Absent
PurgeWanted(thc) == IF thc.spec.purge = "none" THEN Absent ELSE PurgeOwners(thc)
RulesWanted(thc, view) == Listed(thc.spec, view)
MetricsWanted(thc, view) == Listed(thc.spec, view)
ReceiverWanted == {}

Wanted(o, thc, view) ==
  CASE o \in AlertSet -> AlertWanted(o, thc)
    [] o \in CheckSet -> CheckWanted(o, thc)
    [] o \in Compare  -> CompareWanted(thc)
    [] o = "purge"    -> PurgeWanted(thc)
    [] o = "rules"    -> RulesWanted(thc, view)
    [] o = "metrics"  -> MetricsWanted(thc, view)
    [] o = "receiver" -> ReceiverWanted

(* The steps of a pass; removeKubeCompareMCP attempts its parts and returns *)
(* the first error at its end.                                              *)
ComparePlan(spec) ==
  IF RDS \in spec.checks THEN <<"registry", "rbac", "mcp">> ELSE <<"registry", "mcp", "rbac", "removed">>

ReconcilePlan(spec) ==
  <<"clusters">> \o Alerts \o Checks \o ComparePlan(spec)
    \o <<"purge", "rules", "metrics", "receiver", "status">>

CleanupPlan ==
  <<"receiver", "rules", "registry", "mcp", "rbac", "metrics">> \o Alerts \o Checks \o <<"purge", "finalizer">>

-----------------------------------------------------------------------------
(* One call *)

(* Whether a call succeeds, and the content of the object after it. *)
Result(ok, o, want) == [ok |-> ok, content |-> IF ok THEN want ELSE store[o]]

(* Server-side apply, and Delete by name, need no copy of the object. *)
Direct(o, want) == o \in {"rbac", "mcp"} \/ (o = "registry" /\ want = Absent)

(* Create when the copy is absent, refused when the object exists; Update   *)
(* otherwise, refused when the copy is old.                                 *)
Upsert(o, want) == Result(IF cache[o] = Absent THEN store[o] = Absent ELSE o \notin lag, o, want)

(* An object whose copy is absent is not deleted. *)
Remove(o) == [ok |-> TRUE, content |-> IF cache[o] = Absent THEN store[o] ELSE Absent]

(* The receiver is a part of a Secret that is always updated, unless the    *)
(* edit panics.                                                             *)
EditSecret(o, want) == Result(o \notin lag, o, want)

(* Wrong on purpose: an object that exists is left as it is. *)
CallCreatesOnly(o, want) ==
  [ok |-> TRUE, content |-> IF want = Absent \/ cache[o] = Absent THEN want ELSE store[o]]

Call(o, want) ==
  CASE Direct(o, want)  -> Result(TRUE, o, want)
    [] o = "receiver"   -> EditSecret(o, want)
    [] OTHER            -> IF want = Absent THEN Remove(o) ELSE Upsert(o, want)

(* A write that changes nothing makes no event; the manifests are not read. *)
Put(o, content) ==
  /\ store' = [store EXCEPT ![o] = content]
  /\ lag' = IF content = store[o] THEN lag ELSE lag \cup ({o} \ {"rbac", "mcp"})

-----------------------------------------------------------------------------
(* Reconcile *)

outside == <<changes, faults>>

Return == todo' = <<>> /\ mine' = Absent /\ fresh' = FALSE /\ failed' = FALSE

ReturnError == Return /\ queued' = TRUE

Proceed == todo' = Tail(todo) /\ UNCHANGED <<queued, mine, fresh, failed>>

(* The cached singleton decides: gone, to be cleaned up, without finalizer, *)
(* or to be reconciled.                                                     *)
Start ==
  LET thc == cache["thc"] IN
  /\ todo = <<>> /\ queued
  /\ queued' = FALSE
  /\ IF thc = Absent
     THEN UNCHANGED <<todo, mine, fresh, failed>>
     ELSE /\ mine' = thc
          /\ fresh' = ("thc" \notin lag)
          /\ failed' = FALSE
          /\ todo' = IF thc.deleting THEN CleanupPlan
                     ELSE IF thc.finalizer THEN ReconcilePlan(thc.spec) ELSE <<"addFinalizer">>
  /\ IF todo' # <<>> /\ Head(todo') = "clusters"
     THEN missed' = {} /\ skipped' = {}
     ELSE UNCHANGED <<missed, skipped>>
  /\ UNCHANGED <<store, cache, lag>> /\ UNCHANGED outside

(* getMonitoredClusters; recoverPendingRuns is modelled in RunCreation. *)
ResolveClusters ==
  /\ todo # <<>> /\ Head(todo) = "clusters"
  /\ mine' = [mine EXCEPT !.status = Monitored(mine.spec, cache)]
  /\ todo' = Tail(todo)
  /\ UNCHANGED <<store, cache, lag, queued, fresh, failed, missed, skipped>> /\ UNCHANGED outside

(* Wrong on purpose: a failure of the rules is returned as well. *)
StepFailsAlwaysFatal(o) == ReturnError

(* An error of a step: logged, kept for the end of removeKubeCompareMCP, or *)
(* returned.                                                                *)
StepFails(o) ==
  \/ /\ o \in Soft
     /\ Proceed
  \/ /\ o \in Compare /\ RDS \notin mine.spec.checks
     /\ todo' = Tail(todo) /\ failed' = TRUE
     /\ UNCHANGED <<queued, mine, fresh>>
  \/ /\ o \notin Soft /\ ~(o \in Compare /\ RDS \notin mine.spec.checks)
     /\ ReturnError

(* Writing into the missing data map of the rules ConfigMap or of the       *)
(* Alertmanager Secret panics, in a cleanup the latter; the controller      *)
(* runtime turns the panic into an error of the whole pass.                 *)
Panics(o) == o \notin Broken /\ cache[o] = Bare /\ (mine.deleting => o = "receiver")

(* One managed object of a pass. *)
ReconcileObject ==
  /\ todo # <<>> /\ Head(todo) \in Managed /\ ~mine.deleting
  /\ LET o == Head(todo)
         call == Call(o, Wanted(o, mine, cache))
     IN  IF Panics(o) THEN ReturnError /\ UNCHANGED <<store, lag>>
         ELSE IF o \in Broken \/ (o = "purge" /\ mine.spec.purge = "invalid")
         THEN StepFails(o) /\ UNCHANGED <<store, lag>>
         ELSE /\ Put(o, call.content)
              /\ IF call.ok THEN Proceed ELSE StepFails(o)
  /\ UNCHANGED <<cache, missed, skipped>> /\ UNCHANGED outside

(* The end of removeKubeCompareMCP. *)
CompareRemoved ==
  /\ todo # <<>> /\ Head(todo) = "removed"
  /\ IF failed THEN ReturnError ELSE Proceed
  /\ UNCHANGED <<store, cache, lag, missed, skipped>> /\ UNCHANGED outside

(* The status, the finalizer and its removal are written under the lock.    *)
(* Nothing is requeued: the write itself is an event.                       *)
WriteSingleton(step, content) ==
  /\ todo # <<>> /\ Head(todo) = step
  /\ IF fresh
     THEN Put("thc", content) /\ Return /\ UNCHANGED queued
     ELSE ReturnError /\ UNCHANGED <<store, lag>>
  /\ UNCHANGED <<cache, missed, skipped>> /\ UNCHANGED outside

(* Wrong on purpose: Update in place of Status().Update drops the status. *)
UpdateWithoutStatus == WriteSingleton("status", [mine EXCEPT !.status = store["thc"].status])

AddFinalizer == WriteSingleton("addFinalizer", [mine EXCEPT !.finalizer = TRUE])
UpdateStatus == WriteSingleton("status", mine)
RemoveFinalizer == WriteSingleton("finalizer", Absent)

-----------------------------------------------------------------------------
(* cleanupResources *)

(* The ConfigMaps of one kind are deleted in one loop that ends at an error. *)
LoopOf(o) == IF o \in AlertSet THEN AlertSet ELSE IF o \in CheckSet THEN CheckSet ELSE {o}

(* Wrong on purpose: the first failed step ends the cleanup. *)
CleanupFailsStops(o) ==
  /\ todo' = <<"finalizer">>
  /\ missed' = missed \cup {o}
  /\ UNCHANGED <<queued, mine, fresh, failed, skipped>>

(* Wrong on purpose: a failed cleanup is retried before the finalizer goes. *)
CleanupFailsRetried(o) ==
  /\ ReturnError
  /\ missed' = missed \cup {o} /\ UNCHANGED skipped

(* The error of one object is logged; the rest of its loop is not tried. *)
CleanupFails(o) ==
  /\ \E n \in 1 .. Len(todo) :
       /\ todo[n] \notin LoopOf(o) /\ \A i \in 1 .. n - 1 : todo[i] \in LoopOf(o)
       /\ todo' = SubSeq(todo, n, Len(todo))
  /\ missed' = missed \cup {o}
  /\ skipped' = (skipped \cup (LoopOf(o) \cap Range(todo))) \ {o}
  /\ UNCHANGED <<queued, mine, fresh, failed>>

CleanupObject ==
  /\ todo # <<>> /\ Head(todo) \in Managed /\ mine.deleting
  /\ LET o == Head(todo)
         call == Call(o, Absent)
     IN  \/ Panics(o) /\ ReturnError /\ UNCHANGED <<store, lag, missed, skipped>>
         \/ ~Panics(o) /\ (o \in Broken \/ ~call.ok) /\ CleanupFails(o) /\ UNCHANGED <<store, lag>>
         \/ /\ ~Panics(o) /\ o \notin Broken /\ call.ok
            /\ Put(o, call.content)
            /\ Proceed
            /\ missed' = IF call.content = Absent THEN missed \ {o} ELSE missed \cup {o}
            /\ skipped' = skipped \ {o}
  /\ UNCHANGED cache /\ UNCHANGED outside

-----------------------------------------------------------------------------
(* Faults *)

Fault == faults < MaxFaults /\ faults' = faults + 1 /\ UNCHANGED changes

(* A call fails, or takes effect on a managed object and its answer is lost. *)
CallFails ==
  /\ todo # <<>>
  /\ Fault
  /\ LET o == Head(todo) IN
     IF o \notin Managed
     THEN ReturnError /\ UNCHANGED <<store, lag, missed, skipped>>
     ELSE /\ IF mine.deleting THEN CleanupFails(o) ELSE StepFails(o) /\ UNCHANGED <<missed, skipped>>
          /\ \/ UNCHANGED <<store, lag>>
             \/ /\ ~Panics(o) /\ (o = "purge" => mine.spec.purge # "invalid")
                /\ Put(o, Call(o, IF mine.deleting THEN Absent ELSE Wanted(o, mine, cache)).content)
  /\ UNCHANGED cache

(* The controller stops; at its start the informers read, and queue, all. *)
Restart ==
  /\ Fault
  /\ Return
  /\ cache' = store /\ lag' = {} /\ queued' = TRUE
  /\ UNCHANGED <<store, missed, skipped>>

-----------------------------------------------------------------------------
(* The informers, one per kind, and the events that queue the singleton *)

Kinds == {AlertSet \cup CheckSet \cup UserAlerts \cup {"rules", "metrics"}, {"registry", "receiver"},
          {"purge"}, Clusters, {"thc"}}

(* Wrong on purpose: the ManagedClusters are not watched. *)
WatchedWithoutClusters == UserAlerts \cup {"thc"}

(* SetupWithManager: system alert ConfigMaps fail the predicate. *)
Watched == UserAlerts \cup Clusters \cup {"thc"}

WatchEvents(kind) ==
  /\ kind \cap lag # {}
  /\ cache' = [o \in Objects |-> IF o \in kind THEN store[o] ELSE cache[o]]
  /\ lag' = lag \ kind
  /\ queued' = (queued \/ kind \cap lag \cap Watched # {})
  /\ UNCHANGED <<store, todo, mine, fresh, failed, missed, skipped>> /\ UNCHANGED outside

(* The requeue after the period, and the informers' resync. *)
Requeue ==
  /\ todo = <<>> /\ ~queued
  /\ queued' = TRUE
  /\ UNCHANGED <<store, cache, lag, todo, mine, fresh, failed, missed, skipped>> /\ UNCHANGED outside

(* The purge CronJob is owned by the singleton. *)
GarbageCollect ==
  /\ store["purge"] # Absent
  /\ IF store["thc"] = Absent THEN TRUE ELSE store["thc"].uid \notin store["purge"]
  /\ Put("purge", Absent)
  /\ UNCHANGED <<cache, queued, todo, mine, fresh, failed, missed, skipped>> /\ UNCHANGED outside

-----------------------------------------------------------------------------
(* Users *)

Change(o, content) ==
  /\ changes < MaxChanges /\ changes' = changes + 1
  /\ Put(o, content)
  /\ fresh' = (fresh /\ o # "thc")
  /\ UNCHANGED <<cache, queued, todo, mine, failed, missed, skipped, faults>>

CreateSingleton ==
  /\ store["thc"] = Absent
  /\ \E s \in Specs :
       Change("thc", [uid |-> changes + 1, finalizer |-> FALSE, deleting |-> FALSE, spec |-> s, status |-> {}])

EditSpec ==
  /\ store["thc"] # Absent
  /\ \E s \in Specs \ {store["thc"].spec} : Change("thc", [store["thc"] EXCEPT !.spec = s])

DeleteSingleton ==
  /\ store["thc"] # Absent /\ ~store["thc"].deleting
  /\ Change("thc", IF store["thc"].finalizer THEN [store["thc"] EXCEPT !.deleting = TRUE] ELSE Absent)

(* parseAlertConfigMap: a user's ConfigMap defines its alert, or, without a *)
(* name or a rule or with invalid metrics, none.                            *)
UserContents(u) == {Absent, {}, {u}}

UserAlertChanges == \E u \in UserAlerts : \E content \in UserContents(u) \ {store[u]} : Change(u, content)

ClusterChanges == \E k \in Clusters : Change(k, IF store[k] = Absent THEN {} ELSE Absent)

(* Somebody edits another part of the Alertmanager Secret, not its data if  *)
(* it has none.                                                             *)
SecretEdited ==
  /\ changes < MaxChanges /\ changes' = changes + 1
  /\ lag' = lag \cup {"receiver"}
  /\ UNCHANGED <<store, cache, queued, todo, mine, fresh, failed, missed, skipped, faults>>

ReconcileStep ==
  \/ Start \/ ResolveClusters \/ ReconcileObject \/ CompareRemoved
  \/ AddFinalizer \/ UpdateStatus \/ RemoveFinalizer \/ CleanupObject

Next ==
  \/ ReconcileStep
  \/ CallFails \/ Restart
  \/ \E kind \in Kinds : WatchEvents(kind)
  \/ Requeue \/ GarbageCollect
  \/ CreateSingleton \/ EditSpec \/ DeleteSingleton
  \/ UserAlertChanges \/ ClusterChanges \/ SecretEdited

Spec == Init /\ [][Next]_vars

(* The worker runs, every watch delivers, the requeue or the resync comes. *)
Fairness ==
  /\ WF_vars(ReconcileStep) /\ WF_vars(Requeue) /\ WF_vars(GarbageCollect)
  /\ \A kind \in Kinds : WF_vars(WatchEvents(kind))

FairSpec == Spec /\ Fairness

-----------------------------------------------------------------------------
(* Properties *)

(* The singleton as stored, under control of the operator. *)
Live == IF store["thc"] = Absent THEN FALSE ELSE store["thc"].finalizer /\ ~store["thc"].deleting

AtRest == todo = <<>> /\ ~queued /\ lag = {}

(* The variables keep their shapes; a step is known; the copies that lag    *)
(* are the only ones that may differ from the store.                        *)
TypeOK ==
  /\ \A view \in {store, cache} :
       /\ DOMAIN view = Objects
       /\ \A o \in Objects \ {"thc"} : view[o] \in {Absent} \cup Contents(o)
       /\ view["thc"] \in Singleton \cup {Absent}
  /\ lag \subseteq Objects
  /\ \A o \in Objects \ lag : cache[o] = store[o] \/ o \in {"rbac", "mcp"}
  /\ queued \in BOOLEAN /\ fresh \in BOOLEAN /\ failed \in BOOLEAN
  /\ mine \in Singleton \cup {Absent} /\ (mine = Absent <=> todo = <<>>)
  /\ missed \subseteq Managed /\ skipped \subseteq AlertSet \cup CheckSet
  /\ changes \in 0 .. MaxChanges /\ faults \in 0 .. MaxFaults

(* When the controller rests, with no call pending, no event under way and  *)
(* nothing queued, the errors of earlier passes were made good: what the    *)
(* spec enables exists, kube-compare-mcp exists exactly when it is needed,  *)
(* and the status names the clusters that are monitored now.                *)
RestIsComplete ==
  AtRest /\ Live =>
    LET thc == store["thc"] IN
    /\ \A o \in AlertSet \cup CheckSet \cup {"purge"} :
         Wanted(o, thc, store) # Absent => store[o] = Wanted(o, thc, store)
    /\ \A o \in Compare : store[o] = Wanted(o, thc, store)
    /\ thc.status = Monitored(thc.spec, store)

(* A panicking pass is an error of its own: it ends the pass, the cleanup   *)
(* of a deleted singleton included.                                         *)
SecretBare == store["receiver"] = Bare
NoData == SecretBare \/ store["rules"] = Bare

(* cleanupResources attempts each step even if an earlier one fails: an     *)
(* object of the operator's that outlives the singleton is one whose own    *)
(* deletion a cleanup tried in vain (it failed, or the cache did not show   *)
(* the object yet).  The exception are the system alert and the periodic    *)
(* ConfigMaps: each kind is one step, a loop that ends at the first error,  *)
(* and those after the failed one are never tried.  (The CronJob is garbage *)
(* collected.)                                                              *)
LeftoversExplained ==
  store["thc"] = Absent => {o \in Managed \ {"purge"} : store[o] \notin {Absent, Bare}} \subseteq missed \cup skipped

(* Once users and faults are quiet, everything that can be written is what  *)
(* the spec asks for, whatever stale copies the passes worked on.  (Unless  *)
(* an object without data makes every pass panic.)                          *)
Converges ==
  <>[](Live => NoData \/ \A o \in Managed \ Broken : store[o] = Wanted(o, store["thc"], store))

(* The status follows the managed clusters.  (Unless every pass panics.) *)
StatusTracksClusters ==
  <>[](Live => NoData \/ store["thc"].status = Monitored(store["thc"].spec, store))

Reaching == ~Live \/ (todo # <<>> /\ Head(todo) = "status")

(* A failure of the rules, the metrics or the receiver is not fatal, as the *)
(* architecture document says: passes keep reaching the periodic checks and *)
(* the status.  An object without data refutes it.                          *)
FailuresNotFatal == []<>Reaching

(* A failure of the rules, the metrics or the receiver that is an error and *)
(* no panic is not fatal: passes keep reaching the periodic checks and the  *)
(* status.                                                                  *)
PeriodicChecksReached == []<>(NoData \/ Reaching)

(* Cleanup errors do not block the removal of the finalizer: the singleton  *)
(* does not stay in deletion for ever.  The exception is a panic: while the *)
(* Alertmanager Secret has no data, no cleanup gets past its first step.    *)
DeletedInTheEnd ==
  LET Deleting == IF store["thc"] = Absent THEN FALSE ELSE store["thc"].deleting
  IN  Deleting ~> (~Deleting \/ SecretBare)
=============================================================================
