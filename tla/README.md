# A TLA+ model of the telco anomaly detection operator

The operator runs on an ACM hub. It watches a fleet of telco clusters and starts
*AgenticRuns*, investigations by an agent, when an alert fires or a periodic check is
due. For every run it keeps a `TelcoHealthCheckRun` record, follows the run's outcome
in it, and raises an external alert while the outcome requires action. This directory
holds TLA+ specifications of those protocols, their TLC configurations, and proofs
checked by TLAPS. Paths are relative to the repository (`src/`).

## Inventory

| Part | State it keeps | Operations | Talks to |
|---|---|---|---|
| Run record protocol, `internal/healthcheckrun/record.go` | the record: identity, pending annotation, phase | `Begin`, `Confirm`, `Fail` | API server; used by both binaries |
| Periodic run creation, `internal/controller/agenticrun.go` | goroutines waiting for their delay | `createAgenticRunsForClustersWithConfig`, `createAgenticRunForCluster` | record protocol, hub API |
| Alert receiver, `internal/alertreceiver/` | none | `HandleWebhook`, `processAlerts`, `createAgenticRunOnCluster` | Alertmanager (in), record protocol, hub API |
| Recovery, `internal/controller/runrecovery.go` | none; works on a cached list | `recoverPendingRuns`, in every reconcile | records, hub runs |
| Status synchronization, `internal/controller/hubrunstatus.go` | condition, action and alert queue in the record's status | `syncHubRunStatus`, `queueActionAlert` | agentic operator's runs and results |
| Alert delivery, `internal/controller/runalerts.go` | the same status | `Reconcile`, `send` | external Alertmanager |
| Scheduling, `internal/controller/telcohealthcheck_controller.go` | last run times in the singleton's status, requeue timer | `Reconcile`, `runPeriodicChecks` | work queue, run creation |
| Managed resources, `internal/controller/{alertrules,useralerts,systemalerts,alertmanager,observabilitymetrics,periodicchecks,kubecomparemcp,purge}.go` | ConfigMaps, Secret, CronJob, manifests | one reconcile and one cleanup function each | objects other parties edit, too |
| Cluster selection, run configuration, metrics, webhook | none | pure functions of objects read | |

What is hard in it:

* One record has four writers (the attempt that creates the run, recovery,
  synchronization, delivery), in two processes, and a fifth party deletes it. They are
  held together by the API server's optimistic lock only.
* The two effects of a creation, record and run, are not one transaction. The process
  can stop between any two calls, and a create that timed out can still take effect.
* The controller reads records and the singleton through a cache that lags behind.
* Deliveries fail, are repeated, or arrive late; a crash can fall between a POST and
  its acknowledgement.
* Claims of check intervals, requeue timers and delayed goroutines must survive
  restarts and stale reads without running a check twice or forgetting it.
* A reconcile writes a dozen objects one after the other. Some errors end it, some are
  only logged, and not every object it writes is watched, so what a pass has left undone
  must be found by another one.
* The Alertmanager's configuration and the rules ConfigMap belong to others as well, and
  the Alertmanager repeats its notifications as it sees fit.

What makes each part correct: a run has a record and its recorded outcome is true; a
pending record is settled in the end; no writer undoes another; no name gets a second
run. Transitions of the required action reach the Alertmanager in order, none is
skipped, a firing alert does not lapse, and in the end record and Alertmanager agree
with the run. An interval is claimed once, runs are created only for a claim, the
controller wakes in time, and a due check is claimed. The hub's objects follow the
singleton, and a deletion ends and leaves nothing that could be removed. Every alert
that keeps firing on a monitored cluster gets a run, and no failure of one keeps the
others from theirs.

## Modules

| Module | Models | Extended by |
|---|---|---|
| `RunCreation` | `record.go`, `runrecovery.go`, an attempt in `agenticrun.go` and `handler.go` from `Begin` on, and the type and phase that `syncHubRunStatus` writes | `MCRunCreation`, `RunCreationProofs` |
| `RunAlerts` | `runalerts.go` `Reconcile` and `send`, `hubrunstatus.go`, with `finishCreation` as a concurrent writer | `MCRunAlerts`, `RunAlertsProofs` |
| `PeriodicChecks` | `runPeriodicChecks` and its helpers, the claim, immediate and delayed creation, requeue and watches | `MCPeriodicChecks`, `PeriodicChecksProofs` |
| `RunLedger` | what `RunCreation` promises: one entry and at most one run a name | `RunCreation` (instance) |
| `RunEvents` | watches and map functions of `runalerts.go`, `latestCondition`, the resync | `MCRunEvents`, `RunEventsProofs` |
| `HubResources` | `Reconcile` up to the periodic checks, its status update, `handleDeletion`, and the reconcile and cleanup functions of every managed object | `MCHubResources`, `HubResourcesProofs` |
| `AlertmanagerConfig` | the edits of `alertmanager.go` and how the Alertmanager routes | `MCAlertmanagerConfig`, `AlertmanagerConfigProofs` |
| `AlertReceiver` | `handler.go` up to `Begin`, and the Alertmanager that calls it | `MCAlertReceiver`, `AlertReceiverProofs` |
| `RunCreationProofs` | proofs: types and the safety of `RunCreation` | `RunLedgerProofs` |
| `RunLedgerProofs` | proofs: `RunCreation` implements `RunLedger`; what records say of outcomes | |
| `RunAlertsProofs`, `PeriodicChecksProofs`, `RunEventsProofs`, `HubResourcesProofs`, `AlertmanagerConfigProofs`, `AlertReceiverProofs` | proofs about the module of that name | |

How they fit: an attempt of `RunCreation` is what `CreateForCluster` of `PeriodicChecks`
and `VisitAlert` of `AlertReceiver` start. `PeriodicChecks` is the last part of the pass
whose first part is `HubResources`, where the step `status` stands for the periodic
checks and the status update. `AlertReceiver` reads the status and the rules that
`HubResources` writes, as they may change at any time. `RunAlerts` lets a reconcile of a
record start at any time and assumes that one starts again while there is work;
`RunEvents` is where that comes from.

The `MC*` modules only name small instances. Operators whose comment begins with
*Wrong on purpose* are faulty variants of the definition that follows them. They are
not part of any specification; putting one in place of its definition must break a
property, which shows that the property depends on that code.

### RunCreation

`records[n]` is the stored record of run name `n`, `cache[n]` the controller's
informer copy, and `runs[n]` the hub run. An attempt `a` is one call of
`createAgenticRunForCluster` or `createAgenticRunOnCluster`; `creator[a]` is its program
counter, and `inflight` holds the attempts that are over while their create may still
take effect. `recovery[n]` is `recoverPendingRuns` at the record `n`, with the cached
copy its list returned.

| Action | Code |
|---|---|
| `BeginRecord`, `BeginIdentity` | the `Create` and the `Status().Update` of `Begin` |
| `CreateAccepted`, `CreateRejected`, `CreateAmbiguous` | the three outcomes of the hub create; `DefinitiveCreateError` separates the last two |
| `RequestLands`, `RequestLost` | the fate of an ambiguous create |
| `AttemptStatus`, `AttemptAnnotation` | the two loops of `finishCreation`, from `Confirm` or `Fail` |
| `RecoverList`, `RecoverDelete`, `RecoverCheck`, `RecoverStatus`, `RecoverAnnotation` | `recoverPendingRuns` |
| `SyncRead`, `SyncWrite` | `syncHubRunStatus`; the run is read once, the record in each retry |
| `AttemptStops`, `RecoverStops`, `SyncStops` | a failed call, exhausted retries, or the end of the process |
| `CacheSync`, `Age`, `RunReports`, `RunExpires`, `RecordRemoved` | informer, clock, agentic operator, purge |

An iteration of a `RetryOnConflict` loop is one step, which takes effect exactly when the
copy it read is still stored. An iteration that loses is a step without effect.
`OutcomeOpen` leaves out the summary `finishCreation` also looks at: a phase is empty
only before `Begin` has written the identity, and then there is no summary yet.

*The grace period.* `pendingRunGrace` is two minutes, and nothing in the code bounds an
attempt by it. `Timely = TRUE` states the assumption recovery relies on: when a record
reaches that age, the attempts for its name are past their create, no request is left,
and the cached copy in use shows the identity that is stored. `Timely = FALSE` drops
the assumption; the run `slow_creator` shows what then goes wrong.

*The ledger.* `RunLedger` is the promise without the machinery: an entry is opened for
a cluster, a run starts at most once and only for an open entry, `created` is written
only after it, `failed` only while there is none. `ImplementsLedger` maps the record and
the run of each name to it (`EntryOf`, `OwnerOf`, `RunOf`): a record without identity is
no entry yet, one with a condition type is `reported`, and a name whose record was purged
is promised nothing. Steps of caches, recovery and retries that change none of it stutter.

### RunAlerts

One record, one `Reconcile` at a time (controller-runtime never runs two for one key).
`pc` follows it from the read of the run (`SyncReadRun`), the result (`SyncReadResult`)
and the status patch (`SyncPatch`) to `Decide`, which reads record and singleton again
and picks the task: clear the queue, queue the initial notification, send the head of
the queue, renew, or nothing. `SendAccepted` and `SendFails` are `send`; a failed send
includes missing credentials, refusals, lost answers and POSTs that arrive later.
`Acknowledge` and `AcknowledgeRenewal` are the patches that follow.

Resource versions are represented by the set `fresh` of those whose copy is still
current. `version` numbers the states of the run, and `record.seen` the one the record
was last changed for; both are only there to state `ObservationsInOrder`. `am.tracked`
becomes false when the configuration was removed, or a late POST arrived: from then on
the operator has no record of what the Alertmanager holds.

### PeriodicChecks

`thc` is the stored singleton, `cache` the informer's copy, and `mine` the one Reconcile
works on. `VisitCheck`, `Claim`, `CreateForCluster` and `AllCreated` are the loop of
`runPeriodicChecks`; `started` is the `now` it takes at its beginning, which becomes
the last run time. `tasks` are the goroutines that wait for their delay. `queued` and
`wake` are the work queue and the requeue timer. What Reconcile does before the checks
is abstracted to a call that may fail (`CallFails`). A schedule also
says which checks have a configuration that loads.

### RunEvents

`events` holds the objects with an event that was not handled, `queued` and `timer` the
work queue. `ReadRun`, `ReadResult` and `PatchStatus` are `syncHubRunStatus`; `Deliver`
stands for all of `RunAlerts` after it, as one step with the record's `alert` as its
effect. `MappingFails` is a map function whose live read fails: it logs and returns no
request; `lost` remembers that until the next resync, to state `RestIsSynced`. After a
failed synchronization (`SyncFails`) the queue is delivered if it holds something; it is not
part of this module, so either may happen. `Resync` repeats the events of everything but the singleton, whose watch passes
changes of its generation only. `record.time` is the stamp of the condition that was
written, which the record itself does not keep. `LatestCondition` is the loop of
`latestCondition`, again a function over prefixes, and `IsLatest` the definition it is
measured by.

### HubResources

`store` is the hub, `cache` the informers' copies, `lag` the objects whose copy is old,
which is also when an update is refused. `mine` is the singleton the pass works on;
`todo` is the rest of its plan: `ReconcilePlan` and `CleanupPlan` list the steps in the
order of the code. Each helper reads one object and writes it in one step, in one of the
ways `Upsert`, `Remove`, `EditSecret` and `Direct` (apply, or delete by name). The content
of an alert ConfigMap is the set of alerts it defines, of the CronJob its owner; rules and
metrics hold what `Listed` found in the cache. The rules ConfigMap and the Alertmanager
Secret are `Shared` with others and may exist without data (`Bare`) before the operator
does anything (`BareObjects`); a write into the missing map `Panics`, which controller-runtime
turns into an error of the whole pass. `missed` holds the objects whose deletion the
cleanups since the last reconcile tried in vain, `skipped` those they did not try because
the loop of their kind had ended at another's error; both are only there to state
`LeftoversExplained`.

| Action | Code |
|---|---|
| `Start`, `AddFinalizer`, `ResolveClusters` | the beginning of `Reconcile` |
| `ReconcileObject`, `CompareRemoved` | one managed object; `StepFails` says which errors end the pass |
| `UpdateStatus` | the status update, or the claim of a check |
| `CleanupObject`, `RemoveFinalizer` | `cleanupResources`, `handleDeletion` |
| `CallFails`, `Restart` | a call that fails before or after it took effect, the end of the process |
| `WatchEvents`, `Requeue` | informers and `SetupWithManager`; the requeue, events of pending records, the resync |

### AlertmanagerConfig and AlertReceiver

`AlertmanagerConfig` has the two lists that `alertmanager.go` edits, with administrators
who edit them in between, and the receiver of the root route (`root`). A configuration may
be empty at first (`NoRoute`); the operator then adds a root route without a receiver
(`NoReceiver`). Administrators may lead the root, a child, or a route nested in a child
(`nested`) to the operator's receiver; it looks at the children only. `Taken` and `Accepted`
are the Alertmanager's reading of routes and configuration. The loops of `removeReceiver` and `removeRoute` are one operator, `Kept`: a
recursive function over the prefixes of the list, the way the code walks it.
`OthersPreserved` does not mention them. It asks for an order-preserving correspondence
(`SameEntries`) between the administrators' entries before and after.

In `AlertReceiver` one notification group is posted (`Post`) whenever it differs from the
last one that was answered 200 (`sent`) or is repeated. `ReadBody` has the handler's first
returns: a body above the limit (`MaxPayload` alerts stand for the megabyte) is cut off and
answered 400, one that cannot be read as well; the Alertmanager never calls with another
method. The alerts are then visited in any order. The name of a run is built from the
alert's, so for an alert in `Unnameable` the API server refuses record and run (`Starts`).

## Runs

| Run | Instance | Shows |
|---|---|---|
| `collide` | two alert attempts, one name, two clusters | `RunHasRecord`, `FailedMeansNoRun`, `NoSecondRun`, `ImplementsLedger`, types |
| `cached` | one attempt through the cache, two conditions, fair | `OutcomeBeforeAnnotation`, `TypeAndPhaseFromOneCondition`, `NothingUndone`, `PendingResolved`, `ImplementsLedger` |
| `slow_creator` | one attempt, `Timely = FALSE` | violation, see Findings |
| `delivery` | three environment changes, one fault per delivery, late POSTs, unreadable results, configuration changes, fair | `QueueIsHistory`, `AlertmanagerAgrees`, `ObservationsInOrder`, `NothingSkipped`, `EventuallyAgrees`, types |
| `renewal` | refresh 1, lifetime 5, three faults in a row | `NoLapse` |
| `schedule` | two checks, five schedules: different periods, delays by the default window with one check off, all off, an invalid window, a last check that does not load; fair | `WakesInTime`, `NoRunWithoutClaim`, `ClaimedOncePerInterval`, `DueIsClaimed`, types |
| `hub_safety` | two alerts, three specs (one invalid), one cluster, two changes, one fault | `RestIsComplete`, `LeftoversExplained`, types |
| `hub_converge` | metrics that always fail, a Secret with data or without, two changes, fair | `Converges`, `StatusTracksClusters`, `PeriodicChecksReached`, `DeletedInTheEnd` |
| `bare_rules` | a rules ConfigMap without data, no fault, fair | violation, see Findings |
| `am_edits` | two alerts, two other receivers, default or empty configuration, routes and receivers in any order, nested routes | `ConfigurationValid`, `OthersPreserved`, `RoutingKept`, types |
| `webhook` | a good, a quoted, an unnameable and a broken alert in one group, of which two fit into a request, fair | `AnswerCoversPayload`, `FiringIsTried`, types |
| `events` | three condition types, one without a stamp, four changes, one fault, fair | `RestIsSynced`, `ConditionNeverOlder`, `EventuallySynced`, types |

`ImplementsLedger` says more than that a run has its record: `created` is written only
after the run was accepted, `failed` only while there is none.

*Bounds.* Two colliding attempts are the smallest case in which an attempt meets
another's record; a third would only repeat it, since a name has one owner (`Owned`,
proved). `MaxChanges` bounds what the environment changes: three suffice for an action
that fires, resolves and fires again before anything was delivered. `MaxMissed` bounds
faults between deliveries, `MaxFaults` those of a schedule. `MaxTime` covers several
periods of a check, or a lifetime of an alert and the renewals in it. Behaviours may
stop when a bound is reached, so deadlock is not checked where a run sets
`CHECK_DEADLOCK FALSE`. In `HubResources` two changes are enough for a creation or an
edit that a pass meets half-way, one fault for a lost answer or a crash between any two
of its steps; two alerts are needed for the loop that a failed deletion ends. In
`AlertmanagerConfig` two routes are enough for an order, since an administrator's insertion
and the operator's own make a third. A group of four alerts of which two fit makes both
payloads that are read and payloads that are cut off. Four
changes let conditions of one stamp, a reference and a result come in any order.

*Fairness.* An attempt's calls return, requests are answered or dropped, watches
deliver and time passes (weak fairness). Reconcile requeues itself within a minute
while a record is pending and returns its errors to the work queue, so recovery keeps
starting; each of its calls may fail, but not every time (strong fairness on recovery's
steps), and a run reports finitely many conditions. In `RunAlerts` and
`PeriodicChecks` the work queue is served; faults are finite by the bounds above.
`Prompt` in `renewal` says that some reconcile ends in each refresh interval, which the
requeue of a firing record and the first retries of the rate limiter ensure.
`HubResources` and `RunEvents` assume that the work queue is served, that every informer
delivers, and that the resync comes: `cmd/controller/main.go` leaves the manager's
`SyncPeriod` at its default of ten hours. Until then a record or a rule may be out of
date (see Findings). In `AlertReceiver` the Alertmanager repeats what
was not answered, and after `repeat_interval` (24 h) also what was. That an
alert dropped with answer 200 is tried at all rests on this repetition.

## Findings

Two runs show the code to differ from what the repository says of it:

1. `slow_creator`: recovery can write `Failed` although the run is created afterwards
   (`runrecovery.go:50`), against `docs/architecture.md:397`.
2. `bare_rules`: a rules ConfigMap without data makes every pass panic
   (`alertrules.go:65`), against *Non-fatal if this fails*, `docs/architecture.md:295`
   (`FailuresNotFatal`). An Alertmanager Secret without data does the same
   (`alertmanager.go:44`, `docs/architecture.md:296`).

Others were met while modelling. They have no run of their own; each is the reason for
an exception in a property, or for an assumption named above:

* Recovery deletes by name, from a cached copy, a record whose identity may have been
  written meanwhile (`runrecovery.go:41`, `docs/architecture.md:391`): `RunHasRecord`
  needs `Timely` as well.
* `finishCreation` takes a condition whose reason is `Pending` for the creation phase and
  overwrites it (`record.go:106`, its comment at line 98); the next synchronization repairs
  it. The instances of `RunCreation` have no such reason.
* A result that cannot be read stops the renewal of a firing alert (`runalerts.go:161`,
  `docs/architecture.md:473`): `renewal` has readable results only.
* The rules are listed from a cache that need not show the ConfigMaps of the same pass,
  and no watch corrects them (`alertrules.go:107`, the comment at
  `telcohealthcheck_controller.go:111`): `Converges` claims them, `RestIsComplete` does not.
* A conflict on the Secret during deletion is only logged
  (`telcohealthcheck_controller.go:186`, `docs/architecture.md:113`): `LeftoversExplained`
  counts it as tried in vain (`missed`).
* A failed deletion ends the loop over the ConfigMaps of its kind, and those after it are
  never tried (`systemalerts.go:110`, the same in `periodicchecks.go`), while the finalizer
  goes: against *attempts each cleanup step even if an earlier one fails* and *Delete all
  four system-alert ConfigMaps* (`docs/architecture.md:304`, `:309`) and *unconditionally*
  (the comment at `systemalerts.go:105`). It is the exception `skipped` of
  `LeftoversExplained`; without it TLC finds a ConfigMap that nobody tried to delete.
* While the Alertmanager Secret has no data, every cleanup panics in its first step
  (`alertmanager.go:116`), and the finalizer is never removed, against *do not block
  finalizer removal* (the comment at `telcohealthcheck_controller.go:176`): the exception
  `SecretBare` of `DeletedInTheEnd`. The exception `NoData` of `Converges`,
  `StatusTracksClusters` and `PeriodicChecksReached` is the same panic in a reconcile.
* An empty Alertmanager configuration, or one without a route, gets a root route without a
  receiver (`alertmanager.go:81`), which the Alertmanager refuses;
  `TestUpsertWebhookReceiver_EmptyConfig` only asks that the receiver is there. The removal
  leaves a root receiver and nested routes that name the operator's receiver dangling
  (`alertmanager.go:161`, *restoring AlertManager to its pre-operator state*,
  `docs/architecture.md:113`). Both are exceptions of `ConfigurationValid`.
* A notification above one megabyte is answered 400 each time it is repeated
  (`handler.go:90`), and an alert whose name has an underscore, or anything else that an
  object name must not have, never gets a run (`handler.go:316`): the two exceptions of
  `FiringIsTried`.
* A permanent error of kube-compare-mcp keeps the status from being written
  (`telcohealthcheck_controller.go:127`, the comment at line 97): `StatusTracksClusters` is
  checked with a failure of a later step.
* The operator's route matches every alert and so takes from the root's receiver those
  that no other route matches (`alertmanager.go:194`, `docs/architecture.md:111`): the
  exception of `RoutingKept`. An earlier route without `continue` keeps alerts from the
  webhook (`alertmanager.go:207`, `README.md:7`).
* An alert that keeps firing gets another run when its group changes (`handler.go:143`,
  the comment at `alertmanager.go:190`): `FiringIsTried` claims one, not only one.
* Unreadable alert names drop the whole payload (`handler.go:138`, the comment at line
  136): the exception of `AnswerCoversPayload`.
* An event whose mapping cannot read is dropped (`runalerts.go:82`,
  `docs/architecture.md:434`): the exception of `RestIsSynced`.

## Proofs

Every invariant and every action property that a run checks is also proved, as is the
refinement of `RunLedger`. A proof covers any number of attempts, names, clusters,
alerts and conditions, lists of any length and any bounds; the runs cover the instances
above. Each theorem is of the form `Spec => []P` or `Spec => P`, so it holds under the
fair specifications of the runs, too.

| Module | Theorem | States | Needs |
|---|---|---|---|
| `RunCreationProofs` | `TypeCorrect` | `TypeOK` | |
| | `Safety` | `SafetyInv` | `Timely` |
| | `EveryRunHasItsRecord`, `FailedIsTrue` | `RunHasRecord`, `FailedMeansNoRun` | `Timely` |
| `RunLedgerProofs` | `LedgerSafety` | `LedgerInv` | `Timely` |
| | `OneRunPerName` | `NoSecondRun` | `Timely` |
| | `Refinement` | `ImplementsLedger` | `Timely` |
| | `AnnotationAfterOutcome` | `OutcomeBeforeAnnotation` | `Timely` |
| | `OneCondition`, `WritersOnlyAdvance` | `TypeAndPhaseFromOneCondition`, `NothingUndone` | `TellingConditions` |
| `RunAlertsProofs` | `TypeCorrect` | `TypeOK` | |
| | `DeliverySafety` | `DeliveryInv` | |
| | `QueueTellsHistory`, `LastWord` | `QueueIsHistory`, `AlertmanagerAgrees` | |
| | `NeverOlder`, `NeverSkips` | `ObservationsInOrder`, `NothingSkipped` | |
| | `NeverLapses` | `NoLapse` | `RenewalConditions` |
| `PeriodicChecksProofs` | `TypeCorrect` | `TypeOK` | |
| | `OneClaimPerInterval` | `ClaimedOncePerInterval` | |
| | `ClaimBeforeRun` | `NoRunWithoutClaim` | |
| | `TimerInTime` | `WakesInTime` | `PositivePeriods` |
| `RunEventsProofs` | `TypeCorrect` | `TypeOK` | |
| | `LatestIsLatest` | `LatestCondition` against `IsLatest` | |
| | `ConditionsInOrder` | `ConditionNeverOlder` | |
| | `SyncedAtRest` | `RestIsSynced` | |
| `HubResourcesProofs` | `TypeCorrect` | `TypeOK` | |
| | `CompleteAtRest` | `RestIsComplete` | |
| | `NothingForgotten` | `LeftoversExplained` | |
| `AlertmanagerConfigProofs` | `TypeCorrect`, `AlwaysValid` | `TypeOK`, `ConfigurationValid` | |
| | `OthersKept`, `RoutesStillTaken` | `OthersPreserved`, `RoutingKept` | |
| `AlertReceiverProofs` | `TypeCorrect`, `EveryAlertTried` | `TypeOK`, `AnswerCoversPayload` | |

### What is assumed

Beside the `ASSUME`s, which TLC evaluates in the runs of each `MC` module, a theorem
names its hypothesis:

* `Timely`: the grace period is long enough, see RunCreation above. `slow_creator` shows
  that it cannot be dropped.
* `TellingConditions`: no condition has `Pending` or nothing as its reason; otherwise
  `finishCreation` takes it for the creation phase (see Findings).
* `RenewalConditions`: some reconcile ends in each refresh interval, delivery stays
  configured, no POST arrives late, results are readable, and `Refresh + MaxMissed <
  Lifetime`. Each of them is one of the ways an alert can lapse.
* `PositivePeriods`: no enabled check has a period of zero (see Not modelled).

The `ASSUME`s fix what the constants are (finite sets where the code has lists, `Absent`
and `NoRun` no values, `Bare` only content of shared objects, `Ours` not a name of an
administrator, natural bounds, a clock
that starts within its bound).

### The arguments

*RunCreation.* Neither `RunHasRecord` nor `FailedMeansNoRun` is inductive. That a create
meets its record needs to know that nobody else wrote or deleted the record in between,
and that depends on what recovery's copy shows. `SafetyInv` adds:

* `Owned`: while an attempt is between `Begin` and its return, or its request is out,
  the record of its name is its own. Hence two attempts never share a name (`OneOwner`).
* `AgedQuiet`, `RecoveryQuiet`: when recovery acts, no create for the name is to come.
  `Quiet` is stable (`QuietStays`).
* `AgedCopiesFresh`, `CopiesNamed`: a copy past the grace period shows the identity that
  is stored, so a deletion hits only a record without identity, which has no run.
* `NoRunYet`, `LateRequests`, `FailedIsFinal`: there is no run before the create is
  accepted, and after `Failed` none is to come.

The step lemmas (`AttemptMoves`, `AgeStep`, `RecordStep`, `RunStep`, `CopyStep`) say,
action by action, what a step can do to each variable. The preservation of each part of
the invariant follows from those.

*RunLedger.* A run that has ended leaves no trace in `runs`, so the refinement needs a
memory of it: `LedgerInv` relates the history variable `landed` to what everybody knows.
Who confirms has seen the run land, a create that is out is the first of its name, and a
record of a name that has not landed claims nothing. Each action then maps to a step of
the ledger or a stutter. `OutcomeInv` says that the cache shows an earlier state of the
same record, and that whoever removes the annotation has seen its outcome.

*RunAlerts.* `DeliveryInv`: a copy whose version is fresh is the stored record
(`CopiesCurrent`); the task in hand fits the queue (`TaskStands`); the queue alternates
and continues what was delivered (`History`); until a POST is acknowledged, the
Alertmanager holds the head of the queue (`Delivered`), and with an empty queue it holds
what the record says (`LastWordAgrees`). The last two need each other: the
acknowledgement removes the head of the queue, and that head is the one that was sent
because a patch in between would have taken the version away. For `NoLapse`, `Covered`
is a budget: the end of the alert is as far away as the refresh interval and the attempts
missed so far leave of its lifetime.

*PeriodicChecks.* `ScheduleInv` follows the loop over the checks. What `VisitCheck` found
due in its copy is still due in the stored singleton if the claim passes the optimistic
lock, so an interval has one claim. `WakeInv` says, for a controller at rest, that its
timer is not later than the next due time; while it runs, that the requeue computed so
far covers every check visited, or that an event of its own write is to come.

*RunEvents.* `OrderInv`: neither the record nor the condition a reconcile has read is
ahead of the run's conditions, since a transition only replaces a stamp by a later one
(`TransitionReaches`); so a patch made from an old read still does not go back.
`SyncInv`: as long as nothing is queued and no event is left, what the reconcile has
read is what the hub has, and after the patch the record shows it. `Requests` is the
reason: every other step leaves an event or a request.

*HubResources.* `PassInv` says where a pass stands. `SyncInv` carries what it has done so
far: what is complete at rest was completed by the last pass, which wrote last the
singleton it had read. `CleanInv` carries what a cleanup has tried or left out, and says that no pass
with an old copy brings an object back once the finalizer is gone, because whoever sees a
singleton to be reconciled may trust that the stored one still has its finalizer
(`Guarded`).

*AlertmanagerConfig.* `KeptSame` is the lemma everything rests on: the filtering loop
returns the entries to keep, all of them and in order. `ConfigInv` adds the uniqueness of
receiver names to the types, that each route leads to a receiver, that a root receiver of
the administrators is defined, and that the operator's is while it is installed. That routing is kept
follows because the correspondence of the other entries preserves their order and only
`continue` routes come between them.

*AlertReceiver.* `Remaining`: an alert that matches was tried or is still in the payload.

*Loops over lists.* The library's induction theorems take an operator, which the provers
cannot instantiate. `SetInduction` states induction for a set instead (a set with 0 that
is closed under successor contains `Nat`) and follows from the well-foundedness of `<`.
With it `KeptLoop` and `ScanExists` show that the recursive functions of `Kept` and
`LatestCondition` exist and satisfy their equations, and `KeptSame` and `LatestFound` what
they return for every list. The two modules that need it each have their own copy.

### Only model-checked

Liveness (`PendingResolved`, `EventuallyAgrees`, `DueIsClaimed`, `Converges`,
`StatusTracksClusters`, `PeriodicChecksReached`, `DeletedInTheEnd`, `FiringIsTried`,
`EventuallySynced`): fairness and `ENABLED` are beyond the prover. And the two
violations, which are counterexamples.

## Not modelled

* Text: names, summaries, payloads, the expansion of variables, the rules' YAML. An alert
  is identified by its name; the scan for names is modelled by what it does to a quoted one,
  the name of a run by whether it is an object name.
* Credentials, the console link and log levels, which have no influence on the protocols
  (a missing credential is one of the reasons a send fails).
* The metrics collector and the validating webhook: the one only reads, the other compares
  one name.
* Flags, scheme, probes and server set-up of the two programs.
* Two reconciles of one key at a time, and two active controllers: controller-runtime and
  leader election exclude them.
* Each manifest file of kube-compare-mcp is one object; a failure between two objects of a
  file is a failure of that file.
* A period override of zero: every reconcile would claim and create, without bound.

## Plan

Left for later: the safety half of what the liveness properties say, as ranking lemmas
(for `DeletedInTheEnd`, that a pass of the cleanup without a fault shortens its plan; for
`PendingResolved`, that no step makes a settled record pending again); and shorter proofs
in `HubResourcesProofs`, where the lemmas about plans repeat each other for the two kinds
of passes.
