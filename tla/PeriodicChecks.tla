-------------------------- MODULE PeriodicChecks ---------------------------
(***************************************************************************)
(* Scheduling of the periodic health checks.                               *)
(*                                                                         *)
(* TelcoHealthcheckReconciler.Reconcile (telcohealthcheck_controller.go)   *)
(* works on a cached copy of the singleton TelcoHealthcheck.  For every    *)
(* enabled check that is due, runPeriodicChecks claims the interval by     *)
(* writing the check's last run time under the optimistic lock, and only   *)
(* then creates the runs, or starts a goroutine per cluster that creates   *)
(* its run after a random delay (agenticrun.go).  The controller may stop  *)
(* at any point and loses those goroutines.                                *)
(*                                                                         *)
(* Time counts from 1; the last run time 0 is a check that never ran.      *)
(***************************************************************************)
EXTENDS Integers, Sequences, FiniteSets

CONSTANTS
  Clusters,        \* the monitored clusters
  Specs,           \* the schedules the singleton may have, and per check if its configuration loads
  Unset,           \* an absent override
  DefaultMin,      \* default jitter window
  DefaultMax,
  PendingRequeue,  \* requeue while records are pending
  MaxTime,         \* bound on the clock
  MaxChanges,      \* bound on changes of the schedule and on other events
  MaxFaults        \* bound on failed calls and crashes

ASSUME ScheduleAssumption ==
  /\ {MaxTime, MaxChanges, MaxFaults, PendingRequeue} \subseteq Nat
  /\ {DefaultMin, DefaultMax} \subseteq Int
  /\ PendingRequeue > 0

(* configuredPeriodicChecks, in registration order. *)
Order == <<"rds-compliance", "low-latency-check">>
Checks == {Order[k] : k \in DOMAIN Order}

(* Durations: the schema bounds no period, and that it refuses a negative   *)
(* jitter is not used here.                                                 *)
Optional == {Unset} \cup Int
CheckSpec == [enabled : BOOLEAN, period : Optional, minJitter : Optional, maxJitter : Optional, loads : BOOLEAN]

ASSUME SpecsAssumption ==
  Specs \subseteq [period : Int, minJitter : Optional, maxJitter : Optional, checks : [Checks -> CheckSpec]]

VARIABLES
  thc,       \* the stored singleton: [spec, lastRun]
  cache,     \* the informer's copy of it
  pc,        \* where Reconcile is: idle, check, claim, create, finish
  at,        \* index in Order of the check at hand
  mine,      \* the copy Reconcile works on
  started,   \* the time runPeriodicChecks started
  requeue,   \* requeueAfter
  persisted, \* a claim has written the status
  todo,      \* clusters whose run is still to be created or scheduled
  queued,    \* the singleton is in the work queue
  wake,      \* when the requeue timer expires, 0: no timer
  tasks,     \* delayed creations: [check, cluster, claim, due]
  created,   \* <<check, cluster>> -> runs created
  claims,    \* check -> intervals claimed
  now, changes, faults

vars == <<thc, cache, pc, at, mine, started, requeue, persisted, todo, queued, wake, tasks,
          created, claims, now, changes, faults>>

local == <<at, mine, started, requeue, persisted, todo>>
outside == <<now, changes, faults>>

Lower(a, b) == IF a < b THEN a ELSE b

Init ==
  /\ thc \in [spec : Specs, lastRun : {[c \in Checks |-> 0]}]
  /\ cache = thc
  /\ pc = "idle"
  /\ at = 1 /\ mine = thc /\ started = 0 /\ requeue = 0 /\ persisted = FALSE /\ todo = {}
  /\ queued = TRUE
  /\ wake = 0
  /\ tasks = {}
  /\ created = [x \in Checks \X Clusters |-> 0]
  /\ claims = [c \in Checks |-> 0]
  /\ now = 1 /\ changes = 0 /\ faults = 0

-----------------------------------------------------------------------------
(* The schedule *)

Override(value, default) == IF value = Unset THEN default ELSE value

CheckPeriod(spec, c) == Override(spec.checks[c].period, spec.period)

ValidWindow(w) == w.min >= 0 /\ w.max >= w.min

GlobalWindow(spec) == [min |-> Override(spec.minJitter, DefaultMin),
                       max |-> Override(spec.maxJitter, DefaultMax)]

(* resolvePeriodicJitter; both windows must be valid. *)
CheckWindow(spec, c) == [min |-> Override(spec.checks[c].minJitter, GlobalWindow(spec).min),
                         max |-> Override(spec.checks[c].maxJitter, GlobalWindow(spec).max)]

WindowsValid(spec, c) == ValidWindow(GlobalWindow(spec)) /\ ValidWindow(CheckWindow(spec, c))

ShouldRunCheck(lastRun, period) == lastRun = 0 \/ now - lastRun >= period

-----------------------------------------------------------------------------
(* Reconcile, from its cached read to its return *)

(* Everything before runPeriodicChecks only reads and writes other objects. *)
Start ==
  /\ pc = "idle"
  /\ queued \/ (wake # 0 /\ wake <= now)
  /\ queued' = FALSE /\ wake' = 0
  /\ mine' = cache
  /\ started' = now
  /\ at' = 1 /\ persisted' = FALSE /\ todo' = {}
  /\ requeue' = cache.spec.period
  /\ pc' = IF cache.spec.period = 0 THEN "finish" ELSE "check"
  /\ UNCHANGED <<thc, cache, tasks, created, claims>> /\ UNCHANGED outside

Done == /\ pc' = "idle" /\ at' = 1 /\ persisted' = FALSE /\ todo' = {} /\ requeue' = 0
        /\ mine' = cache /\ started' = 0

(* Wrong on purpose: the error is logged and not returned. *)
ReturnErrorSwallowed == Done /\ UNCHANGED queued

(* An error puts the singleton back into the work queue. *)
ReturnError == Done /\ queued' = TRUE

NextCheck == /\ at' = at + 1
             /\ pc' = IF at = Len(Order) THEN "finish" ELSE "check"

(* Wrong on purpose: every configuration is loaded before the first check. *)
LoadsAll(c) == \A d \in Checks : mine.spec.checks[d].enabled => mine.spec.checks[d].loads

(* loadRunConfigForCheck succeeds. *)
Loads(c) == mine.spec.checks[c].loads

(* One check of the loop: skipped, refused, claimed next, or not yet due.   *)
(* A window or a configuration that is not valid ends the loop.             *)
VisitCheck ==
  LET c == Order[at]
      period == CheckPeriod(mine.spec, c)
      due == ShouldRunCheck(mine.lastRun[c], period)
      least == IF period > 0 THEN Lower(requeue, period) ELSE requeue
      untilNext == period - (now - mine.lastRun[c])
  IN
  /\ pc = "check"
  /\ \/ /\ ~mine.spec.checks[c].enabled
        /\ NextCheck
        /\ UNCHANGED <<mine, started, requeue, persisted, todo, queued>>
     \/ /\ mine.spec.checks[c].enabled
        /\ ~WindowsValid(mine.spec, c) \/ (due /\ ~Loads(c))
        /\ ReturnError
     \/ /\ mine.spec.checks[c].enabled
        /\ WindowsValid(mine.spec, c)
        /\ IF due
           THEN Loads(c) /\ pc' = "claim" /\ requeue' = least /\ UNCHANGED at
           ELSE NextCheck /\ requeue' = IF untilNext > 0 THEN Lower(least, untilNext) ELSE least
        /\ UNCHANGED <<mine, started, persisted, todo, queued>>
  /\ UNCHANGED <<thc, cache, wake, tasks, created, claims>> /\ UNCHANGED outside

(* Wrong on purpose: the claim is written without the optimistic lock. *)
ClaimWithoutLock ==
  LET c == Order[at]
      claimed == [mine EXCEPT !.lastRun[c] = started]
  IN
  /\ pc = "claim"
  /\ thc' = claimed
  /\ mine' = claimed
  /\ claims' = [claims EXCEPT ![c] = claims[c] + 1]
  /\ persisted' = TRUE
  /\ todo' = Clusters
  /\ pc' = "create"
  /\ UNCHANGED <<at, started, requeue, queued>>
  /\ UNCHANGED <<cache, wake, tasks, created>> /\ UNCHANGED outside

(* Wrong on purpose: a refused claim does not stop the creation. *)
ClaimRefusedIgnored ==
  LET c == Order[at]
      claimed == [mine EXCEPT !.lastRun[c] = started]
  IN
  /\ pc = "claim"
  /\ IF mine = thc
     THEN thc' = claimed /\ claims' = [claims EXCEPT ![c] = claims[c] + 1]
     ELSE UNCHANGED <<thc, claims>>
  /\ mine' = claimed
  /\ persisted' = TRUE
  /\ todo' = Clusters
  /\ pc' = "create"
  /\ UNCHANGED <<at, started, requeue, queued>>
  /\ UNCHANGED <<cache, wake, tasks, created>> /\ UNCHANGED outside

(* Wrong on purpose: a duration is stored in place of a time. *)
ClaimStoresAge ==
  LET c == Order[at]
      claimed == [mine EXCEPT !.lastRun[c] = mine.lastRun[c] - started]
  IN
  /\ pc = "claim"
  /\ mine = thc
  /\ thc' = claimed
  /\ mine' = claimed
  /\ claims' = [claims EXCEPT ![c] = claims[c] + 1]
  /\ persisted' = TRUE
  /\ todo' = Clusters
  /\ pc' = "create"
  /\ UNCHANGED <<at, started, requeue, queued>>
  /\ UNCHANGED <<cache, wake, tasks, created>> /\ UNCHANGED outside

(* The schedule claim: Status().Update, refused if the copy is stale. *)
Claim ==
  LET c == Order[at]
      claimed == [mine EXCEPT !.lastRun[c] = started]
  IN
  /\ pc = "claim"
  /\ IF mine = thc
     THEN /\ thc' = claimed
          /\ mine' = claimed
          /\ claims' = [claims EXCEPT ![c] = claims[c] + 1]
          /\ persisted' = TRUE
          /\ todo' = Clusters
          /\ pc' = "create"
          /\ UNCHANGED <<at, started, requeue, queued>>
     ELSE ReturnError /\ UNCHANGED <<thc, claims>>
  /\ UNCHANGED <<cache, wake, tasks, created>> /\ UNCHANGED outside

Count(c, cluster) == created' = [created EXCEPT ![<<c, cluster>>] = created[<<c, cluster>>] + 1]

(* One cluster of createAgenticRunsForClustersWithConfig: its run is created *)
(* now (or the attempt fails, which is only logged), or after a delay.       *)
CreateForCluster ==
  LET c == Order[at]
      window == CheckWindow(mine.spec, c)
  IN
  /\ pc = "create"
  /\ \E cluster \in todo :
       /\ todo' = todo \ {cluster}
       /\ IF window.max = 0
          THEN /\ Count(c, cluster) \/ UNCHANGED created
               /\ UNCHANGED tasks
          ELSE /\ \E delay \in window.min .. window.max :
                    tasks' = tasks \cup {[check |-> c, cluster |-> cluster, claim |-> mine.lastRun[c],
                                          due |-> now + delay]}
               /\ UNCHANGED created
  /\ UNCHANGED <<thc, cache, pc, at, mine, started, requeue, persisted, queued, wake, claims>>
  /\ UNCHANGED outside

AllCreated ==
  /\ pc = "create" /\ todo = {}
  /\ NextCheck
  /\ UNCHANGED <<thc, cache, mine, started, requeue, persisted, todo, queued, wake, tasks, created, claims>>
  /\ UNCHANGED outside

(* The rest of the status is written unless a claim did; then the requeue,  *)
(* which controller-runtime makes only for a positive duration.             *)
Finish ==
  /\ pc = "finish"
  /\ IF persisted \/ mine = thc
     THEN \E pending \in BOOLEAN :
            LET after == IF pending /\ (requeue = 0 \/ requeue > PendingRequeue) THEN PendingRequeue ELSE requeue
            IN  /\ wake' = IF after > 0 THEN now + after ELSE 0
                /\ Done
                /\ UNCHANGED queued
     ELSE ReturnError /\ UNCHANGED wake
  /\ UNCHANGED <<thc, cache, tasks, created, claims>> /\ UNCHANGED outside

-----------------------------------------------------------------------------
(* A delayed creation *)

TaskFires ==
  /\ \E t \in tasks :
       /\ t.due <= now
       /\ tasks' = tasks \ {t}
       /\ Count(t.check, t.cluster) \/ UNCHANGED created
  /\ UNCHANGED <<thc, cache, pc, queued, wake, claims>> /\ UNCHANGED local /\ UNCHANGED outside

-----------------------------------------------------------------------------
(* Faults *)

Fault == faults < MaxFaults /\ faults' = faults + 1 /\ UNCHANGED <<now, changes>>

(* A read or write fails, the run configuration does not load, or the claim *)
(* is stored but its answer is lost.                                        *)
CallFails ==
  /\ pc # "idle"
  /\ Fault
  /\ ReturnError
  /\ \/ UNCHANGED <<thc, claims>>
     \/ /\ pc = "claim" /\ mine = thc
        /\ thc' = [mine EXCEPT !.lastRun[Order[at]] = started]
        /\ claims' = [claims EXCEPT ![Order[at]] = claims[Order[at]] + 1]
  /\ UNCHANGED <<cache, wake, tasks, created>>

(* The controller stops; at its start the informer reads, and queues, all. *)
Restart ==
  /\ Fault
  /\ pc' = "idle" /\ at' = 1 /\ persisted' = FALSE /\ todo' = {} /\ requeue' = 0 /\ started' = 0
  /\ cache' = thc /\ mine' = thc
  /\ tasks' = {}
  /\ queued' = TRUE /\ wake' = 0
  /\ UNCHANGED <<thc, created, claims>>

-----------------------------------------------------------------------------
(* The environment *)

(* Wrong on purpose: only changes of the spec queue a reconcile, as with a  *)
(* GenerationChangedPredicate.                                              *)
WatchEventSpecOnly ==
  /\ cache # thc
  /\ cache' = thc
  /\ mine' = IF pc = "idle" THEN thc ELSE mine
  /\ queued' = (queued \/ cache.spec # thc.spec)
  /\ UNCHANGED <<thc, pc, at, started, requeue, persisted, todo, wake, tasks, created, claims>>
  /\ UNCHANGED outside

(* Every event on the singleton, its own status updates included, updates   *)
(* the informer's copy and queues a reconcile.                              *)
WatchEvent ==
  /\ cache # thc
  /\ cache' = thc
  /\ mine' = IF pc = "idle" THEN thc ELSE mine
  /\ queued' = TRUE
  /\ UNCHANGED <<thc, pc, at, started, requeue, persisted, todo, wake, tasks, created, claims>>
  /\ UNCHANGED outside

Change == changes < MaxChanges /\ changes' = changes + 1 /\ UNCHANGED <<now, faults>>

ScheduleChanges ==
  /\ Change
  /\ \E s \in Specs \ {thc.spec} : thc' = [thc EXCEPT !.spec = s]
  /\ UNCHANGED <<cache, pc, queued, wake, tasks, created, claims>> /\ UNCHANGED local

(* An event on a ManagedCluster, a ConfigMap or a pending record. *)
OtherEvent ==
  /\ Change
  /\ ~queued /\ queued' = TRUE
  /\ UNCHANGED <<thc, cache, pc, wake, tasks, created, claims>> /\ UNCHANGED local

(* Only the creation of runs takes noticeable time in a reconcile. *)
Tick ==
  /\ now < MaxTime
  /\ pc \in {"idle", "create"}
  /\ now' = now + 1
  /\ UNCHANGED <<thc, cache, pc, queued, wake, tasks, created, claims, changes, faults>> /\ UNCHANGED local

ReconcileStep == Start \/ VisitCheck \/ Claim \/ CreateForCluster \/ AllCreated \/ Finish

Next ==
  \/ ReconcileStep \/ TaskFires
  \/ CallFails \/ Restart
  \/ WatchEvent \/ ScheduleChanges \/ OtherEvent \/ Tick

Spec == Init /\ [][Next]_vars

(* The work queue is served, timers expire, watches deliver, time passes. *)
Fairness ==
  WF_vars(ReconcileStep) /\ WF_vars(TaskFires) /\ WF_vars(WatchEvent) /\ WF_vars(Tick)

FairSpec == Spec /\ Fairness

-----------------------------------------------------------------------------
(* Properties *)

Enabled(c) == thc.spec.period # 0 /\ thc.spec.checks[c].enabled

(* The variables keep the shapes the code gives them. *)
TypeOK ==
  /\ thc \in [spec : Specs, lastRun : [Checks -> Nat]]
  /\ cache \in [spec : Specs, lastRun : [Checks -> Nat]]
  /\ mine \in [spec : Specs, lastRun : [Checks -> Nat]]
  /\ pc \in {"idle", "check", "claim", "create", "finish"}
  /\ at \in 1 .. Len(Order) + 1
  /\ started \in Nat /\ requeue \in Int /\ persisted \in BOOLEAN
  /\ todo \subseteq Clusters
  /\ queued \in BOOLEAN
  /\ wake \in Nat
  /\ tasks \subseteq [check : Checks, cluster : Clusters, claim : Nat, due : Nat]
  /\ created \in [Checks \X Clusters -> Nat]
  /\ claims \in [Checks -> Nat]
  /\ now \in Nat /\ changes \in Nat /\ faults \in Nat

(* An interval is claimed once: whatever stale copy a reconcile started     *)
(* from, a check is claimed only when its period has passed since the last  *)
(* run time stored at that moment.                                          *)
ClaimedOncePerInterval ==
  [][\A c \in Checks :
       claims'[c] # claims[c]
         => thc.lastRun[c] = 0 \/ now - thc.lastRun[c] >= CheckPeriod(thc.spec, c)]_vars

(* The claim is persisted before the first run is created: however often    *)
(* Reconcile fails, restarts or repeats, a cluster never gets more runs of  *)
(* a check, created or still to come, than the check has claimed intervals. *)
NoRunWithoutClaim ==
  \A c \in Checks, cluster \in Clusters :
    created[<<c, cluster>>] + Cardinality({t \in tasks : t.check = c /\ t.cluster = cluster})
      + (IF pc = "create" /\ c = Order[at] /\ cluster \in todo THEN 1 ELSE 0) <= claims[c]

(* The earliest due check determines the next requeue: when the controller  *)
(* rests, its timer expires no later than any enabled check becomes due.    *)
WakesInTime ==
  pc = "idle" /\ ~queued /\ cache = thc
    => \A c \in Checks : Enabled(c) =>
         thc.lastRun[c] # 0 /\ wake # 0 /\ wake <= thc.lastRun[c] + CheckPeriod(thc.spec, c)

(* The check can be scheduled: its windows are valid, its configuration     *)
(* loads.  One that cannot ends the loop before those registered after it.  *)
Schedulable(c) ==
  \A k \in DOMAIN Order :
    /\ k <= CHOOSE j \in DOMAIN Order : Order[j] = c
    /\ thc.spec.checks[Order[k]].enabled
    => WindowsValid(thc.spec, Order[k]) /\ thc.spec.checks[Order[k]].loads

(* Each enabled check creates its runs when due: a due check is claimed in  *)
(* the end, or its schedule changes; no error, stale read, restart, lost    *)
(* timer or check registered after it prevents it.                          *)
DueIsClaimed ==
  \A c \in Checks :
    LET Due == Enabled(c) /\ Schedulable(c) /\ ShouldRunCheck(thc.lastRun[c], CheckPeriod(thc.spec, c))
    IN  Due ~> ~Due
=============================================================================
