----------------------------- MODULE RunAlerts -----------------------------
(***************************************************************************)
(* Status synchronization and external alerts of one TelcoHealthCheckRun.  *)
(*                                                                         *)
(* runAlertReconciler.Reconcile (internal/controller/runalerts.go) first   *)
(* runs syncHubRunStatus (hubrunstatus.go), which copies the latest        *)
(* condition of the hub AgenticRun and the action its latest               *)
(* AnalysisResult requires into the record, and in the same patch queues   *)
(* the notification of an action change.  It then delivers the head of     *)
(* that durable queue to the external Alertmanager, or renews a firing     *)
(* alert.  controller-runtime runs one Reconcile per record at a time; it  *)
(* can stop between any two API calls.  finishCreation (record.go), run by *)
(* others, replaces the status of the same record from its own copy.       *)
(*                                                                         *)
(* Resource versions are modelled by who still holds the current one.      *)
(* Time counts from 1, and 0 stands for an absent timestamp.               *)
(***************************************************************************)
EXTENDS Naturals, Sequences

CONSTANTS
  RunStates,   \* what the hub may show: [type, action] of run and result
  Refresh,     \* alertRefreshInterval
  Lifetime,    \* alertLifetime
  MaxTime,     \* bound on the clock
  MaxChanges,  \* bound on the changes of run, result, configuration and phase
  MaxMissed,   \* bound on the faults between two acknowledged deliveries
  MayDisable,  \* TRUE: spec.alertManager may be removed and set again, or its owner
  MayBeLate,   \* TRUE: a POST that timed out may still be applied later
  Prompt       \* TRUE: a reconcile ends in every unit of time, see Tick

ASSUME BoundsAssumption ==
  /\ {Refresh, Lifetime, MaxTime, MaxChanges, MaxMissed} \subseteq Nat
  /\ Refresh > 0 /\ Lifetime > Refresh
  /\ {MayDisable, MayBeLate, Prompt} \subseteq BOOLEAN

(* What status.actionRequired can be; "missing" only on the hub. *)
Actions == {"", "True", "False"}

ASSUME RunStatesAssumption == RunStates \subseteq [type : STRING, action : Actions \cup {"missing"}]

(* What status.type can be: what the hub has shown. *)
Types == {r.type : r \in RunStates} \cup {"", "Analyzed"}

VARIABLES
  run,      \* [type, action] the hub shows now; type "gone": no run, action "missing": unreadable result
  version,  \* changes of run so far
  record,   \* the stored status: see Status
  config,   \* spec.alertManager is "on" or "off", or the singleton is "gone"
  pc,       \* where Reconcile is
  snap,     \* what syncHubRunStatus has read of the run, and when
  syncErr,  \* syncHubRunStatus failed
  copy,     \* the status Reconcile works on
  fresh,    \* those among "reconcile", "finish" whose copy is the current version
  finish,   \* the copy of finishCreation, or <<>>
  am,       \* the alert as the external Alertmanager last received it
  wire,     \* POSTs that timed out and may still arrive
  now,      \* clock
  tried,    \* a reconcile has ended since the last tick
  missed,   \* faults since the last acknowledged delivery
  changes   \* changes of the environment so far

vars == <<run, version, record, config, pc, snap, syncErr, copy, fresh, finish, am, wire, now,
          tried, missed, changes>>

Notification == [firing : BOOLEAN, startsAt : Nat, endsAt : Nat]

Firing(s) == [firing |-> TRUE, startsAt |-> s, endsAt |-> 0]
Resolved(s, e) == [firing |-> FALSE, startsAt |-> s, endsAt |-> e]

(* The part of TelcoHealthCheckRunStatus that alerts depend on, with the    *)
(* version of the run it was last changed for.                              *)
Status == [type : Types, action : Actions, queue : Seq(Notification),
           startsAt : Nat, lastSent : Nat, seen : Nat]

NewStatus == [type |-> "", action |-> "", queue |-> <<>>, startsAt |-> 0, lastSent |-> 0, seen |-> 0]

(* A record of a release without alert delivery. *)
OldStatus == [NewStatus EXCEPT !.type = "Analyzed", !.action = "True"]

PCs == {"idle", "result", "patch", "decide", "clear", "initial", "send", "renew", "ack", "renewed"}

NoSnap == [type |-> "", action |-> "", version |-> 0]

NoAlert == [firing |-> FALSE, startsAt |-> 0, endsAt |-> 0, tracked |-> TRUE]

Init ==
  /\ run \in RunStates
  /\ version = 0
  /\ record \in {NewStatus, OldStatus}
  /\ record = OldStatus => run = [type |-> "Analyzed", action |-> "True"]
  /\ config = "on"
  /\ pc = "idle"
  /\ snap = NoSnap
  /\ syncErr = FALSE
  /\ copy = NewStatus
  /\ fresh = {}
  /\ finish = <<>>
  /\ am = NoAlert
  /\ wire = {}
  /\ now = 1
  /\ tried = FALSE
  /\ missed = 0
  /\ changes = 0

-----------------------------------------------------------------------------
(* Reconcile returns, having done what it could or because of a fault: a    *)
(* failed call or a crash.                                                  *)
Return == pc' = "idle" /\ tried' = TRUE /\ copy' = NewStatus

Fault ==
  /\ missed < MaxMissed
  /\ missed' = missed + 1

Outside == UNCHANGED <<run, version, config, now, changes>>

(* Patch with MergeFromWithOptimisticLock: a stale copy is refused. *)
Patch(status) ==
  /\ "reconcile" \in fresh
  /\ record' = status
  /\ fresh' = {}

-----------------------------------------------------------------------------
(* syncHubRunStatus *)

(* The run is read; one that is gone leaves the status alone. *)
SyncReadRun ==
  /\ pc = "idle"
  /\ snap' = [type |-> run.type, action |-> "", version |-> version]
  /\ syncErr' = FALSE
  /\ pc' = IF run.type = "gone" THEN "decide" ELSE "result"
  /\ UNCHANGED <<record, copy, fresh, finish, am, wire, tried, missed>> /\ Outside

(* The latest result is read; it may be missing or belong to another run. *)
SyncReadResult ==
  /\ pc = "result"
  /\ IF run.action = "missing"
     THEN /\ syncErr' = TRUE
          /\ pc' = "decide"
          /\ UNCHANGED snap
     ELSE /\ snap' = [snap EXCEPT !.action = run.action]
          /\ pc' = "patch"
          /\ UNCHANGED syncErr
  /\ UNCHANGED <<record, copy, fresh, finish, am, wire, tried, missed>> /\ Outside

SyncFails ==
  /\ pc \in {"result", "patch"}
  /\ Fault
  /\ syncErr' = TRUE
  /\ pc' = "decide"
  /\ UNCHANGED <<record, snap, copy, fresh, finish, am, wire, tried>> /\ Outside

(* Wrong on purpose: a resolution may end in the second the alert started. *)
QueueActionAlertSameSecond(old, new) ==
  IF new.action = old.action THEN new
  ELSE IF new.action = "True"
  THEN [new EXCEPT !.startsAt = now, !.lastSent = 0, !.queue = Append(new.queue, Firing(now))]
  ELSE IF old.action = "True"
  THEN LET s == IF new.startsAt # 0 THEN new.startsAt ELSE now
       IN  [new EXCEPT !.startsAt = 0, !.lastSent = 0, !.queue = Append(new.queue, Resolved(s, now))]
  ELSE new

(* Wrong on purpose: a resolution cancels the notification still queued, as *)
(* if an unacknowledged one could not have been delivered.                  *)
QueueActionAlertCancels(old, new) ==
  IF new.action = old.action THEN new
  ELSE IF new.action = "True"
  THEN [new EXCEPT !.startsAt = now, !.lastSent = 0, !.queue = Append(new.queue, Firing(now))]
  ELSE IF old.action = "True"
  THEN [new EXCEPT !.startsAt = 0, !.lastSent = 0,
                   !.queue = IF new.queue # <<>> THEN <<>> ELSE <<Resolved(new.startsAt, now + 1)>>]
  ELSE new

(* queueActionAlert: an action change is queued with the change itself. *)
QueueActionAlert(old, new) ==
  IF new.action = old.action THEN new
  ELSE IF new.action = "True"
  THEN [new EXCEPT !.startsAt = now, !.lastSent = 0, !.queue = Append(new.queue, Firing(now))]
  ELSE IF old.action = "True"
  THEN LET s == IF new.startsAt # 0 THEN new.startsAt ELSE now
           e == IF now > s THEN now ELSE s + 1
       IN  [new EXCEPT !.startsAt = 0, !.lastSent = 0, !.queue = Append(new.queue, Resolved(s, e))]
  ELSE new

(* The status a synchronization computes from the run and the record. *)
Synced(old) ==
  LET new == [old EXCEPT !.type = snap.type,
                         !.action = IF snap.type = "Analyzed" THEN snap.action ELSE "False"]
  IN  IF snap.type = "" \/ new = old THEN old
      ELSE [QueueActionAlert(old, new) EXCEPT !.seen = snap.version]

(* The retry that succeeds: it re-reads the record, not the run. *)
SyncPatch ==
  /\ pc = "patch"
  /\ record' = Synced(record)
  /\ fresh' = IF record' = record THEN fresh ELSE {}
  /\ pc' = "decide"
  /\ UNCHANGED <<snap, syncErr, copy, finish, am, wire, tried, missed>> /\ Outside

-----------------------------------------------------------------------------
(* The rest of Reconcile *)

(* Wrong on purpose: the lifetime in place of the refresh interval. *)
RenewalDueAtExpiry(st) == st.lastSent = 0 \/ now >= st.lastSent + Lifetime

RenewalDue(st) == st.lastSent = 0 \/ now >= st.lastSent + Refresh

(* Wrong on purpose: a failed synchronization also holds back the queue. *)
NextTaskSyncFirst(st) ==
  IF syncErr \/ config = "gone" THEN "idle"
  ELSE IF config = "off"
  THEN IF st.queue = <<>> /\ st.startsAt = 0 /\ st.lastSent = 0 THEN "idle" ELSE "clear"
  ELSE IF st.action = "True" /\ st.startsAt = 0 THEN "initial"
  ELSE IF st.queue # <<>> THEN "send"
  ELSE IF st.action = "True" /\ RenewalDue(st) THEN "renew"
  ELSE "idle"

NextTask(st) ==
  IF syncErr /\ st.queue = <<>> THEN "idle"
  ELSE IF config = "gone" THEN "idle"
  ELSE IF config = "off"
  THEN IF st.queue = <<>> /\ st.startsAt = 0 /\ st.lastSent = 0 THEN "idle" ELSE "clear"
  ELSE IF st.action = "True" /\ st.startsAt = 0 THEN "initial"
  ELSE IF st.queue # <<>> THEN "send"
  ELSE IF st.action = "True" /\ RenewalDue(st) THEN "renew"
  ELSE "idle"

(* The record and the singleton are read again, and decide what to do. *)
Decide ==
  /\ pc = "decide"
  /\ snap' = NoSnap /\ syncErr' = FALSE
  /\ IF NextTask(record) = "idle"
     THEN Return /\ UNCHANGED fresh
     ELSE /\ pc' = NextTask(record)
          /\ copy' = record
          /\ fresh' = fresh \cup {"reconcile"}
          /\ UNCHANGED tried
  /\ UNCHANGED <<record, finish, am, wire, missed>> /\ Outside

(* Without spec.alertManager everything still to be delivered is dropped. *)
Clear ==
  /\ pc = "clear"
  /\ Patch([copy EXCEPT !.queue = <<>>, !.startsAt = 0, !.lastSent = 0])
  /\ am' = [am EXCEPT !.tracked = FALSE]
  /\ Return
  /\ UNCHANGED <<snap, syncErr, finish, wire, missed>> /\ Outside

(* A record that needs action but never fired gets its first notification. *)
InitialFiring ==
  /\ pc = "initial"
  /\ Patch([copy EXCEPT !.startsAt = now, !.queue = Append(copy.queue, Firing(now))])
  /\ Return
  /\ UNCHANGED <<snap, syncErr, finish, am, wire, missed>> /\ Outside

(* send: the alert as posted; a firing alert ends a lifetime from now. *)
Event == IF pc = "send" THEN Head(copy.queue) ELSE Firing(copy.startsAt)

Posted(event) ==
  [firing |-> event.firing, startsAt |-> event.startsAt, tracked |-> TRUE,
   endsAt |-> IF event.firing THEN now + Lifetime ELSE event.endsAt]

(* Alertmanager applies the POST and answers 2xx. *)
SendAccepted ==
  /\ pc \in {"send", "renew"}
  /\ am' = Posted(Event)
  /\ pc' = IF pc = "send" THEN "ack" ELSE "renewed"
  /\ UNCHANGED <<record, snap, syncErr, copy, fresh, finish, wire, tried, missed>> /\ Outside

(* Wrong on purpose: the status code of the answer is not looked at. *)
SendFailsUnnoticed ==
  /\ pc \in {"send", "renew"}
  /\ Fault
  /\ pc' = IF pc = "send" THEN "ack" ELSE "renewed"
  /\ UNCHANGED <<record, snap, syncErr, copy, fresh, finish, am, wire, tried>> /\ Outside

(* The POST is refused or lost, applied without an answer, or delayed. *)
SendFails ==
  /\ pc \in {"send", "renew"}
  /\ Fault
  /\ \/ UNCHANGED <<am, wire>>
     \/ am' = Posted(Event) /\ UNCHANGED wire
     \/ MayBeLate /\ wire' = wire \cup {Posted(Event)} /\ UNCHANGED am
  /\ Return
  /\ fresh' = fresh \ {"reconcile"}
  /\ UNCHANGED <<record, snap, syncErr, finish>> /\ Outside

(* The delivered notification leaves the queue. *)
Acknowledge ==
  LET event == Head(copy.queue) IN
  /\ pc = "ack"
  /\ Patch([copy EXCEPT !.queue = Tail(copy.queue),
                        !.lastSent = IF /\ event.firing /\ copy.action = "True"
                                        /\ copy.startsAt = event.startsAt
                                     THEN now ELSE copy.lastSent])
  /\ Return
  /\ missed' = 0
  /\ UNCHANGED <<snap, syncErr, finish, am, wire>> /\ Outside

(* Wrong on purpose: a duration is stored in place of a time. *)
AcknowledgeRenewalDuration ==
  /\ pc = "renewed"
  /\ Patch([copy EXCEPT !.lastSent = copy.lastSent - now])
  /\ Return
  /\ missed' = 0
  /\ UNCHANGED <<snap, syncErr, finish, am, wire>> /\ Outside

AcknowledgeRenewal ==
  /\ pc = "renewed"
  /\ Patch([copy EXCEPT !.lastSent = now])
  /\ Return
  /\ missed' = 0
  /\ UNCHANGED <<snap, syncErr, finish, am, wire>> /\ Outside

(* A patch from a copy that is no longer current is refused. *)
Conflict ==
  /\ pc \in {"clear", "initial", "ack", "renewed"}
  /\ "reconcile" \notin fresh
  /\ Return
  /\ UNCHANGED <<record, snap, syncErr, fresh, finish, am, wire, missed>> /\ Outside

(* Any other call fails, or the controller restarts. *)
ReconcileStops ==
  /\ pc # "idle"
  /\ Fault
  /\ Return
  /\ fresh' = fresh \ {"reconcile"}
  /\ snap' = NoSnap /\ syncErr' = FALSE
  /\ UNCHANGED <<record, finish, am, wire>> /\ Outside

-----------------------------------------------------------------------------
Change == changes < MaxChanges /\ changes' = changes + 1

(* finishCreation by an attempt or by recovery: a whole-status update that  *)
(* changes only the phase, from a copy read earlier.                        *)
FinishRead ==
  /\ finish = <<>>
  /\ Change
  /\ finish' = <<record>>
  /\ fresh' = fresh \cup {"finish"}
  /\ UNCHANGED <<run, version, record, config, pc, snap, syncErr, copy, am, wire, now, tried, missed>>

(* Wrong on purpose: the status is replaced without the optimistic lock. *)
FinishWriteWithoutLock ==
  /\ finish # <<>>
  /\ record' = finish[1] /\ fresh' = {}
  /\ finish' = <<>>
  /\ UNCHANGED <<pc, snap, syncErr, copy, am, wire, tried, missed>> /\ Outside

FinishWrite ==
  /\ finish # <<>>
  /\ IF "finish" \in fresh
     THEN record' = finish[1] /\ fresh' = {}
     ELSE UNCHANGED <<record, fresh>>   \* conflict
  /\ finish' = <<>>
  /\ UNCHANGED <<pc, snap, syncErr, copy, am, wire, tried, missed>> /\ Outside

-----------------------------------------------------------------------------
(* The environment *)

RunChanges ==
  /\ Change
  /\ run' \in RunStates \ {run}
  /\ version' = version + 1
  /\ UNCHANGED <<record, config, pc, snap, syncErr, copy, fresh, finish, am, wire, now, tried, missed>>

ConfigChanges ==
  /\ MayDisable
  /\ Change
  /\ config' \in {"on", "off", "gone"} \ {config}
  /\ UNCHANGED <<run, version, record, pc, snap, syncErr, copy, fresh, finish, am, wire, now, tried, missed>>

(* A delayed POST arrives after all. *)
LateArrival ==
  /\ \E alert \in wire : am' = [alert EXCEPT !.tracked = FALSE] /\ wire' = wire \ {alert}
  /\ UNCHANGED <<record, pc, snap, syncErr, copy, fresh, finish, tried, missed>> /\ Outside

(* Time passes.  Prompt: not before a reconcile has ended in this unit, as  *)
(* the requeue of a firing record and the backoff of a few failures ensure. *)
Tick ==
  /\ now < MaxTime
  /\ Prompt => tried /\ pc = "idle"
  /\ now' = now + 1
  /\ tried' = FALSE
  /\ UNCHANGED <<run, version, record, config, pc, snap, syncErr, copy, fresh, finish, am, wire, missed, changes>>

ReconcileStep ==
  \/ SyncReadRun \/ SyncReadResult \/ SyncPatch \/ SyncFails
  \/ Decide \/ Clear \/ InitialFiring
  \/ SendAccepted \/ SendFails \/ Acknowledge \/ AcknowledgeRenewal
  \/ Conflict \/ ReconcileStops

Next ==
  \/ ReconcileStep
  \/ FinishRead \/ FinishWrite
  \/ RunChanges \/ ConfigChanges \/ LateArrival \/ Tick

Spec == Init /\ [][Next]_vars

(* Watches and requeues start a Reconcile whenever there is work, time      *)
(* passes and finishCreation ends.  Calls do not fail for ever: MaxMissed.  *)
Fairness == WF_vars(ReconcileStep) /\ WF_vars(FinishWrite) /\ WF_vars(Tick)

FairSpec == Spec /\ Fairness

-----------------------------------------------------------------------------
(* Properties *)

AlertType == [firing : BOOLEAN, startsAt : Nat, endsAt : Nat, tracked : BOOLEAN]

(* The variables keep the shapes the code gives them. *)
TypeOK ==
  /\ run \in RunStates
  /\ version \in Nat
  /\ record \in Status
  /\ config \in {"on", "off", "gone"}
  /\ pc \in PCs
  /\ snap \in [type : Types, action : Actions, version : Nat]
  /\ syncErr \in BOOLEAN
  /\ copy \in Status
  /\ fresh \subseteq {"reconcile", "finish"}
  /\ finish \in Seq(Status)
  /\ am \in AlertType
  /\ wire \subseteq AlertType
  /\ now \in Nat \ {0}
  /\ tried \in BOOLEAN
  /\ missed \in Nat
  /\ changes \in Nat

(* queueActionAlert and the initial notification keep the queue a faithful  *)
(* history: firing and resolved notifications alternate, a resolution ends  *)
(* the period that fired before it, no earlier than one second into it, and *)
(* the newest one tells the action and the period the record holds now.     *)
QueueIsHistory ==
  LET q == record.queue IN
  /\ \A i \in 1 .. Len(q) : ~q[i].firing => q[i].endsAt > q[i].startsAt
  /\ \A i \in 1 .. Len(q) - 1 :
       /\ q[i].firing # q[i + 1].firing
       /\ q[i].firing => q[i + 1].startsAt = q[i].startsAt
  /\ q # <<>> => /\ q[Len(q)].firing = (record.action = "True")
                 /\ q[Len(q)].firing => record.startsAt = q[Len(q)].startsAt
  /\ record.action # "True" => record.startsAt = 0 /\ record.lastSent = 0
  /\ record.startsAt = 0 => record.lastSent = 0

(* Status patches are optimistic and syncHubRunStatus re-reads the run, so  *)
(* the record never returns to an older observation: a late writer cannot   *)
(* restore an action, or a queue, the record has already left.              *)
ObservationsInOrder == [][record'.seen >= record.seen]_vars

(* Once nothing is queued, the external Alertmanager's last word is the     *)
(* record's: it holds the period that fires, or none.  (Not after the       *)
(* configuration was removed, nor after a late POST arrived.)               *)
AlertmanagerAgrees ==
  pc = "idle" /\ am.tracked /\ record.queue = <<>>
    => /\ record.action # "True" => ~am.firing
       /\ record.lastSent # 0 => am.firing /\ am.startsAt = record.startsAt

(* A notification leaves the durable queue only when the Alertmanager holds *)
(* it, or because the configuration was removed: crashes, conflicts and     *)
(* lost answers repeat a delivery but never skip one.                       *)
NothingSkipped ==
  [][Len(record'.queue) < Len(record.queue)
       => \/ pc = "clear"
          \/ ~am.tracked
          \/ /\ record'.queue = Tail(record.queue)
             /\ am.firing = Head(record.queue).firing
             /\ am.startsAt = Head(record.queue).startsAt]_vars

(* A record that remains True is renewed in time: once its alert was        *)
(* delivered, the Alertmanager does not let it expire.                      *)
NoLapse ==
  record.queue = <<>> /\ record.action = "True" /\ record.lastSent # 0 /\ am.tracked
    => am.firing /\ now < am.endsAt

(* In the end the record shows what the run asks for, every notification    *)
(* was delivered, and the Alertmanager agrees.                              *)
EventuallyAgrees ==
  /\ <>[](config = "on" => record.queue = <<>>)
  /\ <>[](config = "on" /\ run.action # "missing" =>
           /\ run.type = "Analyzed" => record.action = run.action
           /\ run.type \notin {"", "gone", "Analyzed"} => record.action = "False"
           /\ am.tracked => (am.firing <=> record.action = "True"))
=============================================================================
