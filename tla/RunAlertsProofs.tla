-------------------------- MODULE RunAlertsProofs --------------------------
(* Proofs about RunAlerts, for any states of the hub, intervals and bounds. *)
EXTENDS RunAlerts, TLAPS

-----------------------------------------------------------------------------
(* Types *)

LEMMA NotificationTypes ==
  ASSUME NEW s \in Nat, NEW e \in Nat
  PROVE  Firing(s) \in Notification /\ Resolved(s, e) \in Notification
  BY DEF Firing, Resolved, Notification

(* A status with an alert field replaced is a status. *)
LEMMA StatusUpdate ==
  ASSUME NEW st \in Status
  PROVE  /\ \A t \in Types, a \in Actions : [st EXCEPT !.type = t, !.action = a] \in Status
         /\ \A q \in Seq(Notification), s \in Nat, l \in Nat :
              /\ [st EXCEPT !.queue = q, !.startsAt = s, !.lastSent = l] \in Status
              /\ [st EXCEPT !.startsAt = s, !.lastSent = l, !.queue = q] \in Status
              /\ [st EXCEPT !.startsAt = s, !.queue = q] \in Status
              /\ [st EXCEPT !.queue = q, !.lastSent = l] \in Status
         /\ \A l \in Nat : [st EXCEPT !.lastSent = l] \in Status
         /\ \A v \in Nat : [st EXCEPT !.seen = v] \in Status
  BY DEF Status

LEMMA StatusTypes ==
  NewStatus \in Status /\ OldStatus \in Status
<1>1. "" \in Types /\ "Analyzed" \in Types /\ "" \in Actions /\ "True" \in Actions BY DEF Types, Actions
<1>2. <<>> \in Seq(Notification) OBVIOUS
<1>3. NewStatus \in Status BY <1>1, <1>2 DEF NewStatus, Status
<1> QED BY <1>1, <1>3, StatusUpdate DEF OldStatus

LEMMA QueueActionAlertType ==
  ASSUME NEW old \in Status, NEW new \in Status, now \in Nat
  PROVE  QueueActionAlert(old, new) \in Status
<1> DEFINE s == IF new.startsAt # 0 THEN new.startsAt ELSE now
           e == IF now > s THEN now ELSE s + 1
<1>1. s \in Nat /\ e \in Nat /\ new.queue \in Seq(Notification) BY DEF Status
<1>2. Append(new.queue, Firing(now)) \in Seq(Notification) /\ Append(new.queue, Resolved(s, e)) \in Seq(Notification)
  BY <1>1, NotificationTypes
<1>3. /\ [new EXCEPT !.startsAt = now, !.lastSent = 0, !.queue = Append(new.queue, Firing(now))] \in Status
      /\ [new EXCEPT !.startsAt = 0, !.lastSent = 0, !.queue = Append(new.queue, Resolved(s, e))] \in Status
  BY <1>2, StatusUpdate
<1> QED BY <1>3 DEF QueueActionAlert

(* What syncHubRunStatus computes is a status. *)
LEMMA SyncedType ==
  ASSUME NEW old \in Status, now \in Nat, snap \in [type : Types, action : Actions, version : Nat]
  PROVE  Synced(old) \in Status
<1> DEFINE new == [old EXCEPT !.type = snap.type,
                              !.action = IF snap.type = "Analyzed" THEN snap.action ELSE "False"]
<1>1. new \in Status
  <2>1. snap.type \in Types /\ snap.action \in Actions /\ "False" \in Actions BY DEF Actions
  <2> QED BY <2>1, StatusUpdate
<1>2. QueueActionAlert(old, new) \in Status BY <1>1, QueueActionAlertType
<1>3. [QueueActionAlert(old, new) EXCEPT !.seen = snap.version] \in Status BY <1>2, StatusUpdate
<1> QED BY <1>3 DEF Synced

LEMMA PostedType ==
  ASSUME NEW event \in Notification, now \in Nat
  PROVE  Posted(event) \in AlertType
  BY BoundsAssumption DEF Posted, Notification, AlertType

LEMMA EventType ==
  ASSUME copy \in Status, pc = "send" => copy.queue # <<>>
  PROVE  Event \in Notification
<1>1. CASE pc = "send" BY <1>1 DEF Event, Status
<1>2. CASE pc # "send" BY <1>2, NotificationTypes DEF Event, Status
<1> QED BY <1>1, <1>2

-----------------------------------------------------------------------------
(* What the rest of Reconcile may rely on *)

(* The program counters that hold a copy of the record. *)
Working == {"clear", "initial", "send", "renew", "ack", "renewed"}

(* Whoever still holds the current version holds what is stored. *)
CopiesCurrent ==
  /\ pc \in Working => copy = record
  /\ "finish" \in fresh => finish = <<record>>

(* The record still asks for the task that Reconcile chose. *)
TaskStands ==
  /\ pc = "initial" => record.action = "True" /\ record.startsAt = 0
  /\ pc \in {"send", "ack"} => record.queue # <<>>
  /\ pc \in {"renew", "renewed"} => record.action = "True" /\ record.startsAt # 0 /\ record.queue = <<>>

(* QueueIsHistory of any status, and every firing period has a start. *)
Alternates(q) ==
  \A i \in 1 .. Len(q) - 1 :
    /\ q[i].firing # q[i + 1].firing
    /\ q[i].firing => q[i + 1].startsAt = q[i].startsAt

Dated(q) ==
  \A i \in 1 .. Len(q) :
    /\ q[i].firing => q[i].startsAt # 0
    /\ ~q[i].firing => q[i].endsAt > q[i].startsAt

NewestTells(st) ==
  st.queue # <<>> => /\ st.queue[Len(st.queue)].firing = (st.action = "True")
                     /\ st.queue[Len(st.queue)].firing => st.startsAt = st.queue[Len(st.queue)].startsAt

PeriodOnlyIfTrue(st) ==
  /\ st.action # "True" => st.startsAt = 0 /\ st.lastSent = 0
  /\ st.startsAt = 0 => st.lastSent = 0

History(st) == Alternates(st.queue) /\ Dated(st.queue) /\ NewestTells(st) /\ PeriodOnlyIfTrue(st)

(* The Alertmanager holds what Reconcile has just posted. *)
Delivered ==
  /\ pc = "ack" /\ am.tracked => /\ am.firing = Head(record.queue).firing
                                 /\ am.startsAt = Head(record.queue).startsAt
  /\ pc = "renewed" /\ am.tracked => am.firing /\ am.startsAt = record.startsAt

(* AlertmanagerAgrees also while Reconcile runs. *)
LastWordAgrees ==
  am.tracked /\ record.queue = <<>>
    => /\ record.action # "True" => ~am.firing
       /\ record.lastSent # 0 => am.firing /\ am.startsAt = record.startsAt

(* Observations are of the past, and newer than the record's. *)
ObservedInOrder ==
  /\ record.seen <= version
  /\ pc \in {"result", "patch"} => record.seen <= snap.version /\ snap.version <= version

DeliveryInv ==
  CopiesCurrent /\ TaskStands /\ History(record) /\ Delivered /\ LastWordAgrees /\ ObservedInOrder

-----------------------------------------------------------------------------
(* TypeOK, CopiesCurrent and TaskStands are inductive together: the head of *)
(* the queue is a notification because the queue is not empty.              *)

LEMMA TypeInit == Init => TypeOK /\ CopiesCurrent /\ TaskStands
<1> SUFFICES ASSUME Init PROVE TypeOK /\ CopiesCurrent /\ TaskStands OBVIOUS
<1>1. record \in Status /\ copy \in Status BY StatusTypes DEF Init
<1>2. snap \in [type : Types, action : Actions, version : Nat] BY DEF Init, NoSnap, Types, Actions
<1>3. am \in AlertType BY DEF Init, NoAlert, AlertType
<1>4. finish \in Seq(Status) BY DEF Init
<1>5. tried \in BOOLEAN /\ syncErr \in BOOLEAN BY DEF Init
<1>6. TypeOK
  <2>1. /\ run \in RunStates /\ version = 0 /\ config = "on" /\ pc = "idle" /\ fresh = {} /\ wire = {}
        /\ now = 1 /\ missed = 0 /\ changes = 0
    BY DEF Init
  <2> QED BY <1>1, <1>2, <1>3, <1>4, <1>5, <2>1 DEF TypeOK, PCs
<1> QED BY <1>6 DEF Init, CopiesCurrent, TaskStands, Working

LEMMA NoSnapType == NoSnap \in [type : Types, action : Actions, version : Nat]
  BY DEF NoSnap, Types, Actions

(* The steps of a synchronization, up to its patch. *)
LEMMA SyncStep ==
  ASSUME TypeOK, CopiesCurrent, TaskStands,
         SyncReadRun \/ SyncReadResult \/ SyncFails \/ SyncPatch
  PROVE  TypeOK' /\ CopiesCurrent' /\ TaskStands'
<1> USE DEF TypeOK, CopiesCurrent, TaskStands, PCs, Working, Outside
<1>0. run.type \in Types /\ run.action \in Actions \cup {"missing"}
  BY RunStatesAssumption DEF Types
<1>1. CASE SyncReadRun
  <2>1. snap' \in [type : Types, action : Actions, version : Nat] BY <1>0, <1>1 DEF SyncReadRun, Actions
  <2> QED BY <1>1, <2>1 DEF SyncReadRun
<1>2. CASE SyncReadResult
  <2>1. snap' \in [type : Types, action : Actions, version : Nat] BY <1>0, <1>2 DEF SyncReadResult
  <2> QED BY <1>2, <2>1 DEF SyncReadResult
<1>3. CASE SyncFails BY <1>3, BoundsAssumption DEF SyncFails, Fault
<1>4. CASE SyncPatch
  <2>1. record' \in Status BY <1>4, SyncedType DEF SyncPatch
  <2> QED BY <1>4, <2>1 DEF SyncPatch
<1> QED BY <1>1, <1>2, <1>3, <1>4

(* What Decide chooses is what TaskStands asks for. *)
LEMMA DecideStep ==
  ASSUME TypeOK, CopiesCurrent, TaskStands, Decide
  PROVE  TypeOK' /\ CopiesCurrent' /\ TaskStands'
<1> DEFINE t == NextTask(record)
<1>1. /\ t \in {"idle", "clear", "initial", "send", "renew"}
      /\ t = "initial" => record.action = "True" /\ record.startsAt = 0
      /\ t = "send" => record.queue # <<>>
      /\ t = "renew" => record.action = "True" /\ record.startsAt # 0 /\ record.queue = <<>>
  BY DEF NextTask
<1>2. NewStatus \in Status BY StatusTypes
<1> HIDE DEF t
<1>3. CASE t = "idle"
  BY <1>2, <1>3, NoSnapType DEF Decide, Return, Outside, TypeOK, CopiesCurrent, TaskStands, PCs, Working, t
<1>4. CASE t # "idle"
  BY <1>1, <1>4, NoSnapType DEF Decide, Outside, TypeOK, CopiesCurrent, TaskStands, PCs, Working, t
<1> QED BY <1>3, <1>4

(* The steps that end a Reconcile with a patch. *)
LEMMA PatchStep ==
  ASSUME TypeOK, CopiesCurrent, TaskStands,
         Clear \/ InitialFiring \/ Acknowledge \/ AcknowledgeRenewal
  PROVE  TypeOK' /\ CopiesCurrent' /\ TaskStands'
<1>0. NewStatus \in Status BY StatusTypes
<1> DEFINE Rest == /\ pc' = "idle" /\ copy' = NewStatus /\ tried' = TRUE /\ fresh' = {}
                   /\ UNCHANGED <<run, version, config, now, changes, snap, syncErr, finish, wire>>
                   /\ missed' \in Nat
<1>1. ASSUME Rest, record' \in Status, am' \in AlertType PROVE TypeOK' /\ CopiesCurrent' /\ TaskStands'
  BY <1>0, <1>1 DEF TypeOK, CopiesCurrent, TaskStands, PCs, Working
<1>2. CASE Clear
  <2>1. [copy EXCEPT !.queue = <<>>, !.startsAt = 0, !.lastSent = 0] \in Status
    <3>1. <<>> \in Seq(Notification) OBVIOUS
    <3> QED BY <3>1, StatusUpdate DEF TypeOK
  <2>2. [am EXCEPT !.tracked = FALSE] \in AlertType BY DEF TypeOK, AlertType
  <2>3. Rest BY <1>2 DEF Clear, Patch, Return, Outside, TypeOK
  <2> QED BY <1>1, <1>2, <2>1, <2>2, <2>3 DEF Clear, Patch
<1>3. CASE InitialFiring
  <2>1. Append(copy.queue, Firing(now)) \in Seq(Notification) BY NotificationTypes DEF TypeOK, Status
  <2>2. [copy EXCEPT !.startsAt = now, !.queue = Append(copy.queue, Firing(now))] \in Status
    BY <2>1, StatusUpdate DEF TypeOK
  <2>3. Rest BY <1>3 DEF InitialFiring, Patch, Return, Outside, TypeOK
  <2> QED BY <1>1, <1>3, <2>2, <2>3 DEF InitialFiring, Patch, TypeOK
<1>4. CASE Acknowledge
  <2>1. copy.queue # <<>> /\ copy.queue \in Seq(Notification) /\ copy.lastSent \in Nat
    BY <1>4 DEF Acknowledge, CopiesCurrent, TaskStands, Working, TypeOK, Status
  <2>2. Tail(copy.queue) \in Seq(Notification) BY <2>1
  <2>3. \A l \in Nat : [copy EXCEPT !.queue = Tail(copy.queue), !.lastSent = l] \in Status
    BY <2>2, StatusUpdate DEF TypeOK
  <2>4. record' \in Status BY <1>4, <2>1, <2>3 DEF Acknowledge, Patch, TypeOK
  <2>5. Rest BY <1>4 DEF Acknowledge, Patch, Return, Outside
  <2> QED BY <1>1, <1>4, <2>4, <2>5 DEF Acknowledge, TypeOK
<1>5. CASE AcknowledgeRenewal
  <2>1. [copy EXCEPT !.lastSent = now] \in Status BY StatusUpdate DEF TypeOK
  <2>2. Rest BY <1>5 DEF AcknowledgeRenewal, Patch, Return, Outside
  <2> QED BY <1>1, <1>5, <2>1, <2>2 DEF AcknowledgeRenewal, Patch, TypeOK
<1> QED BY <1>2, <1>3, <1>4, <1>5

(* The steps that post an alert, and those that give up. *)
LEMMA PostStep ==
  ASSUME TypeOK, CopiesCurrent, TaskStands,
         SendAccepted \/ SendFails \/ Conflict \/ ReconcileStops
  PROVE  TypeOK' /\ CopiesCurrent' /\ TaskStands'
<1>0. NewStatus \in Status BY StatusTypes
<1>1. pc \in {"send", "renew"} => Posted(Event) \in AlertType
  <2>1. pc = "send" => copy.queue # <<>> BY DEF CopiesCurrent, TaskStands, Working
  <2> QED BY <2>1, EventType, PostedType DEF TypeOK
<1>2. CASE SendAccepted
  BY <1>1, <1>2 DEF SendAccepted, Outside, TypeOK, CopiesCurrent, TaskStands, PCs, Working
<1>3. CASE SendFails
  <2>1. am' \in AlertType /\ wire' \subseteq AlertType BY <1>1, <1>3 DEF SendFails, TypeOK
  <2> QED BY <1>0, <1>3, <2>1
    DEF SendFails, Fault, Return, Outside, TypeOK, CopiesCurrent, TaskStands, PCs, Working
<1>4. CASE Conflict
  BY <1>0, <1>4 DEF Conflict, Return, Outside, TypeOK, CopiesCurrent, TaskStands, PCs, Working
<1>5. CASE ReconcileStops
  <2>1. tried' \in BOOLEAN /\ syncErr' \in BOOLEAN BY <1>5 DEF ReconcileStops, Return
  <2>2. /\ pc' = "idle" /\ copy' = NewStatus /\ fresh' = fresh \ {"reconcile"} /\ snap' = NoSnap
        /\ missed' = missed + 1
        /\ UNCHANGED <<run, version, record, config, finish, am, wire, now, changes>>
    BY <1>5 DEF ReconcileStops, Fault, Return, Outside
  <2> QED BY <1>0, <2>1, <2>2, NoSnapType DEF TypeOK, CopiesCurrent, TaskStands, PCs, Working
<1> QED BY <1>2, <1>3, <1>4, <1>5

(* finishCreation and the environment. *)
LEMMA OtherStep ==
  ASSUME TypeOK, CopiesCurrent, TaskStands,
         FinishRead \/ FinishWrite \/ RunChanges \/ ConfigChanges \/ LateArrival \/ Tick \/ UNCHANGED vars
  PROVE  TypeOK' /\ CopiesCurrent' /\ TaskStands'
<1>1. CASE FinishRead
  <2>1. finish' \in Seq(Status) BY <1>1 DEF FinishRead, TypeOK
  <2> QED BY <1>1, <2>1 DEF FinishRead, Change, TypeOK, CopiesCurrent, TaskStands
<1>2. CASE FinishWrite
  <2>1. record' = record BY <1>2 DEF FinishWrite, CopiesCurrent
  <2>2. finish' \in Seq(Status) BY <1>2 DEF FinishWrite
  <2> QED BY <1>2, <2>1, <2>2 DEF FinishWrite, Outside, TypeOK, CopiesCurrent, TaskStands
<1>3. CASE RunChanges BY <1>3 DEF RunChanges, Change, TypeOK, CopiesCurrent, TaskStands
<1>4. CASE ConfigChanges BY <1>4 DEF ConfigChanges, Change, TypeOK, CopiesCurrent, TaskStands
<1>5. CASE LateArrival
  <2>1. \A alert \in AlertType : [alert EXCEPT !.tracked = FALSE] \in AlertType BY DEF AlertType
  <2>2. am' \in AlertType /\ wire' \subseteq AlertType BY <1>5, <2>1 DEF LateArrival, TypeOK
  <2> QED BY <1>5, <2>2 DEF LateArrival, Outside, TypeOK, CopiesCurrent, TaskStands
<1>6. CASE Tick
  <2>1. now' = now + 1 /\ tried' \in BOOLEAN BY <1>6 DEF Tick
  <2>2. UNCHANGED <<run, version, record, config, pc, snap, syncErr, copy, fresh, finish, am, wire, missed, changes>>
    BY <1>6 DEF Tick
  <2> QED BY <2>1, <2>2 DEF TypeOK, CopiesCurrent, TaskStands
<1>7. CASE UNCHANGED vars BY <1>7 DEF vars, TypeOK, CopiesCurrent, TaskStands
<1> QED BY <1>1, <1>2, <1>3, <1>4, <1>5, <1>6, <1>7

LEMMA TypeStep ==
  ASSUME TypeOK, CopiesCurrent, TaskStands, [Next]_vars
  PROVE  TypeOK' /\ CopiesCurrent' /\ TaskStands'
  BY SyncStep, DecideStep, PatchStep, PostStep, OtherStep DEF Next, ReconcileStep

(* The type invariant holds in every reachable state, for any states of the *)
(* hub and any bounds: in particular Reconcile never takes the head of an   *)
(* empty queue, although the queue it looked at is re-read from the API.    *)
THEOREM TypeCorrect == Spec => []TypeOK
<1>1. TypeOK /\ CopiesCurrent /\ TaskStands /\ [Next]_vars => (TypeOK /\ CopiesCurrent /\ TaskStands)'
  BY TypeStep
<1> QED BY <1>1, TypeInit, PTL DEF Spec

-----------------------------------------------------------------------------
(* The queue as a history *)

(* A notification that continues the last one keeps the history. *)
LEMMA AppendKeeps ==
  ASSUME NEW q \in Seq(Notification), NEW n \in Notification,
         Alternates(q), Dated(q),
         n.firing => n.startsAt # 0,
         ~n.firing => n.endsAt > n.startsAt,
         q # <<>> => /\ q[Len(q)].firing # n.firing
                     /\ q[Len(q)].firing => n.startsAt = q[Len(q)].startsAt
  PROVE  Alternates(Append(q, n)) /\ Dated(Append(q, n))
<1> DEFINE r == Append(q, n)
<1>1. r \in Seq(Notification) /\ Len(r) = Len(q) + 1 /\ r[Len(q) + 1] = n /\ \A i \in 1 .. Len(q) : r[i] = q[i]
  OBVIOUS
<1> HIDE DEF r
<1>2. Dated(r)
  <2> SUFFICES ASSUME NEW i \in 1 .. Len(r)
               PROVE  (r[i].firing => r[i].startsAt # 0) /\ (~r[i].firing => r[i].endsAt > r[i].startsAt)
    BY DEF Dated
  <2>1. CASE i = Len(q) + 1 BY <1>1, <2>1
  <2>2. CASE i \in 1 .. Len(q) BY <1>1, <2>2 DEF Dated
  <2> QED BY <1>1, <2>1, <2>2
<1>3. Alternates(r)
  <2> SUFFICES ASSUME NEW i \in 1 .. Len(r) - 1
               PROVE  r[i].firing # r[i + 1].firing /\ (r[i].firing => r[i + 1].startsAt = r[i].startsAt)
    BY DEF Alternates
  <2>1. CASE i = Len(q)
    <3>1. q # <<>> /\ r[i] = q[Len(q)] /\ r[i + 1] = n BY <1>1, <2>1
    <3> QED BY <3>1
  <2>2. CASE i \in 1 .. Len(q) - 1
    <3>1. r[i] = q[i] /\ r[i + 1] = q[i + 1] BY <1>1, <2>2
    <3> QED BY <2>2, <3>1 DEF Alternates
  <2> QED BY <1>1, <2>1, <2>2
<1> QED BY <1>2, <1>3 DEF r

(* So does the removal of the oldest one. *)
LEMMA TailKeeps ==
  ASSUME NEW q \in Seq(Notification), q # <<>>, Alternates(q), Dated(q)
  PROVE  /\ Alternates(Tail(q)) /\ Dated(Tail(q))
         /\ Tail(q) # <<>> => Tail(q)[Len(Tail(q))] = q[Len(q)]
         /\ Tail(q) = <<>> => Head(q) = q[Len(q)]
<1> DEFINE r == Tail(q)
<1>1. r \in Seq(Notification) /\ Len(r) = Len(q) - 1 /\ \A i \in 1 .. Len(r) : r[i] = q[i + 1]
  OBVIOUS
<1>2. Head(q) = q[1] /\ Len(q) \in Nat /\ Len(q) # 0 OBVIOUS
<1> HIDE DEF r
<1>3. Dated(r) BY <1>1, <1>2 DEF Dated
<1>4. Alternates(r)
  <2> SUFFICES ASSUME NEW i \in 1 .. Len(r) - 1
               PROVE  r[i].firing # r[i + 1].firing /\ (r[i].firing => r[i + 1].startsAt = r[i].startsAt)
    BY DEF Alternates
  <2>1. r[i] = q[i + 1] /\ r[i + 1] = q[(i + 1) + 1] /\ i + 1 \in 1 .. Len(q) - 1 BY <1>1, <1>2
  <2> QED BY <2>1 DEF Alternates
<1>5. r # <<>> => r[Len(r)] = q[Len(q)]
  <2> SUFFICES ASSUME r # <<>> PROVE r[Len(r)] = q[Len(q)] OBVIOUS
  <2>1. Len(r) \in 1 .. Len(r) BY <1>1
  <2>2. r[Len(r)] = q[Len(r) + 1] BY <1>1, <2>1
  <2> QED BY <1>1, <1>2, <2>2
<1>6. r = <<>> => Head(q) = q[Len(q)]
  <2> SUFFICES ASSUME r = <<>> PROVE Head(q) = q[Len(q)] OBVIOUS
  <2>1. Len(r) = 0 OBVIOUS
  <2>2. Len(q) = 1 BY <1>1, <1>2, <2>1
  <2> QED BY <1>2, <2>2
<1> QED BY <1>3, <1>4, <1>5, <1>6 DEF r

(* queueActionAlert keeps the history. *)
LEMMA QueueActionAlertKeeps ==
  ASSUME NEW old \in Status, NEW new \in Status, now \in Nat \ {0}, History(old),
         new.queue = old.queue, new.startsAt = old.startsAt, new.lastSent = old.lastSent
  PROVE  LET st == QueueActionAlert(old, new)
         IN  History(st) /\ st.action = new.action
<1> DEFINE st == QueueActionAlert(old, new)
           q == old.queue
<1>0. q \in Seq(Notification) /\ new.startsAt \in Nat /\ q = new.queue BY DEF Status
<1>1. CASE new.action = old.action \/ (new.action # "True" /\ old.action # "True")
  <2>1. st = new BY <1>1 DEF QueueActionAlert
  <2> QED BY <1>1, <2>1 DEF History, NewestTells, PeriodOnlyIfTrue
<1>2. CASE new.action # old.action /\ new.action = "True"
  <2>1. st = [new EXCEPT !.startsAt = now, !.lastSent = 0, !.queue = Append(q, Firing(now))]
    BY <1>0, <1>2 DEF QueueActionAlert
  <2>2. /\ st.action = "True" /\ st.startsAt = now /\ st.lastSent = 0 /\ st.queue = Append(q, Firing(now))
        /\ st.action = new.action
    BY <1>2, <2>1 DEF Status
  <2>3. Firing(now) \in Notification /\ Firing(now).firing = TRUE /\ Firing(now).startsAt = now
    BY NotificationTypes DEF Firing
  <2>4. q # <<>> => q[Len(q)].firing = FALSE
    <3>1. old.action # "True" BY <1>2
    <3>2. q # <<>> => q[Len(q)] \in Notification BY <1>0
    <3> QED BY <3>1, <3>2 DEF History, NewestTells, Notification
  <2>5. Alternates(Append(q, Firing(now))) /\ Dated(Append(q, Firing(now)))
    BY <1>0, <2>3, <2>4, AppendKeeps DEF History
  <2>6. Append(q, Firing(now))[Len(Append(q, Firing(now)))] = Firing(now) BY <1>0, <2>3
  <2>7. NewestTells(st) BY <2>2, <2>3, <2>6 DEF NewestTells
  <2>8. PeriodOnlyIfTrue(st) BY <2>2 DEF PeriodOnlyIfTrue
  <2> QED BY <2>2, <2>5, <2>7, <2>8 DEF History
<1>3. CASE new.action # "True" /\ old.action = "True"
  <2> DEFINE s == IF new.startsAt # 0 THEN new.startsAt ELSE now
             e == IF now > s THEN now ELSE s + 1
  <2>1. st = [new EXCEPT !.startsAt = 0, !.lastSent = 0, !.queue = Append(q, Resolved(s, e))]
    BY <1>0, <1>3 DEF QueueActionAlert
  <2>0. s \in Nat /\ e \in Nat /\ e > s /\ (new.startsAt # 0 => s = new.startsAt) BY <1>0
  <2> HIDE DEF s, e
  <2>2. /\ st.action # "True" /\ st.startsAt = 0 /\ st.lastSent = 0 /\ st.queue = Append(q, Resolved(s, e))
        /\ st.action = new.action
    BY <1>3, <2>1 DEF Status
  <2>3. /\ Resolved(s, e) \in Notification /\ Resolved(s, e).firing = FALSE
        /\ Resolved(s, e).startsAt = s /\ Resolved(s, e).endsAt = e
    BY <2>0, NotificationTypes DEF Resolved
  <2>4. q # <<>> => q[Len(q)].firing = TRUE /\ q[Len(q)].startsAt = s
    <3> SUFFICES ASSUME q # <<>> PROVE q[Len(q)].firing = TRUE /\ q[Len(q)].startsAt = s OBVIOUS
    <3>1. Len(q) \in 1 .. Len(q) /\ q[Len(q)] \in Notification BY <1>0
    <3>2. q[Len(q)].firing = TRUE /\ old.startsAt = q[Len(q)].startsAt BY <1>3, <3>1 DEF History, NewestTells
    <3>3. q[Len(q)].startsAt # 0 BY <3>1, <3>2 DEF History, Dated
    <3> QED BY <2>0, <3>2, <3>3
  <2>5. Alternates(Append(q, Resolved(s, e))) /\ Dated(Append(q, Resolved(s, e)))
    BY <1>0, <2>0, <2>3, <2>4, AppendKeeps DEF History
  <2>6. Append(q, Resolved(s, e))[Len(Append(q, Resolved(s, e)))] = Resolved(s, e) BY <1>0, <2>3
  <2>7. NewestTells(st) BY <2>2, <2>3, <2>6 DEF NewestTells
  <2>8. PeriodOnlyIfTrue(st) BY <2>2 DEF PeriodOnlyIfTrue
  <2> QED BY <2>2, <2>5, <2>7, <2>8 DEF History
<1> QED BY <1>1, <1>2, <1>3

(* queueActionAlert appends a notification, or has nothing to tell. *)
LEMMA QueueActionAlertGrows ==
  ASSUME NEW old \in Status, NEW new \in Status, now \in Nat
  PROVE  LET st == QueueActionAlert(old, new)
         IN  \/ st = new /\ (new.action = "True" <=> old.action = "True")
             \/ Len(st.queue) = Len(new.queue) + 1
<1> DEFINE st == QueueActionAlert(old, new)
<1>0. new.queue \in Seq(Notification) BY DEF Status
<1>1. CASE new.action = old.action \/ (new.action # "True" /\ old.action # "True")
  BY <1>1 DEF QueueActionAlert
<1>2. CASE new.action # old.action /\ (new.action = "True" \/ old.action = "True")
  <2>1. PICK n \in Notification : st.queue = Append(new.queue, n)
    <3>1. CASE new.action = "True"
      <4>1. st = [new EXCEPT !.startsAt = now, !.lastSent = 0, !.queue = Append(new.queue, Firing(now))]
        BY <1>2, <3>1 DEF QueueActionAlert
      <4>2. st.queue = Append(new.queue, Firing(now)) BY <4>1 DEF Status
      <4> QED BY <4>2, NotificationTypes
    <3>2. CASE new.action # "True"
      <4> DEFINE s == IF new.startsAt # 0 THEN new.startsAt ELSE now
                 e == IF now > s THEN now ELSE s + 1
      <4>1. st = [new EXCEPT !.startsAt = 0, !.lastSent = 0, !.queue = Append(new.queue, Resolved(s, e))]
        BY <1>2, <3>2 DEF QueueActionAlert
      <4>2. s \in Nat /\ e \in Nat BY DEF Status
      <4> HIDE DEF s, e
      <4>3. st.queue = Append(new.queue, Resolved(s, e)) BY <4>1 DEF Status
      <4> QED BY <4>2, <4>3, NotificationTypes
    <3> QED BY <3>1, <3>2
  <2> QED BY <1>0, <2>1
<1> QED BY <1>1, <1>2

(* What a synchronization does to a status: it keeps the history, notes the *)
(* version it saw, and queues what it changes.                              *)
LEMMA SyncedKeeps ==
  ASSUME NEW old \in Status, now \in Nat \ {0}, snap \in [type : Types, action : Actions, version : Nat],
         History(old)
  PROVE  LET st == Synced(old)
         IN  /\ History(st)
             /\ st = old \/ st.seen = snap.version
             /\ Len(st.queue) >= Len(old.queue)
             /\ st.queue = <<>> => /\ old.queue = <<>>
                                   /\ st.startsAt = old.startsAt /\ st.lastSent = old.lastSent
                                   /\ st.action = "True" <=> old.action = "True"
<1> DEFINE new == [old EXCEPT !.type = snap.type,
                              !.action = IF snap.type = "Analyzed" THEN snap.action ELSE "False"]
           mid == QueueActionAlert(old, new)
           st == Synced(old)
<1>0. old.queue \in Seq(Notification) /\ Len(old.queue) \in Nat BY DEF Status
<1>1. CASE st = old BY <1>0, <1>1
<1>2. CASE st # old
  <2>1. st = [mid EXCEPT !.seen = snap.version] BY <1>2 DEF Synced
  <2>2. new \in Status
    <3>1. snap.type \in Types /\ snap.action \in Actions /\ "False" \in Actions BY DEF Actions
    <3> QED BY <3>1, StatusUpdate
  <2>3. new.queue = old.queue /\ new.startsAt = old.startsAt /\ new.lastSent = old.lastSent BY DEF Status
  <2> HIDE DEF new
  <2>4. History(mid) BY <2>2, <2>3, QueueActionAlertKeeps
  <2>5. mid \in Status BY <2>2, QueueActionAlertType
  <2>6. \/ mid = new /\ (new.action = "True" <=> old.action = "True")
        \/ Len(mid.queue) = Len(old.queue) + 1
    BY <2>2, <2>3, QueueActionAlertGrows
  <2> HIDE DEF mid, st
  <2>7. /\ st.queue = mid.queue /\ st.startsAt = mid.startsAt /\ st.lastSent = mid.lastSent
        /\ st.action = mid.action /\ st.seen = snap.version
    BY <2>1, <2>5 DEF Status
  <2>8. History(st) BY <2>4, <2>7 DEF History, NewestTells, PeriodOnlyIfTrue
  <2>9. CASE mid = new /\ (new.action = "True" <=> old.action = "True")
    BY <1>0, <2>3, <2>7, <2>8, <2>9 DEF st
  <2>10. CASE Len(mid.queue) = Len(old.queue) + 1
    <3>1. Len(st.queue) # 0 /\ Len(st.queue) >= Len(old.queue) BY <1>0, <2>7, <2>10
    <3>2. st.queue # <<>> BY <3>1
    <3> QED BY <2>7, <2>8, <3>1, <3>2 DEF st
  <2> QED BY <2>6, <2>9, <2>10
<1> QED BY <1>1, <1>2

(* An action change takes back the time of the last delivery. *)
LEMMA SyncedSent ==
  ASSUME NEW old \in Status, now \in Nat, snap \in [type : Types, action : Actions, version : Nat]
  PROVE  Synced(old).lastSent \in {old.lastSent, 0}
<1> DEFINE new == [old EXCEPT !.type = snap.type,
                              !.action = IF snap.type = "Analyzed" THEN snap.action ELSE "False"]
           mid == QueueActionAlert(old, new)
<1>1. new \in Status /\ new.lastSent = old.lastSent
  <2>1. snap.type \in Types /\ snap.action \in Actions /\ "False" \in Actions BY DEF Actions
  <2> QED BY <2>1, StatusUpdate DEF Status
<1> HIDE DEF new
<1>2. mid.lastSent \in {old.lastSent, 0} BY <1>1 DEF QueueActionAlert, Status
<1>3. mid \in Status BY <1>1, QueueActionAlertType
<1> HIDE DEF mid
<1>4. [mid EXCEPT !.seen = snap.version].lastSent = mid.lastSent BY <1>3 DEF Status
<1> QED BY <1>2, <1>4 DEF Synced, mid, new

-----------------------------------------------------------------------------
(* What a step does to the record: finishCreation rewrites what is stored,  *)
(* so that only Reconcile ever changes it.                                  *)
LEMMA RecordMoves ==
  ASSUME CopiesCurrent, [Next]_vars
  PROVE  \/ record' = record
         \/ SyncPatch
         \/ copy = record /\ (Clear \/ InitialFiring \/ Acknowledge \/ AcknowledgeRenewal)
<1>1. CASE FinishRead \/ RunChanges \/ ConfigChanges \/ LateArrival \/ Tick \/ UNCHANGED vars
  BY <1>1 DEF FinishRead, RunChanges, ConfigChanges, LateArrival, Tick, vars
<1>2. CASE FinishWrite BY <1>2 DEF FinishWrite, CopiesCurrent
<1>3. CASE SyncReadRun \/ SyncReadResult \/ SyncFails \/ Decide \/ SendAccepted \/ SendFails \/ Conflict \/ ReconcileStops
  BY <1>3 DEF SyncReadRun, SyncReadResult, SyncFails, Decide, SendAccepted, SendFails, Conflict, ReconcileStops
<1>4. CASE Clear \/ InitialFiring \/ Acknowledge \/ AcknowledgeRenewal
  BY <1>4 DEF Clear, InitialFiring, Acknowledge, AcknowledgeRenewal, CopiesCurrent, Working
<1> QED BY <1>1, <1>2, <1>3, <1>4 DEF Next, ReconcileStep

(* The record of a new run and of an older release have nothing to deliver. *)
LEMMA FirstStatus ==
  ASSUME NEW st \in {NewStatus, OldStatus}
  PROVE  st.queue = <<>> /\ st.startsAt = 0 /\ st.lastSent = 0 /\ st.seen = 0
<1>1. NewStatus.queue = <<>> /\ NewStatus.startsAt = 0 /\ NewStatus.lastSent = 0 /\ NewStatus.seen = 0
  BY DEF NewStatus
<1>2. /\ OldStatus.queue = NewStatus.queue /\ OldStatus.startsAt = NewStatus.startsAt
      /\ OldStatus.lastSent = NewStatus.lastSent /\ OldStatus.seen = NewStatus.seen
  BY StatusTypes DEF OldStatus, Status
<1> QED BY <1>1, <1>2

LEMMA HistoryInit == Init => History(record)
<1> SUFFICES ASSUME Init PROVE History(record) OBVIOUS
<1>1. record.queue = <<>> /\ record.startsAt = 0 /\ record.lastSent = 0 BY FirstStatus DEF Init
<1> QED BY <1>1 DEF History, Alternates, Dated, NewestTells, PeriodOnlyIfTrue

(* The four patches of Reconcile keep the history. *)
LEMMA HistoryStep ==
  ASSUME TypeOK, CopiesCurrent, TaskStands, History(record), [Next]_vars
  PROVE  History(record)'
<1> DEFINE q == record.queue
<1>0. /\ record \in Status /\ q \in Seq(Notification) /\ now \in Nat \ {0} /\ record.startsAt \in Nat
      /\ snap \in [type : Types, action : Actions, version : Nat]
  BY DEF TypeOK, Status
<1>1. CASE record' = record BY <1>1 DEF History, NewestTells, PeriodOnlyIfTrue
<1>2. CASE SyncPatch
  <2>1. record' = Synced(record) BY <1>2 DEF SyncPatch
  <2>2. History(Synced(record)) BY <1>0, SyncedKeeps
  <2> QED BY <2>1, <2>2
<1>3. CASE copy = record /\ Clear
  <2>1. record' = [record EXCEPT !.queue = <<>>, !.startsAt = 0, !.lastSent = 0] BY <1>3 DEF Clear, Patch
  <2>2. record'.queue = <<>> /\ record'.startsAt = 0 /\ record'.lastSent = 0 BY <1>0, <2>1 DEF Status
  <2> QED BY <2>2 DEF History, Alternates, Dated, NewestTells, PeriodOnlyIfTrue
<1>4. CASE copy = record /\ InitialFiring
  <2>1. record' = [record EXCEPT !.startsAt = now, !.queue = Append(q, Firing(now))]
    BY <1>4 DEF InitialFiring, Patch
  <2>2. record.action = "True" /\ record.startsAt = 0 BY <1>4 DEF InitialFiring, TaskStands
  <2>3. q = <<>>
    <3> SUFFICES ASSUME q # <<>> PROVE FALSE OBVIOUS
    <3>1. Len(q) \in 1 .. Len(q) BY <1>0
    <3>2. q[Len(q)].firing /\ q[Len(q)].startsAt = 0 BY <2>2 DEF History, NewestTells
    <3> QED BY <3>1, <3>2 DEF History, Dated
  <2>4. /\ record'.action = "True" /\ record'.startsAt = now /\ record'.queue = Append(q, Firing(now))
    BY <1>0, <2>1, <2>2 DEF Status
  <2>5. Firing(now) \in Notification /\ Firing(now).firing = TRUE /\ Firing(now).startsAt = now
    BY <1>0, NotificationTypes DEF Firing
  <2>6. Alternates(Append(q, Firing(now))) /\ Dated(Append(q, Firing(now)))
    BY <1>0, <2>3, <2>5, AppendKeeps DEF History
  <2>7. Append(q, Firing(now))[Len(Append(q, Firing(now)))] = Firing(now) BY <1>0, <2>5
  <2>8. NewestTells(record)' BY <2>4, <2>5, <2>7 DEF NewestTells
  <2>9. PeriodOnlyIfTrue(record)' BY <1>0, <2>4 DEF PeriodOnlyIfTrue
  <2> QED BY <2>4, <2>6, <2>8, <2>9 DEF History
<1>5. CASE copy = record /\ Acknowledge
  <2>1. q # <<>> BY <1>5 DEF Acknowledge, TaskStands
  <2>2. PICK l : record' = [record EXCEPT !.queue = Tail(q), !.lastSent = l] /\ (record.action # "True" => l = record.lastSent)
                /\ (l = record.lastSent \/ (Head(q).firing /\ record.startsAt = Head(q).startsAt))
    BY <1>5 DEF Acknowledge, Patch
  <2>3. record'.queue = Tail(q) /\ record'.lastSent = l /\ record'.action = record.action /\ record'.startsAt = record.startsAt
    BY <1>0, <2>2 DEF Status
  <2>4. /\ Alternates(Tail(q)) /\ Dated(Tail(q))
        /\ Tail(q) # <<>> => Tail(q)[Len(Tail(q))] = q[Len(q)]
    BY <1>0, <2>1, TailKeeps DEF History
  <2>5. NewestTells(record)' BY <2>1, <2>3, <2>4 DEF History, NewestTells
  <2>6. Head(q).firing => Head(q).startsAt # 0
    <3>1. Head(q) = q[1] /\ 1 \in 1 .. Len(q) BY <1>0, <2>1
    <3> QED BY <3>1 DEF History, Dated
  <2>7. PeriodOnlyIfTrue(record)' BY <2>2, <2>3, <2>6 DEF History, PeriodOnlyIfTrue
  <2> QED BY <2>3, <2>4, <2>5, <2>7 DEF History
<1>6. CASE copy = record /\ AcknowledgeRenewal
  <2>1. record' = [record EXCEPT !.lastSent = now] BY <1>6 DEF AcknowledgeRenewal, Patch
  <2>2. record'.queue = q /\ record'.action = record.action /\ record'.startsAt = record.startsAt
    BY <1>0, <2>1 DEF Status
  <2>3. record.action = "True" /\ record.startsAt # 0 BY <1>6 DEF AcknowledgeRenewal, TaskStands
  <2> QED BY <2>2, <2>3 DEF History, NewestTells, PeriodOnlyIfTrue
<1> QED BY <1>1, <1>2, <1>3, <1>4, <1>5, <1>6, RecordMoves

LEMMA HistoryTells == ASSUME History(record) PROVE QueueIsHistory
  BY DEF History, Alternates, Dated, NewestTells, PeriodOnlyIfTrue, QueueIsHistory

-----------------------------------------------------------------------------
(* The Alertmanager and the record *)

LEMMA DeliveryInit == Init => Delivered /\ LastWordAgrees /\ ObservedInOrder
<1> SUFFICES ASSUME Init PROVE Delivered /\ LastWordAgrees /\ ObservedInOrder OBVIOUS
<1>1. record \in {NewStatus, OldStatus} /\ pc = "idle" /\ am = NoAlert /\ version = 0 BY DEF Init
<1>2. record.lastSent = 0 /\ record.seen = 0 BY <1>1, FirstStatus
<1>3. am.firing = FALSE BY <1>1 DEF NoAlert
<1> QED BY <1>1, <1>2, <1>3 DEF Delivered, LastWordAgrees, ObservedInOrder

(* What a POST leaves at the Alertmanager. *)
LEMMA PostedTells ==
  ASSUME TypeOK, CopiesCurrent, TaskStands, pc \in {"send", "renew"}
  PROVE  LET event == IF pc = "send" THEN Head(record.queue) ELSE Firing(record.startsAt)
         IN  /\ Posted(Event).firing = event.firing
             /\ Posted(Event).startsAt = event.startsAt
             /\ Posted(Event).tracked = TRUE
             /\ event.firing => Posted(Event).endsAt = now + Lifetime
<1>1. copy = record BY DEF CopiesCurrent, Working
<1> QED BY <1>1 DEF Posted, Event

(* The steps that reach the Alertmanager. *)
LEMMA AlertMoves ==
  ASSUME TypeOK, [Next]_vars
  PROVE  \/ am' = am
         \/ pc \in {"send", "renew"} /\ am' = Posted(Event)
         \/ am'.tracked = FALSE
<1>1. CASE Clear BY <1>1 DEF Clear, TypeOK, AlertType
<1>2. CASE LateArrival
  <2>1. PICK alert \in wire : am' = [alert EXCEPT !.tracked = FALSE] BY <1>2 DEF LateArrival
  <2> QED BY <2>1 DEF TypeOK, AlertType
<1>3. CASE SendAccepted BY <1>3 DEF SendAccepted
<1>4. CASE SendFails BY <1>4 DEF SendFails
<1>5. CASE FinishRead \/ FinishWrite \/ RunChanges \/ ConfigChanges \/ Tick \/ UNCHANGED vars
  BY <1>5 DEF FinishRead, FinishWrite, RunChanges, ConfigChanges, Tick, vars
<1>6. CASE SyncReadRun \/ SyncReadResult \/ SyncPatch \/ SyncFails \/ Decide
  BY <1>6 DEF SyncReadRun, SyncReadResult, SyncPatch, SyncFails, Decide
<1>7. CASE InitialFiring \/ Acknowledge \/ AcknowledgeRenewal \/ Conflict \/ ReconcileStops
  BY <1>7 DEF InitialFiring, Acknowledge, AcknowledgeRenewal, Conflict, ReconcileStops
<1> QED BY <1>1, <1>2, <1>3, <1>4, <1>5, <1>6, <1>7 DEF Next, ReconcileStep

(* Reconcile reaches "ack" and "renewed" only through an accepted POST. *)
LEMMA PcMoves ==
  ASSUME [Next]_vars
  PROVE  \/ pc' = pc /\ UNCHANGED snap
         \/ SyncReadRun \/ SyncReadResult \/ SyncFails \/ SyncPatch \/ Decide \/ SendAccepted
         \/ pc' = "idle"
<1>1. CASE FinishRead \/ FinishWrite \/ RunChanges \/ ConfigChanges \/ LateArrival \/ Tick \/ UNCHANGED vars
  BY <1>1 DEF FinishRead, FinishWrite, RunChanges, ConfigChanges, LateArrival, Tick, vars
<1>2. CASE Clear \/ InitialFiring \/ Acknowledge \/ AcknowledgeRenewal \/ SendFails \/ Conflict \/ ReconcileStops
  BY <1>2 DEF Clear, InitialFiring, Acknowledge, AcknowledgeRenewal, SendFails, Conflict, ReconcileStops, Return
<1> QED BY <1>1, <1>2 DEF Next, ReconcileStep

LEMMA DeliveredStep ==
  ASSUME TypeOK, CopiesCurrent, TaskStands, Delivered, [Next]_vars
  PROVE  Delivered'
<1>1. CASE pc' \notin {"ack", "renewed"} BY <1>1 DEF Delivered
<1>2. CASE SendAccepted
  <2>1. record' = record /\ am' = Posted(Event) /\ pc \in {"send", "renew"}
        /\ pc' = IF pc = "send" THEN "ack" ELSE "renewed"
    BY <1>2 DEF SendAccepted
  <2>2. Firing(record.startsAt).firing = TRUE /\ Firing(record.startsAt).startsAt = record.startsAt BY DEF Firing
  <2>3. CASE pc = "send" BY <2>1, <2>3, PostedTells DEF Delivered
  <2>4. CASE pc = "renew" BY <2>1, <2>2, <2>4, PostedTells DEF Delivered
  <2> QED BY <2>1, <2>3, <2>4
<1>3. CASE pc' = pc /\ pc \in {"ack", "renewed"}
  <2>1. record' = record
    BY <1>3, RecordMoves
      DEF SyncPatch, Clear, InitialFiring, Acknowledge, AcknowledgeRenewal, Return
  <2>2. am' = am \/ am'.tracked = FALSE BY <1>3, AlertMoves
  <2> QED BY <1>3, <2>1, <2>2 DEF Delivered
<1> QED
  <2>1. CASE SyncReadRun \/ SyncReadResult \/ SyncFails \/ SyncPatch
    BY <1>1, <2>1 DEF SyncReadRun, SyncReadResult, SyncFails, SyncPatch
  <2>2. CASE Decide
    <3>1. NextTask(record) \notin {"ack", "renewed"} BY DEF NextTask
    <3>2. pc' \notin {"ack", "renewed"} BY <2>2, <3>1 DEF Decide, Return
    <3> QED BY <1>1, <3>2
  <2> QED BY <1>1, <1>2, <1>3, <2>1, <2>2, PcMoves

(* What Acknowledge leaves: the rest of the queue, and the time of delivery *)
(* of the period the record holds.                                          *)
LEMMA AcknowledgeMoves ==
  ASSUME TypeOK, TaskStands, History(record), copy = record, Acknowledge
  PROVE  /\ record'.queue = Tail(record.queue)
         /\ record'.action = record.action /\ record'.startsAt = record.startsAt
         /\ record'.seen = record.seen
         /\ record'.lastSent \in {record.lastSent, now}
         /\ record'.queue = <<>> =>
              /\ Head(record.queue).firing = (record.action = "True")
              /\ Head(record.queue).firing => record.startsAt = Head(record.queue).startsAt
              /\ Head(record.queue).firing => record'.lastSent = now
<1> DEFINE q == record.queue
<1>0. record \in Status /\ q \in Seq(Notification) BY DEF TypeOK, Status
<1>1. q # <<>> BY DEF Acknowledge, TaskStands
<1>2. PICK l : /\ record' = [record EXCEPT !.queue = Tail(q), !.lastSent = l]
               /\ l = IF Head(q).firing /\ record.action = "True" /\ record.startsAt = Head(q).startsAt
                      THEN now ELSE record.lastSent
  BY DEF Acknowledge, Patch
<1>3. /\ record'.queue = Tail(q) /\ record'.action = record.action /\ record'.startsAt = record.startsAt
      /\ record'.seen = record.seen /\ record'.lastSent = l
  BY <1>0, <1>2 DEF Status
<1>4. Tail(q) = <<>> => Head(q) = q[Len(q)] BY <1>0, <1>1, TailKeeps DEF History
<1>5. Tail(q) = <<>> => /\ Head(q).firing = (record.action = "True")
                        /\ Head(q).firing => record.startsAt = Head(q).startsAt
  BY <1>1, <1>4 DEF History, NewestTells
<1>6. Tail(q) = <<>> /\ Head(q).firing => l = now BY <1>2, <1>5
<1>7. l \in {record.lastSent, now} BY <1>2
<1> QED BY <1>3, <1>5, <1>6, <1>7

LEMMA LastWordStep ==
  ASSUME TypeOK, CopiesCurrent, TaskStands, History(record), Delivered, LastWordAgrees, [Next]_vars
  PROVE  LastWordAgrees'
<1>0. record \in Status /\ record.queue \in Seq(Notification) BY DEF TypeOK, Status
<1>1. CASE record' = record
  <2>1. CASE am' = am BY <1>1, <2>1 DEF LastWordAgrees
  <2>2. CASE am'.tracked = FALSE BY <2>2 DEF LastWordAgrees
  <2>3. CASE pc = "send" BY <1>1, <2>3 DEF LastWordAgrees, TaskStands
  <2>4. CASE pc = "renew" /\ am' = Posted(Event)
    <3>1. Firing(record.startsAt).firing = TRUE /\ Firing(record.startsAt).startsAt = record.startsAt BY DEF Firing
    <3>2. am'.firing = TRUE /\ am'.startsAt = record.startsAt BY <2>4, <3>1, PostedTells
    <3> QED BY <1>1, <2>4, <3>2 DEF LastWordAgrees, TaskStands
  <2> QED BY <2>1, <2>2, <2>3, <2>4, AlertMoves
<1>2. CASE SyncPatch
  <2>1. am' = am /\ record' = Synced(record) BY <1>2 DEF SyncPatch
  <2>2. record'.queue = <<>> => /\ record.queue = <<>>
                                /\ record'.startsAt = record.startsAt /\ record'.lastSent = record.lastSent
                                /\ record'.action = "True" <=> record.action = "True"
    BY <2>1, SyncedKeeps DEF TypeOK
  <2> QED BY <2>1, <2>2 DEF LastWordAgrees
<1>3. CASE Clear
  <2>1. am'.tracked = FALSE BY <1>3 DEF Clear, TypeOK, AlertType
  <2> QED BY <2>1 DEF LastWordAgrees
<1>4. CASE copy = record /\ InitialFiring
  <2>1. record'.queue = Append(record.queue, Firing(now)) BY <1>0, <1>4 DEF InitialFiring, Patch, Status
  <2>2. record'.queue # <<>> BY <1>0, <2>1
  <2> QED BY <2>2 DEF LastWordAgrees
<1>5. CASE copy = record /\ Acknowledge
  <2>1. am' = am /\ pc = "ack" BY <1>5 DEF Acknowledge
  <2>2. /\ record'.action = record.action /\ record'.startsAt = record.startsAt
        /\ record'.lastSent \in {record.lastSent, now}
        /\ record'.queue = <<>> =>
             /\ Head(record.queue).firing = (record.action = "True")
             /\ Head(record.queue).firing => record.startsAt = Head(record.queue).startsAt
    BY <1>5, AcknowledgeMoves
  <2>3. History(record)' BY HistoryStep
  <2>4. record'.lastSent # 0 => record.action = "True" BY <2>2, <2>3 DEF History, PeriodOnlyIfTrue
  <2>5. am.tracked => am.firing = Head(record.queue).firing /\ am.startsAt = Head(record.queue).startsAt
    BY <2>1 DEF Delivered
  <2>6. am.firing \in BOOLEAN BY DEF TypeOK, AlertType
  <2> QED BY <2>1, <2>2, <2>4, <2>5, <2>6 DEF LastWordAgrees
<1>6. CASE copy = record /\ AcknowledgeRenewal
  <2>1. am' = am /\ pc = "renewed" BY <1>6 DEF AcknowledgeRenewal
  <2>2. record'.action = record.action /\ record'.startsAt = record.startsAt
    BY <1>0, <1>6 DEF AcknowledgeRenewal, Patch, Status
  <2> QED BY <2>1, <2>2 DEF LastWordAgrees, Delivered, TaskStands
<1> QED BY <1>1, <1>2, <1>3, <1>4, <1>5, <1>6, RecordMoves

(* Only a synchronization moves what the record has seen, and it read the   *)
(* run after every earlier one.                                             *)
LEMMA ObservedStep ==
  ASSUME TypeOK, CopiesCurrent, TaskStands, History(record), ObservedInOrder, [Next]_vars
  PROVE  ObservedInOrder' /\ record'.seen >= record.seen
<1>0. /\ record \in Status /\ record.seen \in Nat /\ version \in Nat /\ snap.version \in Nat
      /\ snap \in [type : Types, action : Actions, version : Nat]
  BY DEF TypeOK, Status
<1>1. version' \in {version, version + 1}
  BY DEF Next, ReconcileStep, SyncReadRun, SyncReadResult, SyncPatch, SyncFails, Decide, Clear, InitialFiring,
         SendAccepted, SendFails, Acknowledge, AcknowledgeRenewal, Conflict, ReconcileStops, Outside,
         FinishRead, FinishWrite, RunChanges, ConfigChanges, LateArrival, Tick, vars
<1>2. record'.seen = record.seen \/ (SyncPatch /\ record'.seen = snap.version)
  <2>1. CASE SyncPatch
    <3>1. record' = record \/ record'.seen = snap.version BY <1>0, <2>1, SyncedKeeps DEF SyncPatch, TypeOK
    <3> QED BY <2>1, <3>1
  <2>2. CASE copy = record /\ Acknowledge BY <2>2, AcknowledgeMoves
  <2>3. CASE copy = record /\ (Clear \/ InitialFiring \/ AcknowledgeRenewal)
    BY <1>0, <2>3 DEF Clear, InitialFiring, AcknowledgeRenewal, Patch, Status
  <2> QED BY <2>1, <2>2, <2>3, RecordMoves
<1>3. SyncPatch => pc = "patch" /\ pc' = "decide" BY DEF SyncPatch
<1>4. record'.seen >= record.seen /\ record'.seen <= version BY <1>0, <1>2, <1>3 DEF ObservedInOrder
<1>5. pc' \in {"result", "patch"} => record'.seen <= snap'.version /\ snap'.version <= version'
  <2>1. CASE pc' = pc /\ UNCHANGED snap
    <3>1. ~SyncPatch BY <1>3, <2>1
    <3> QED BY <1>0, <1>1, <1>2, <2>1, <3>1 DEF ObservedInOrder
  <2>2. CASE SyncReadRun
    <3>1. snap'.version = version /\ version' = version /\ record' = record BY <2>2 DEF SyncReadRun, Outside
    <3> QED BY <1>0, <3>1 DEF ObservedInOrder
  <2>3. CASE SyncReadResult
    <3>1. pc = "result" /\ snap'.version = snap.version /\ version' = version /\ record' = record
      BY <1>0, <2>3 DEF SyncReadResult, Outside
    <3> QED BY <1>0, <3>1 DEF ObservedInOrder
  <2>4. CASE SyncFails \/ SyncPatch \/ SendAccepted BY <2>4 DEF SyncFails, SyncPatch, SendAccepted
  <2>5. CASE Decide
    <3>1. NextTask(record) \notin {"result", "patch"} BY DEF NextTask
    <3> QED BY <2>5, <3>1 DEF Decide, Return
  <2> QED BY <2>1, <2>2, <2>3, <2>4, <2>5, PcMoves
<1>6. record'.seen \in Nat BY <1>0, <1>2
<1>7. record'.seen <= version' BY <1>0, <1>1, <1>4, <1>6
<1> QED BY <1>4, <1>5, <1>7 DEF ObservedInOrder

(* A notification leaves the queue only at "clear" and at "ack". *)
LEMMA SkipsNothing ==
  ASSUME TypeOK, CopiesCurrent, TaskStands, History(record), Delivered, [Next]_vars,
         Len(record'.queue) < Len(record.queue)
  PROVE  \/ pc = "clear"
         \/ ~am.tracked
         \/ /\ record'.queue = Tail(record.queue)
            /\ am.firing = Head(record.queue).firing
            /\ am.startsAt = Head(record.queue).startsAt
<1>0. record \in Status /\ record.queue \in Seq(Notification) /\ Len(record.queue) \in Nat BY DEF TypeOK, Status
<1>1. CASE record' = record BY <1>0, <1>1
<1>2. CASE SyncPatch
  <2>1. record' = Synced(record) BY <1>2 DEF SyncPatch
  <2>2. Len(Synced(record).queue) >= Len(record.queue) BY SyncedKeeps DEF TypeOK
  <2>3. record' \in Status BY TypeStep DEF TypeOK
  <2>4. Len(record'.queue) \in Nat BY <2>3 DEF Status
  <2> QED BY <1>0, <2>1, <2>2, <2>4
<1>3. CASE Clear BY <1>3 DEF Clear
<1>4. CASE copy = record /\ InitialFiring
  <2>1. record'.queue = Append(record.queue, Firing(now)) BY <1>0, <1>4 DEF InitialFiring, Patch, Status
  <2> QED BY <1>0, <2>1
<1>5. CASE copy = record /\ Acknowledge
  <2>1. pc = "ack" BY <1>5 DEF Acknowledge
  <2> QED BY <1>5, <2>1, AcknowledgeMoves DEF Delivered
<1>6. CASE copy = record /\ AcknowledgeRenewal
  <2>1. record'.queue = record.queue BY <1>0, <1>6 DEF AcknowledgeRenewal, Patch, Status
  <2> QED BY <1>0, <2>1
<1> QED BY <1>1, <1>2, <1>3, <1>4, <1>5, <1>6, RecordMoves

(* The inductive invariant: in every reachable state the copies are         *)
(* current, the record asks for the task chosen, its queue is a history,    *)
(* and the Alertmanager's last word is the one the record tells of.         *)
THEOREM DeliverySafety == Spec => [](TypeOK /\ DeliveryInv)
<1>1. Init => TypeOK /\ DeliveryInv BY TypeInit, HistoryInit, DeliveryInit DEF DeliveryInv
<1>2. TypeOK /\ DeliveryInv /\ [Next]_vars => (TypeOK /\ DeliveryInv)'
  BY TypeStep, HistoryStep, DeliveredStep, LastWordStep, ObservedStep DEF DeliveryInv
<1> QED BY <1>1, <1>2, PTL DEF Spec

(* The queue of a record stays a faithful history of its action, whatever   *)
(* the order of synchronizations, deliveries, crashes and the status        *)
(* updates of finishCreation.                                               *)
THEOREM QueueTellsHistory == Spec => []QueueIsHistory
<1>1. TypeOK /\ DeliveryInv => QueueIsHistory BY HistoryTells DEF DeliveryInv
<1> QED BY <1>1, DeliverySafety, PTL

(* With nothing queued, the Alertmanager's last word is the record's.  The  *)
(* proof shows it for every point of Reconcile, not only at rest.           *)
THEOREM LastWord == Spec => []AlertmanagerAgrees
<1>1. TypeOK /\ DeliveryInv => AlertmanagerAgrees BY DEF DeliveryInv, LastWordAgrees, AlertmanagerAgrees
<1> QED BY <1>1, DeliverySafety, PTL

(* The record never returns to an older observation of the run. *)
THEOREM NeverOlder == Spec => ObservationsInOrder
<1>1. TypeOK /\ DeliveryInv /\ [Next]_vars => [record'.seen >= record.seen]_vars
  BY ObservedStep DEF DeliveryInv
<1> QED BY <1>1, DeliverySafety, PTL DEF Spec, ObservationsInOrder

(* No notification leaves the durable queue before the Alertmanager holds   *)
(* it, except when the configuration was removed.                           *)
THEOREM NeverSkips == Spec => NothingSkipped
<1> DEFINE Kept == Len(record'.queue) < Len(record.queue)
                     => \/ pc = "clear"
                        \/ ~am.tracked
                        \/ /\ record'.queue = Tail(record.queue)
                           /\ am.firing = Head(record.queue).firing
                           /\ am.startsAt = Head(record.queue).startsAt
<1>1. TypeOK /\ DeliveryInv /\ [Next]_vars => Kept BY SkipsNothing DEF DeliveryInv
<1> QED BY <1>1, DeliverySafety, PTL DEF Spec, NothingSkipped

-----------------------------------------------------------------------------
(* Timing of the renewal *)

(* The conditions under which a firing alert is renewed in time: Reconcile  *)
(* keeps being called, the singleton keeps its configuration, results can   *)
(* be read, and the faults allowed in a row leave room in the lifetime.     *)
RenewalConditions ==
  /\ Prompt /\ ~MayDisable /\ ~MayBeLate
  /\ \A r \in RunStates : r.action # "missing"
  /\ Refresh + MaxMissed < Lifetime

(* The record shows an alert that was delivered and has nothing to add. *)
Live == record.queue = <<>> /\ record.lastSent # 0

Undisturbed == config = "on" /\ wire = {} /\ pc # "clear" /\ missed <= MaxMissed

(* This unit of time has had its attempt, or the failed synchronization has *)
(* used it up.                                                              *)
Spent == tried \/ (pc = "decide" /\ syncErr)

(* The Alertmanager has just received a firing alert. *)
JustPosted == (pc = "ack" /\ Head(record.queue).firing) \/ pc = "renewed"

(* The expiry the Alertmanager holds was counted from the last delivery or  *)
(* later, and every unit of time since the renewal was due is a fault.      *)
Covered ==
  /\ record.lastSent + Lifetime <= am.endsAt
  /\ now + Lifetime <= am.endsAt + Refresh + missed
  /\ Spent => now + 1 + Lifetime <= am.endsAt + Refresh + missed

Budget ==
  /\ record.lastSent <= now
  /\ pc \in {"result", "patch"} => syncErr = FALSE
  /\ JustPosted => am.endsAt = now + Lifetime
  /\ Live => Covered

RenewalInv == Undisturbed /\ Budget

LEMMA RenewalInit ==
  ASSUME Init
  PROVE  RenewalInv
<1>1. record.queue = <<>> /\ record.lastSent = 0 BY FirstStatus DEF Init
<1>2. config = "on" /\ wire = {} /\ pc = "idle" /\ missed = 0 /\ now = 1 BY DEF Init
<1> QED BY <1>1, <1>2, BoundsAssumption DEF RenewalInv, Undisturbed, Budget, Live, JustPosted

(* Nothing but faults disturbs the configuration under the conditions. *)
LEMMA UndisturbedStep ==
  ASSUME RenewalConditions, TypeOK, Undisturbed, [Next]_vars
  PROVE  Undisturbed'
<1>0. MaxMissed \in Nat /\ missed \in Nat BY BoundsAssumption DEF TypeOK
<1>1. CASE FinishRead \/ FinishWrite \/ RunChanges \/ UNCHANGED vars
  BY <1>1 DEF FinishRead, FinishWrite, RunChanges, Outside, vars, Undisturbed
<1>2. CASE ConfigChanges \/ LateArrival
  BY <1>2 DEF ConfigChanges, LateArrival, RenewalConditions, Undisturbed
<1>3. CASE Tick
  <2>1. UNCHANGED <<config, wire, pc, missed>> BY <1>3 DEF Tick
  <2> QED BY <2>1 DEF Undisturbed
<1>4. CASE SyncReadRun \/ SyncReadResult \/ SyncPatch
  BY <1>4 DEF SyncReadRun, SyncReadResult, SyncPatch, Outside, Undisturbed
<1>5. CASE SyncFails BY <1>0, <1>5 DEF SyncFails, Fault, Outside, Undisturbed
<1>6. CASE Decide
  <2>1. NextTask(record) # "clear" BY DEF NextTask, Undisturbed
  <2>2. pc' # "clear" /\ UNCHANGED <<config, wire, missed>> BY <1>6, <2>1 DEF Decide, Return, Outside
  <2> QED BY <2>2 DEF Undisturbed
<1>7. CASE SendAccepted BY <1>7 DEF SendAccepted, Outside, Undisturbed
<1>8. CASE SendFails
  <2>1. wire' = wire BY <1>8 DEF SendFails, RenewalConditions
  <2>2. pc' = "idle" /\ config' = config /\ missed < MaxMissed /\ missed' = missed + 1
    BY <1>8 DEF SendFails, Fault, Return, Outside
  <2> QED BY <1>0, <2>1, <2>2 DEF Undisturbed
<1>9. CASE Clear \/ InitialFiring \/ Acknowledge \/ AcknowledgeRenewal \/ Conflict
  BY <1>0, <1>9 DEF Clear, InitialFiring, Acknowledge, AcknowledgeRenewal, Conflict, Return, Outside, Undisturbed
<1>10. CASE ReconcileStops
  <2>1. pc' = "idle" /\ UNCHANGED <<config, wire>> /\ missed < MaxMissed /\ missed' = missed + 1
    BY <1>10 DEF ReconcileStops, Fault, Return, Outside
  <2> QED BY <1>0, <2>1 DEF Undisturbed
<1> QED BY <1>1, <1>2, <1>3, <1>4, <1>5, <1>6, <1>7, <1>8, <1>9, <1>10 DEF Next, ReconcileStep

(* The clock moves only between reconciles, when this one's attempt is over. *)
LEMMA TickMoves ==
  ASSUME RenewalConditions, [Next]_vars
  PROVE  now' = now \/ (tried = TRUE /\ pc = "idle" /\ now' = now + 1 /\ Tick)
<1>1. CASE Tick
  <2>1. now' = now + 1 BY <1>1 DEF Tick
  <2>2. tried /\ pc = "idle" BY <1>1 DEF Tick, RenewalConditions
  <2> QED BY <1>1, <2>1, <2>2
<1>2. CASE ReconcileStep
  BY <1>2 DEF ReconcileStep, SyncReadRun, SyncReadResult, SyncPatch, SyncFails, Decide, Clear, InitialFiring,
              SendAccepted, SendFails, Acknowledge, AcknowledgeRenewal, Conflict, ReconcileStops, Outside
<1>3. CASE FinishRead \/ FinishWrite \/ RunChanges \/ ConfigChanges \/ LateArrival \/ UNCHANGED vars
  BY <1>3 DEF FinishRead, FinishWrite, RunChanges, ConfigChanges, LateArrival, Outside, vars
<1> QED BY <1>1, <1>2, <1>3 DEF Next

(* A record becomes or stays live by what it was, or by an acknowledgement  *)
(* of an alert posted in this very unit of time.                            *)
LEMMA LiveMoves ==
  ASSUME TypeOK, CopiesCurrent, TaskStands, History(record), Budget, [Next]_vars
  PROVE  /\ record'.lastSent \in {record.lastSent, 0, now}
         /\ Live' => \/ Live /\ record'.lastSent = record.lastSent /\ (record' = record \/ SyncPatch)
                     \/ /\ Acknowledge \/ AcknowledgeRenewal
                        /\ record'.lastSent = now /\ am.endsAt = now + Lifetime
<1>0. record \in Status /\ record.queue \in Seq(Notification) BY DEF TypeOK, Status
<1>1. CASE record' = record BY <1>1 DEF Live
<1>2. CASE SyncPatch
  <2>1. record' = Synced(record) BY <1>2 DEF SyncPatch
  <2>2. Synced(record).queue = <<>> => record.queue = <<>> /\ Synced(record).lastSent = record.lastSent
    BY SyncedKeeps DEF TypeOK
  <2>3. Synced(record).lastSent \in {record.lastSent, 0} BY <1>0, SyncedSent DEF TypeOK
  <2> QED BY <1>2, <2>1, <2>2, <2>3 DEF Live
<1>3. CASE copy = record /\ (Clear \/ InitialFiring)
  <2>1. CASE Clear BY <1>0, <1>3, <2>1 DEF Clear, Patch, Status, Live
  <2>2. CASE InitialFiring
    <3>1. record'.queue = Append(record.queue, Firing(now)) /\ record'.lastSent = record.lastSent
      BY <1>0, <1>3, <2>2 DEF InitialFiring, Patch, Status
    <3>2. record'.queue # <<>> BY <1>0, <3>1
    <3> QED BY <3>1, <3>2 DEF Live
  <2> QED BY <1>3, <2>1, <2>2
<1>4. CASE copy = record /\ Acknowledge
  <2>1. pc = "ack" BY <1>4 DEF Acknowledge
  <2>2. /\ record'.lastSent \in {record.lastSent, now}
        /\ record'.action = record.action
        /\ record'.queue = <<>> =>
             /\ Head(record.queue).firing = (record.action = "True")
             /\ Head(record.queue).firing => record'.lastSent = now
    BY <1>4, AcknowledgeMoves
  <2>3. History(record)' BY HistoryStep
  <2>4. Live' => record.action = "True" BY <2>2, <2>3 DEF History, PeriodOnlyIfTrue, Live
  <2>5. Live' => Head(record.queue).firing = TRUE BY <2>2, <2>4 DEF Live
  <2>6. Live' => am.endsAt = now + Lifetime BY <2>1, <2>5 DEF Budget, JustPosted
  <2>7. Live' => record'.lastSent = now BY <2>2, <2>5 DEF Live
  <2> QED BY <1>4, <2>2, <2>6, <2>7
<1>5. CASE copy = record /\ AcknowledgeRenewal
  <2>1. record'.lastSent = now /\ pc = "renewed" BY <1>0, <1>5 DEF AcknowledgeRenewal, Patch, Status
  <2>2. am.endsAt = now + Lifetime BY <2>1 DEF Budget, JustPosted
  <2> QED BY <1>5, <2>1, <2>2
<1> QED BY <1>1, <1>2, <1>3, <1>4, <1>5, RecordMoves

(* Covered is arithmetic: each kind of step leaves room in the lifetime.    *)
LEMMA CoveredArithmetic ==
  ASSUME NEW l \in Nat, NEW n \in Nat, NEW e \in Nat, NEW m \in Nat, NEW m2 \in Nat,
         l <= n
  PROVE  /\ l + Lifetime <= n + Lifetime
         /\ n + 1 + Lifetime <= n + Lifetime + Refresh + m2
         /\ n + Lifetime <= n + Lifetime + Refresh + m2
         /\ n + Lifetime <= e + Refresh + m => n + 1 + Lifetime <= e + Refresh + (m + 1)
         /\ n + 1 + Lifetime <= e + Refresh + m => n + 1 + Lifetime <= e + Refresh + (m + 1)
         /\ l + Lifetime <= e /\ n < l + Refresh => n + 1 + Lifetime <= e + Refresh + m
  BY BoundsAssumption

LEMMA CoveredKinds ==
  ASSUME TypeOK, TypeOK', Budget, Live, Covered, record'.lastSent = record.lastSent,
         \/ now' = now /\ am' = am /\ missed' = missed /\ (Spent' => Spent)
         \/ now' = now /\ am' = am /\ missed' = missed + 1
         \/ now' = now + 1 /\ am' = am /\ missed' = missed /\ Spent /\ ~Spent'
         \/ now' = now /\ am'.endsAt = now + Lifetime
         \/ now' = now /\ am' = am /\ missed' = missed /\ now < record.lastSent + Refresh
  PROVE  Covered'
<1>0. /\ record.lastSent \in Nat /\ now \in Nat /\ am.endsAt \in Nat /\ missed \in Nat /\ missed' \in Nat
      /\ record.lastSent <= now /\ Lifetime \in Nat /\ Refresh \in Nat
  BY BoundsAssumption DEF TypeOK, Status, AlertType, Budget
<1>1. CASE now' = now /\ am' = am /\ missed' = missed /\ (Spent' => Spent)
  BY <1>1 DEF Covered
<1>2. CASE now' = now /\ am' = am /\ missed' = missed + 1
  <2>1. now + 1 + Lifetime <= am.endsAt + Refresh + missed' BY <1>0, <1>2, CoveredArithmetic DEF Covered
  <2>2. now + Lifetime <= am.endsAt + Refresh + missed' BY <1>0, <2>1
  <2> QED BY <1>2, <2>1, <2>2 DEF Covered
<1>3. CASE now' = now + 1 /\ am' = am /\ missed' = missed /\ Spent /\ ~Spent'
  BY <1>3 DEF Covered
<1>4. CASE now' = now /\ am'.endsAt = now + Lifetime
  BY <1>0, <1>4, CoveredArithmetic DEF Covered
<1>5. CASE now' = now /\ am' = am /\ missed' = missed /\ now < record.lastSent + Refresh
  <2>1. now + 1 + Lifetime <= am.endsAt + Refresh + missed BY <1>0, <1>5, CoveredArithmetic DEF Covered
  <2> QED BY <1>5, <2>1 DEF Covered
<1> QED BY <1>1, <1>2, <1>3, <1>4, <1>5

(* A live record stays covered. *)
LEMMA CoveredStep ==
  ASSUME RenewalConditions, TypeOK, CopiesCurrent, TaskStands, History(record), Undisturbed, Budget,
         [Next]_vars, Live, record'.lastSent = record.lastSent, ~Acknowledge, ~AcknowledgeRenewal
  PROVE  Covered'
<1>0. TypeOK' /\ Covered /\ record.queue = <<>> /\ record.startsAt # 0 /\ record.action = "True"
  BY TypeStep DEF Budget, Live, History, PeriodOnlyIfTrue
<1>1. CASE FinishRead \/ FinishWrite \/ RunChanges \/ UNCHANGED vars
  <2>1. UNCHANGED <<now, am, missed, tried, pc, syncErr>>
    BY <1>1 DEF FinishRead, FinishWrite, RunChanges, Outside, vars
  <2> QED BY <1>0, <2>1, CoveredKinds DEF Spent
<1>2. CASE ConfigChanges \/ LateArrival BY <1>2 DEF ConfigChanges, LateArrival, RenewalConditions, Undisturbed
<1>3. CASE Tick
  <2>1. tried = TRUE /\ pc = "idle" /\ now' = now + 1
    <3>1. now' = now + 1 /\ now' # now BY <1>3 DEF Tick, TypeOK
    <3> QED BY <3>1, TickMoves, Zenon
  <2>2. tried' = FALSE /\ pc' = pc /\ am' = am /\ missed' = missed BY <1>3 DEF Tick
  <2>3. Spent /\ ~Spent' BY <2>1, <2>2 DEF Spent
  <2> QED BY <1>0, <2>1, <2>2, <2>3, CoveredKinds
<1>4. CASE SyncReadRun
  <2>1. UNCHANGED <<now, am, missed, tried>> /\ syncErr' = FALSE BY <1>4 DEF SyncReadRun, Outside
  <2>2. Spent' => Spent BY <2>1 DEF Spent
  <2> QED BY <1>0, <2>1, <2>2, CoveredKinds
<1>5. CASE SyncReadResult
  <2>1. run.action # "missing" BY DEF RenewalConditions, TypeOK
  <2>2. UNCHANGED <<now, am, missed, tried>> /\ pc' = "patch" BY <1>5, <2>1 DEF SyncReadResult, Outside
  <2>3. Spent' => Spent BY <2>2 DEF Spent
  <2> QED BY <1>0, <2>2, <2>3, CoveredKinds
<1>6. CASE SyncPatch
  <2>1. UNCHANGED <<now, am, missed, tried, syncErr>> /\ pc = "patch" BY <1>6 DEF SyncPatch, Outside
  <2>2. syncErr' = FALSE BY <2>1 DEF Budget
  <2>3. Spent' => Spent BY <2>1, <2>2 DEF Spent
  <2> QED BY <1>0, <2>1, <2>3, CoveredKinds
<1>7. CASE SyncFails
  <2>1. UNCHANGED <<now, am>> /\ missed' = missed + 1 BY <1>7 DEF SyncFails, Fault, Outside
  <2> QED BY <1>0, <2>1, CoveredKinds
<1>8. CASE Decide
  <2>1. UNCHANGED <<now, am, missed>> /\ pc = "decide" BY <1>8 DEF Decide, Outside
  <2>2. CASE NextTask(record) # "idle"
    <3>1. NextTask(record) # "decide" BY DEF NextTask
    <3>2. UNCHANGED tried /\ pc' # "decide" BY <1>8, <2>2, <3>1 DEF Decide
    <3>3. Spent' => Spent BY <3>2 DEF Spent
    <3> QED BY <1>0, <2>1, <3>3, CoveredKinds
  <2>3. CASE NextTask(record) = "idle" /\ ~syncErr
    <3>1. ~RenewalDue(record) BY <1>0, <2>3 DEF NextTask, Undisturbed
    <3>2. now < record.lastSent + Refresh BY <3>1, BoundsAssumption DEF RenewalDue, TypeOK, Status
    <3> QED BY <1>0, <2>1, <3>2, CoveredKinds
  <2>4. CASE syncErr
    <3>1. Spent' => Spent BY <2>1, <2>4 DEF Spent
    <3> QED BY <1>0, <2>1, <3>1, CoveredKinds
  <2> QED BY <2>2, <2>3, <2>4
<1>9. CASE Clear \/ InitialFiring
  BY <1>0, <1>9 DEF Clear, InitialFiring, TaskStands, Undisturbed
<1>10. CASE SendAccepted \/ SendFails
  <2>1. pc = "renew" BY <1>0, <1>10 DEF SendAccepted, SendFails, TaskStands
  <2>2. now' = now BY <1>10 DEF SendAccepted, SendFails, Outside
  <2>3. CASE am' = Posted(Event)
    <3>1. Firing(record.startsAt).firing = TRUE BY DEF Firing
    <3>2. am'.endsAt = now + Lifetime BY <2>1, <2>3, <3>1, PostedTells
    <3> QED BY <1>0, <2>2, <3>2, CoveredKinds
  <2>4. CASE SendFails /\ am' = am
    <3>1. missed' = missed + 1 BY <2>4 DEF SendFails, Fault
    <3> QED BY <1>0, <2>2, <2>4, <3>1, CoveredKinds
  <2> QED BY <1>10, <2>3, <2>4 DEF SendAccepted, SendFails
<1>11. CASE Conflict
  <2>1. pc = "renewed" /\ now' = now /\ am' = am
    BY <1>0, <1>11 DEF Conflict, Outside, TaskStands, Undisturbed
  <2>2. am.endsAt = now + Lifetime BY <2>1 DEF Budget, JustPosted
  <2> QED BY <1>0, <2>1, <2>2, CoveredKinds
<1>12. CASE ReconcileStops
  <2>1. UNCHANGED <<now, am>> /\ missed' = missed + 1 BY <1>12 DEF ReconcileStops, Fault, Outside
  <2> QED BY <1>0, <2>1, CoveredKinds
<1> QED BY <1>1, <1>2, <1>3, <1>4, <1>5, <1>6, <1>7, <1>8, <1>9, <1>10, <1>11, <1>12 DEF Next, ReconcileStep

(* Nobody else reaches the Alertmanager under the conditions. *)
LEMMA JustPostedStep ==
  ASSUME RenewalConditions, TypeOK, CopiesCurrent, TaskStands, Undisturbed, Budget, [Next]_vars, JustPosted'
  PROVE  am'.endsAt = now' + Lifetime
<1>0. pc' \in {"ack", "renewed"} BY DEF JustPosted
<1>1. CASE SendAccepted
  <2>1. /\ record' = record /\ am' = Posted(Event) /\ pc \in {"send", "renew"} /\ now' = now
        /\ pc' = IF pc = "send" THEN "ack" ELSE "renewed"
    BY <1>1 DEF SendAccepted, Outside
  <2>2. Firing(record.startsAt).firing = TRUE BY DEF Firing
  <2>3. CASE pc = "send" BY <2>1, <2>3, PostedTells DEF JustPosted
  <2>4. CASE pc = "renew" BY <2>1, <2>2, <2>4, PostedTells
  <2> QED BY <2>1, <2>3, <2>4
<1>2. CASE pc' = pc
  <2>1. record' = record
    BY <1>0, <1>2, RecordMoves
      DEF SyncPatch, Clear, InitialFiring, Acknowledge, AcknowledgeRenewal, Return
  <2>2. now' = now BY <1>0, <1>2, TickMoves
  <2>3. am' = am
    <3>1. CASE LateArrival BY <3>1 DEF LateArrival, Undisturbed
    <3>2. CASE Clear BY <1>0, <1>2, <3>2 DEF Clear
    <3>3. CASE FinishRead \/ FinishWrite \/ RunChanges \/ ConfigChanges \/ Tick \/ UNCHANGED vars
      BY <3>3 DEF FinishRead, FinishWrite, RunChanges, ConfigChanges, Tick, vars
    <3>4. CASE SyncReadRun \/ SyncReadResult \/ SyncPatch \/ SyncFails \/ Decide
      BY <3>4 DEF SyncReadRun, SyncReadResult, SyncPatch, SyncFails, Decide
    <3>5. CASE InitialFiring \/ Acknowledge \/ AcknowledgeRenewal \/ Conflict \/ ReconcileStops
      BY <3>5 DEF InitialFiring, Acknowledge, AcknowledgeRenewal, Conflict, ReconcileStops
    <3>6. CASE SendAccepted \/ SendFails BY <1>0, <1>2, <3>6 DEF SendAccepted, SendFails
    <3> QED BY <3>1, <3>2, <3>3, <3>4, <3>5, <3>6 DEF Next, ReconcileStep
  <2>4. JustPosted BY <1>2, <2>1 DEF JustPosted
  <2> QED BY <2>2, <2>3, <2>4 DEF Budget
<1> QED
  <2>1. CASE Decide
    <3>1. NextTask(record) \notin {"ack", "renewed"} BY DEF NextTask
    <3> QED BY <1>0, <2>1, <3>1 DEF Decide, Return
  <2>2. CASE SyncReadRun \/ SyncReadResult \/ SyncFails \/ SyncPatch
    BY <1>0, <2>2 DEF SyncReadRun, SyncReadResult, SyncFails, SyncPatch
  <2> QED BY <1>0, <1>1, <1>2, <2>1, <2>2, PcMoves

LEMMA BudgetStep ==
  ASSUME RenewalConditions, TypeOK, CopiesCurrent, TaskStands, History(record), Undisturbed, Budget, [Next]_vars
  PROVE  Budget'
<1>0. /\ record.lastSent \in Nat /\ now \in Nat /\ missed \in Nat /\ record.lastSent <= now
      /\ Lifetime \in Nat /\ Refresh \in Nat
  BY BoundsAssumption DEF TypeOK, Status, Budget
<1>1. record'.lastSent <= now'
  <2>1. record'.lastSent \in {record.lastSent, 0, now} BY LiveMoves
  <2>2. now' = now \/ now' = now + 1 BY TickMoves
  <2> QED BY <1>0, <2>1, <2>2
<1>2. pc' \in {"result", "patch"} => syncErr' = FALSE
  <2>1. CASE SyncReadRun BY <2>1 DEF SyncReadRun
  <2>2. CASE SyncReadResult BY <2>2 DEF SyncReadResult, Budget
  <2>3. CASE SyncFails \/ SyncPatch \/ SendAccepted BY <2>3 DEF SyncFails, SyncPatch, SendAccepted
  <2>4. CASE Decide
    <3>1. NextTask(record) \notin {"result", "patch"} BY DEF NextTask
    <3> QED BY <2>4, <3>1 DEF Decide, Return
  <2>5. CASE FinishRead \/ FinishWrite \/ RunChanges \/ ConfigChanges \/ LateArrival \/ Tick \/ UNCHANGED vars
    <3>1. UNCHANGED <<pc, syncErr>>
      BY <2>5 DEF FinishRead, FinishWrite, RunChanges, ConfigChanges, LateArrival, Tick, vars
    <3> QED BY <3>1 DEF Budget
  <2>6. CASE Clear \/ InitialFiring \/ Acknowledge \/ AcknowledgeRenewal \/ SendFails \/ Conflict \/ ReconcileStops
    BY <2>6 DEF Clear, InitialFiring, Acknowledge, AcknowledgeRenewal, SendFails, Conflict, ReconcileStops, Return
  <2> QED BY <2>1, <2>2, <2>3, <2>4, <2>5, <2>6 DEF Next, ReconcileStep
<1>3. JustPosted' => am'.endsAt = now' + Lifetime BY JustPostedStep
<1>4. Live' => Covered'
  <2>1. CASE Live /\ record'.lastSent = record.lastSent /\ ~Acknowledge /\ ~AcknowledgeRenewal
    BY <2>1, CoveredStep
  <2>2. CASE (Acknowledge \/ AcknowledgeRenewal) /\ record'.lastSent = now /\ am.endsAt = now + Lifetime
    <3>1. am' = am /\ now' = now /\ missed' = 0 BY <2>2 DEF Acknowledge, AcknowledgeRenewal, Outside
    <3>2. /\ now + Lifetime <= now + Lifetime + Refresh + 0
          /\ now + 1 + Lifetime <= now + Lifetime + Refresh + 0
      BY <1>0, CoveredArithmetic
    <3> QED BY <1>0, <2>2, <3>1, <3>2 DEF Covered
  <2>3. CASE Live /\ (Acknowledge \/ AcknowledgeRenewal) /\ (record' = record \/ SyncPatch) /\ Live'
    <3>1. pc # "ack" /\ ~SyncPatch
      BY <2>3 DEF Live, TaskStands, SyncPatch, Acknowledge, AcknowledgeRenewal
    <3>2. AcknowledgeRenewal /\ pc = "renewed" BY <2>3, <3>1 DEF Acknowledge, AcknowledgeRenewal
    <3>3. record'.lastSent = now
      <4>1. copy = record /\ copy \in Status BY <3>2 DEF CopiesCurrent, Working, TypeOK
      <4> QED BY <3>2, <4>1 DEF AcknowledgeRenewal, Patch, Status
    <3>4. am.endsAt = now + Lifetime BY <3>2 DEF Budget, JustPosted
    <3> QED BY <2>2, <3>2, <3>3, <3>4
  <2> QED BY <2>1, <2>2, <2>3, LiveMoves
<1> QED BY <1>1, <1>2, <1>3, <1>4 DEF Budget

(* A firing alert does not lapse: under RenewalConditions, which the run    *)
(* of the renewal satisfies, the Alertmanager holds an unexpired firing     *)
(* alert for every record whose alert was delivered and that remains True.  *)
(* MaxMissed faults since the last acknowledged delivery are tolerated,     *)
(* exactly as many as fit between the refresh interval and the lifetime.    *)
THEOREM NeverLapses == ASSUME RenewalConditions PROVE Spec => []NoLapse
<1> DEFINE Inv == TypeOK /\ DeliveryInv /\ RenewalInv
<1>1. Init => Inv BY TypeInit, HistoryInit, DeliveryInit, RenewalInit DEF DeliveryInv
<1>2. Inv /\ [Next]_vars => Inv'
  <2> SUFFICES ASSUME Inv, [Next]_vars PROVE Inv' OBVIOUS
  <2>1. TypeOK' /\ DeliveryInv'
    BY TypeStep, HistoryStep, DeliveredStep, LastWordStep, ObservedStep DEF DeliveryInv
  <2>2. RenewalInv' BY UndisturbedStep, BudgetStep DEF DeliveryInv, RenewalInv
  <2> QED BY <2>1, <2>2
<1>3. Inv => NoLapse
  <2> SUFFICES ASSUME Inv, record.queue = <<>>, record.lastSent # 0, am.tracked
               PROVE  am.firing /\ now < am.endsAt
    BY DEF NoLapse
  <2>1. am.firing BY DEF DeliveryInv, LastWordAgrees
  <2>2. now + Lifetime <= am.endsAt + Refresh + missed /\ missed <= MaxMissed
    BY DEF RenewalInv, Budget, Live, Covered, Undisturbed
  <2>3. now < am.endsAt
    <3>1. {now, am.endsAt, missed, Lifetime, Refresh, MaxMissed} \subseteq Nat /\ Refresh + MaxMissed < Lifetime
      BY BoundsAssumption DEF TypeOK, AlertType, RenewalConditions
    <3> QED BY <2>2, <3>1
  <2> QED BY <2>1, <2>3
<1> QED BY <1>1, <1>2, <1>3, PTL DEF Spec
=============================================================================
