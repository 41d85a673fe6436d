----------------------------- MODULE RunEvents ------------------------------
(***************************************************************************)
(* Which events reach the run-record controller, and what it then reads.   *)
(*                                                                         *)
(* SetupWithManager of runAlertReconciler (runalerts.go) watches records,  *)
(* hub AgenticRuns, AnalysisResults and the singleton.  The informers keep *)
(* one pending event per object; a map function turns it, with live reads  *)
(* that may fail, into a request for the record.  Reconcile reads the run, *)
(* then its latest result, then patches the record, then brings the        *)
(* external alert in line.  RunAlerts has the delivery in detail and lets  *)
(* Reconcile start at any time; here is what makes it start.               *)
(*                                                                         *)
(* Times of conditions count from 1; 0 is a stamp that does not parse.     *)
(***************************************************************************)
EXTENDS Naturals, Sequences, SequencesExt

CONSTANTS
  Types,           \* condition types the run may have, among them Analyzed
  Unstamped,       \* those whose lastTransitionTime does not parse
  Absent,          \* no such object
  MaxTime,         \* bound on the clock
  MaxChanges,      \* bound on changes of run, result and configuration
  MaxFaults        \* bound on failed calls and crashes

ASSUME TypesAssumption == "Analyzed" \in Types /\ "" \notin Types /\ Unstamped \subseteq Types
ASSUME BoundsAssumption == {MaxTime, MaxChanges, MaxFaults} \subseteq Nat /\ MaxTime > 0

VARIABLES
  run,      \* the hub run: [conditions, refers], or Absent
  result,   \* actionRequired of its AnalysisResult, or Absent
  config,   \* spec.alertManager is set
  record,   \* [type, time, action, alert]: the condition, the action, and if an alert is out
  events,   \* objects with an event the controller has not handled
  queued,   \* the record is in the work queue
  timer,    \* the record is to be queued again after the refresh interval
  pc,       \* Reconcile: idle, result, patch, deliver
  latest,   \* the condition it has read
  action,   \* the action it has read
  lost,     \* a map function has dropped an event since the last resync or start
  now, changes, faults

vars == <<run, result, config, record, events, queued, timer, pc, latest, action, lost, now, changes, faults>>
hub == <<run, result, config, now, changes>>

NoCondition == [type |-> "", time |-> 0]
NewRecord == [type |-> "", time |-> 0, action |-> "", alert |-> FALSE]
Watched == {"record", "run", "result", "config"}

Init ==
  /\ run = [conditions |-> <<>>, refers |-> FALSE] /\ result = Absent /\ config = TRUE
  /\ record = NewRecord
  /\ events = {"record", "run"} /\ queued = FALSE /\ timer = FALSE
  /\ pc = "idle" /\ latest = NoCondition /\ action = "" /\ lost = FALSE
  /\ now = 1 /\ changes = 0 /\ faults = 0

-----------------------------------------------------------------------------
(* The condition and the action of a run *)

(* Wrong on purpose: the last condition of the list. *)
LatestConditionInList(list) == IF list = <<>> THEN NoCondition ELSE Last(list)

(* latestCondition: a stamp that is not before the newest one replaces it. *)
LatestCondition(list) ==
  LET newest[k \in 0 .. Len(list)] ==
        IF k = 0 THEN NoCondition
        ELSE IF list[k].time # 0 /\ list[k].time >= newest[k - 1].time THEN list[k] ELSE newest[k - 1]
  IN  newest[Len(list)]

(* Wrong on purpose: the action is written before a type is known. *)
SyncedWithoutType(old, condition, act) ==
  [old EXCEPT !.type = condition.type, !.time = condition.time,
              !.action = IF condition.type = "Analyzed" THEN act ELSE "False"]

(* The record as syncHubRunStatus leaves it. *)
Synced(old, condition, act) ==
  IF condition.type = "" THEN old
  ELSE [old EXCEPT !.type = condition.type, !.time = condition.time,
                   !.action = IF condition.type = "Analyzed" THEN act ELSE "False"]

-----------------------------------------------------------------------------
(* Reconcile *)

(* A change of the record is an event of its own. *)
PutRecord(new) ==
  /\ record' = new
  /\ events' = IF [new EXCEPT !.time = 0] = [record EXCEPT !.time = 0] THEN events ELSE events \cup {"record"}

Idle == pc' = "idle" /\ latest' = NoCondition /\ action' = ""

(* The run is read; without one the status is left alone. *)
ReadRun ==
  /\ pc = "idle" /\ queued
  /\ queued' = FALSE /\ timer' = FALSE
  /\ latest' = IF run = Absent THEN NoCondition ELSE LatestCondition(run.conditions)
  /\ action' = ""
  /\ pc' = IF run = Absent THEN "deliver" ELSE IF run.refers THEN "result" ELSE "patch"
  /\ UNCHANGED <<record, events, lost, faults>> /\ UNCHANGED hub

Firing == config /\ record.action = "True"

(* An error of the synchronization is retried.  If transitions are queued   *)
(* for delivery they are delivered before, otherwise Reconcile returns the  *)
(* error at once; the queue is RunAlerts's, so here it is either.           *)
SyncFails ==
  /\ queued' = TRUE
  /\ \/ Idle
     \/ pc' = "deliver" /\ UNCHANGED <<latest, action>>

(* The result the run refers to. *)
ReadResult ==
  /\ pc = "result"
  /\ IF result = Absent
     THEN SyncFails
     ELSE pc' = "patch" /\ action' = result /\ UNCHANGED <<latest, queued>>
  /\ UNCHANGED <<record, events, timer, lost, faults>> /\ UNCHANGED hub

PatchStatus ==
  /\ pc = "patch"
  /\ PutRecord(Synced(record, latest, action))
  /\ pc' = "deliver"
  /\ UNCHANGED <<queued, timer, latest, action, lost, faults>> /\ UNCHANGED hub

(* The alert follows the action; a firing one is renewed by the timer. *)
Deliver ==
  /\ pc = "deliver"
  /\ PutRecord([record EXCEPT !.alert = Firing])
  /\ timer' = Firing
  /\ Idle
  /\ UNCHANGED <<queued, lost, faults>> /\ UNCHANGED hub

-----------------------------------------------------------------------------
(* Events *)

Handled(o) == o \in events /\ events' = events \ {o}

RecordEvent ==
  /\ Handled("record")
  /\ queued' = TRUE
  /\ UNCHANGED <<record, timer, pc, latest, action, lost, faults>> /\ UNCHANGED hub

(* mapHubRunToRecords, mapHealthcheckToRuns: the records are listed live.   *)
(* (A change of the credentials Secret comes through the same list.)        *)
ListedEvent(o) ==
  /\ o \in {"run", "config"} /\ Handled(o)
  /\ queued' = TRUE
  /\ UNCHANGED <<record, timer, pc, latest, action, lost, faults>> /\ UNCHANGED hub

(* Wrong on purpose: a result that was read once is taken to be final. *)
ResultEventOnce ==
  /\ Handled("result")
  /\ queued' = (queued \/ (run # Absent /\ record.action = ""))
  /\ UNCHANGED <<record, timer, pc, latest, action, lost, faults>> /\ UNCHANGED hub

(* mapHubResultToRecords: the run is read live, too. *)
ResultEvent ==
  /\ Handled("result")
  /\ queued' = (queued \/ run # Absent)
  /\ UNCHANGED <<record, timer, pc, latest, action, lost, faults>> /\ UNCHANGED hub

TimerExpires ==
  /\ timer
  /\ timer' = FALSE /\ queued' = TRUE
  /\ UNCHANGED <<record, events, pc, latest, action, lost, faults>> /\ UNCHANGED hub

(* Every ten hours the informers repeat what they hold; an unchanged        *)
(* generation of the singleton is filtered out.                             *)
Resync ==
  /\ events' = events \cup {"record", "run", "result"}
  /\ lost' = FALSE
  /\ UNCHANGED <<record, queued, timer, pc, latest, action, faults>> /\ UNCHANGED hub

-----------------------------------------------------------------------------
(* Faults *)

Fault == faults < MaxFaults /\ faults' = faults + 1 /\ UNCHANGED <<record, hub>>

(* A map function logs the error of its read and returns no request. *)
MappingFails ==
  /\ Fault
  /\ \E o \in {"run", "result", "config"} : Handled(o)
  /\ lost' = TRUE
  /\ UNCHANGED <<queued, timer, pc, latest, action>>

CallFails ==
  /\ pc # "idle" /\ Fault
  /\ IF pc = "deliver" THEN Idle /\ queued' = TRUE ELSE SyncFails
  /\ UNCHANGED <<events, timer, lost>>

(* After a restart every object is an event. *)
Restart ==
  /\ Fault
  /\ Idle /\ queued' = FALSE /\ timer' = FALSE /\ lost' = FALSE
  /\ events' = Watched

-----------------------------------------------------------------------------
(* The agentic operator, users, and time *)

Change(o) ==
  /\ changes < MaxChanges /\ changes' = changes + 1
  /\ events' = events \cup {o}
  /\ UNCHANGED <<record, queued, timer, pc, latest, action, lost, now, faults>>

(* A condition transitions: replaced where it is, or appended. *)
SetCondition ==
  /\ run # Absent
  /\ Change("run")
  /\ \E t \in Types :
       LET condition == [type |-> t, time |-> IF t \in Unstamped THEN 0 ELSE now]
           at == SelectInSeq(run.conditions, LAMBDA c : c.type = t)
       IN  run' = [run EXCEPT !.conditions = IF at = 0 THEN Append(@, condition) ELSE [@ EXCEPT ![at] = condition]]
  /\ UNCHANGED <<result, config>>

(* The run refers to its result, perhaps before it can be read. *)
ReferResult ==
  /\ run # Absent
  /\ Change("run")
  /\ run' = [run EXCEPT !.refers = TRUE]
  /\ UNCHANGED <<result, config>>

WriteResult ==
  /\ Change("result")
  /\ result' \in {"", "True", "False"} \ {result}
  /\ UNCHANGED <<run, config>>

RunExpires ==
  /\ run # Absent
  /\ Change("run")
  /\ run' = Absent
  /\ UNCHANGED <<result, config>>

ConfigChanges ==
  /\ Change("config")
  /\ config' = ~config
  /\ UNCHANGED <<run, result>>

Tick ==
  /\ now < MaxTime
  /\ now' = now + 1
  /\ UNCHANGED <<run, result, config, record, events, queued, timer, pc, latest, action, lost, changes, faults>>

ReconcileStep == ReadRun \/ ReadResult \/ PatchStatus \/ Deliver
EventStep == RecordEvent \/ ListedEvent("run") \/ ListedEvent("config") \/ ResultEvent \/ TimerExpires

Next ==
  \/ ReconcileStep \/ EventStep \/ Resync
  \/ MappingFails \/ CallFails \/ Restart
  \/ SetCondition \/ ReferResult \/ WriteResult \/ RunExpires \/ ConfigChanges \/ Tick

Spec == Init /\ [][Next]_vars

(* The worker runs, every watch delivers and the timer expires, and the     *)
(* informers resync as the manager sets up by default.                      *)
Fairness ==
  /\ WF_vars(ReconcileStep) /\ WF_vars(Resync) /\ WF_vars(TimerExpires)
  /\ WF_vars(RecordEvent) /\ WF_vars(ResultEvent)
  /\ \A o \in {"run", "config"} : WF_vars(ListedEvent(o))

FairSpec == Spec /\ Fairness

-----------------------------------------------------------------------------
(* Properties *)

(* The variables keep their shapes; there is no action before a condition.  *)
TypeOK ==
  /\ record \in [type : Types \cup {""}, time : 0 .. MaxTime, action : {"", "True", "False"}, alert : BOOLEAN]
  /\ record.type = "" => record.action = "" /\ ~record.alert
  /\ events \subseteq Watched /\ {queued, timer, config, lost} \subseteq BOOLEAN
  /\ pc \in {"idle", "result", "patch", "deliver"}
  /\ latest.type \in Types \cup {""} /\ action \in {"", "True", "False"}
  /\ result \in {Absent, "", "True", "False"}

(* The latest condition by definition: a parsed stamp none is later than,   *)
(* and the last one in the list of those.                                   *)
IsLatest(c, list) ==
  \E k \in DOMAIN list :
    /\ list[k] = c /\ c.time # 0
    /\ \A j \in DOMAIN list : list[j].time < c.time \/ (list[j].time = c.time /\ j <= k)

(* The record shows the latest condition of the run, the action its result  *)
(* requires while that condition is Analyzed, and an alert exactly when an  *)
(* action is required and delivery is configured.                           *)
Agrees ==
  /\ record.alert = Firing
  /\ run # Absent =>
       \A c \in ToSet(run.conditions) :
         IsLatest(c, run.conditions) =>
           /\ record.type = c.type
           /\ record.action = IF c.type # "Analyzed" THEN "False" ELSE IF run.refers THEN result ELSE ""

(* Records are reconciled on run, result, record and configuration events:  *)
(* when no event, request or timer is left, the record agrees with the hub, *)
(* unless a map function has dropped an event since the last resync.        *)
RestIsSynced == events = {} /\ ~queued /\ ~timer /\ pc = "idle" /\ ~lost => Agrees

(* The condition in the record is never replaced by an older one of the run.*)
ConditionNeverOlder == [][record'.time >= record.time]_vars

(* Once the hub is quiet the record agrees in the end, also when an event   *)
(* was lost to a failed read (or its result cannot be read).                *)
EventuallySynced == <>[](Agrees \/ (run # Absent /\ run.refers /\ result = Absent))
=============================================================================
