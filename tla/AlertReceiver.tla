--------------------------- MODULE AlertReceiver ----------------------------
(***************************************************************************)
(* The alert receiver and the Alertmanager that calls it.                  *)
(*                                                                         *)
(* The Alertmanager (external) sends a group of alerts to the webhook when *)
(* the group has changed since the last notification it got an answer for, *)
(* or when repeat_interval has passed, and tries again after an error.     *)
(* HandleWebhook (handler.go) reads the body, the monitored clusters and   *)
(* the alert names of the rules, then starts a run for every firing alert  *)
(* of the payload that both name.  What starting a run does is             *)
(* RunCreation's matter: here it succeeds or fails.                        *)
(***************************************************************************)
EXTENDS Naturals, Sequences, FiniteSets, Functions

CONSTANTS
  Alerts,      \* the alerts of one notification group
  ClusterOf,   \* alert -> its cluster label
  Config,      \* alert -> its run configuration: ok, broken, empty or none
  Quoted,      \* alerts whose rule writes the name in quotes
  Unnameable,  \* alerts whose name does not make a valid object name
  MaxPayload,  \* alerts that fit into the megabyte the handler reads
  Clusters,
  MaxChanges,  \* bound on changes of alerts, clusters and rules
  MaxFaults    \* bound on failed calls

ASSUME AlertsAssumption ==
  /\ IsFiniteSet(Alerts)
  /\ ClusterOf \in [Alerts -> Clusters]
  /\ Config \in [Alerts -> {"ok", "broken", "empty", "none"}]
  /\ Quoted \subseteq Alerts /\ Unnameable \subseteq Alerts
ASSUME BoundsAssumption == {MaxPayload, MaxChanges, MaxFaults} \subseteq Nat

VARIABLES
  firing,     \* alerts that fire now
  sent,       \* alerts that fired in the last notification answered 200
  monitored,  \* status.monitoredClusters
  rules,      \* alerts the rules ConfigMap defines
  pc,         \* the handler: idle, body, clusters, names, loop, answer
  payload,    \* the alerts of the request still to visit
  whole,      \* the firing alerts of the request
  clusters,   \* the monitored clusters it has read
  names,      \* the alert names it has read
  unread,     \* the names could not be read
  tried,      \* the alerts of the request it tried to start a run for
  served,     \* alerts that got a run since they fire
  changes, faults

vars == <<firing, sent, monitored, rules, pc, payload, whole, clusters, names, unread, tried, served, changes, faults>>

outside == <<firing, monitored, rules, changes>>
request == <<payload, whole, clusters, names, unread, tried>>

Init ==
  /\ firing = {} /\ sent = {}
  /\ monitored = Clusters /\ rules = Alerts
  /\ pc = "idle"
  /\ payload = <<>> /\ whole = {} /\ clusters = {} /\ names = {} /\ unread = FALSE /\ tried = {}
  /\ served = {}
  /\ changes = 0 /\ faults = 0

-----------------------------------------------------------------------------
(* The Alertmanager *)

(* An alert joined or left the firing ones, or repeat_interval has passed. *)
NeedsUpdate == firing # sent \/ firing # {}

Orders(set) == {s \in [1 .. Cardinality(set) -> set] : Range(s) = set}

(* The group is posted as a whole, the alerts that have resolved since the  *)
(* last notification included.  An empty group is never posted.             *)
Post ==
  /\ pc = "idle" /\ NeedsUpdate
  /\ pc' = "body"
  /\ payload' \in Orders(firing \cup sent)
  /\ whole' = firing /\ clusters' = {} /\ names' = {} /\ unread' = FALSE /\ tried' = {}
  /\ UNCHANGED <<sent, served, faults>> /\ UNCHANGED outside

(* 200: the notification counts as delivered.  400, 500, or no answer: it   *)
(* does not, and is sent again.                                             *)
Answer ==
  /\ pc = "answer"
  /\ pc' = "idle" /\ sent' = whole
  /\ UNCHANGED <<served, faults>> /\ UNCHANGED request /\ UNCHANGED outside

NoAnswer == pc' = "idle" /\ UNCHANGED <<sent>>

-----------------------------------------------------------------------------
(* HandleWebhook and processAlerts *)

Fault == faults < MaxFaults /\ faults' = faults + 1

(* The body is read and parsed; the Alertmanager calls with POST.  A body   *)
(* above the limit is cut off and is no JSON any more: it is answered 400,  *)
(* as is a body that could not be read.                                     *)
ReadBody ==
  /\ pc = "body"
  /\ \/ Len(payload) <= MaxPayload /\ pc' = "clusters" /\ UNCHANGED <<sent, faults>>
     \/ Len(payload) > MaxPayload /\ NoAnswer /\ UNCHANGED faults
     \/ Fault /\ NoAnswer
  /\ UNCHANGED served /\ UNCHANGED request /\ UNCHANGED outside

(* The singleton's status is read; a failed read is answered 500. *)
GetMonitoredClusters ==
  /\ pc = "clusters"
  /\ \/ /\ clusters' = monitored
        /\ pc' = "names" /\ UNCHANGED <<sent, faults>>
     \/ /\ Fault /\ NoAnswer /\ UNCHANGED clusters
  /\ UNCHANGED <<payload, whole, names, unread, tried, served>> /\ UNCHANGED outside

(* parseAlertNamesFromRulesYAML takes the rest of the line: a name that the *)
(* rule writes in quotes is read with them and is no alert's name.          *)
ParseAlertNames(defined) == defined \ Quoted

(* getDefinedAlertNames; when the read fails every alert is skipped and the *)
(* answer is 200.                                                           *)
GetDefinedAlertNames ==
  /\ pc = "names"
  /\ \/ /\ names' = ParseAlertNames(rules)
        /\ pc' = "loop"
        /\ UNCHANGED <<unread, faults>>
     \/ /\ Fault
        /\ unread' = TRUE
        /\ pc' = "answer"
        /\ UNCHANGED names
  /\ UNCHANGED <<sent, payload, whole, clusters, tried, served>> /\ UNCHANGED outside

(* Wrong on purpose: the status of the alert is not looked at. *)
MatchesResolved(a) == ClusterOf[a] \in clusters /\ a \in names

(* Firing when it was sent, on a monitored cluster, with a defined name. *)
Matches(a) == a \in whole /\ ClusterOf[a] \in clusters /\ a \in names

(* resolveAlertConfigMap finds a ConfigMap for the alert. *)
Resolves(a) == Config[a] # "none"

(* LoadRunConfig can parse it. *)
Loads(a) == Config[a] # "broken"

(* Without a ConfigMap, or without a request in it, the alert is skipped    *)
(* and that is no error.                                                    *)
Skips(a) == ~Resolves(a) \/ (Loads(a) /\ Config[a] = "empty")

(* The name of the run is built from the alert's, and the API server        *)
(* refuses the record and the run if the result is no object name.          *)
Starts(a) == Loads(a) /\ a \notin Unnameable

Serve(a) == served' = served \cup {a}

(* Wrong on purpose: a failed alert ends the loop and is answered 500. *)
FailedAlertReturns == NoAnswer /\ UNCHANGED <<payload, whole, clusters, names, unread>>

(* Wrong on purpose: break in place of continue. *)
FailedAlertBreaks == pc' = "answer" /\ UNCHANGED <<sent, payload, whole, clusters, names, unread>>

(* A run that could not be started is logged; the next alert follows. *)
FailedAlert == payload' = Tail(payload) /\ UNCHANGED <<pc, sent, whole, clusters, names, unread>>

(* One alert: not to be handled, without configuration, or its run is       *)
(* started, which may fail before or after it takes effect.                 *)
VisitAlert ==
  /\ pc = "loop" /\ payload # <<>>
  /\ LET a == Head(payload) IN
     \/ /\ ~Matches(a)
        /\ payload' = Tail(payload)
        /\ UNCHANGED <<pc, sent, whole, clusters, names, unread, tried, served, faults>>
     \/ /\ Matches(a) /\ (Starts(a) \/ Skips(a))
        /\ payload' = Tail(payload)
        /\ tried' = tried \cup {a}
        /\ IF Skips(a) THEN UNCHANGED served ELSE Serve(a)
        /\ UNCHANGED <<pc, sent, whole, clusters, names, unread, faults>>
     \/ /\ Matches(a) /\ ~Starts(a) /\ ~Skips(a)
        /\ tried' = tried \cup {a}
        /\ FailedAlert
        /\ UNCHANGED <<served, faults>>
     \/ /\ Matches(a) /\ Starts(a) /\ ~Skips(a) /\ Fault
        /\ tried' = tried \cup {a}
        /\ FailedAlert
        /\ Serve(a) \/ UNCHANGED served
  /\ UNCHANGED outside

LoopEnds ==
  /\ pc = "loop" /\ payload = <<>>
  /\ pc' = "answer"
  /\ UNCHANGED <<sent, served, faults>> /\ UNCHANGED request /\ UNCHANGED outside

(* The connection breaks or the receiver stops: the context of the request  *)
(* is cancelled, and the rest of it is not done.                            *)
Disconnect ==
  /\ pc # "idle" /\ Fault /\ NoAnswer
  /\ UNCHANGED served /\ UNCHANGED request /\ UNCHANGED outside

-----------------------------------------------------------------------------
(* The clusters, the rules and the alerts change *)

Change == changes < MaxChanges /\ changes' = changes + 1 /\ UNCHANGED <<sent, pc, faults>> /\ UNCHANGED request

AlertFires ==
  /\ Change
  /\ \E a \in Alerts \ firing : firing' = firing \cup {a} /\ served' = served \ {a}
  /\ UNCHANGED <<monitored, rules>>

AlertResolves ==
  /\ Change
  /\ \E a \in firing : firing' = firing \ {a}
  /\ UNCHANGED <<monitored, rules, served>>

MonitoredChange ==
  /\ Change
  /\ \E k \in Clusters : monitored' = IF k \in monitored THEN monitored \ {k} ELSE monitored \cup {k}
  /\ UNCHANGED <<firing, rules, served>>

RulesChange ==
  /\ Change
  /\ \E a \in Alerts : rules' = IF a \in rules THEN rules \ {a} ELSE rules \cup {a}
  /\ UNCHANGED <<firing, monitored, served>>

HandlerStep == ReadBody \/ GetMonitoredClusters \/ GetDefinedAlertNames \/ VisitAlert \/ LoopEnds \/ Answer

Next ==
  \/ Post \/ HandlerStep \/ Disconnect
  \/ AlertFires \/ AlertResolves \/ MonitoredChange \/ RulesChange

Spec == Init /\ [][Next]_vars

(* The Alertmanager notifies and the handler runs. *)
Fairness == WF_vars(Post) /\ WF_vars(HandlerStep)

FairSpec == Spec /\ Fairness

-----------------------------------------------------------------------------
(* Properties *)

(* The variables keep the shapes the code gives them. *)
TypeOK ==
  /\ firing \subseteq Alerts /\ sent \subseteq Alerts /\ rules \subseteq Alerts /\ names \subseteq Alerts
  /\ monitored \subseteq Clusters /\ clusters \subseteq Clusters
  /\ pc \in {"idle", "body", "clusters", "names", "loop", "answer"}
  /\ payload \in Seq(Alerts)
  /\ whole \subseteq Alerts /\ tried \subseteq whole /\ unread \in BOOLEAN
  /\ served \subseteq Alerts
  /\ changes \in 0 .. MaxChanges /\ faults \in 0 .. MaxFaults

(* A request answered 200 has tried every alert of the payload that was     *)
(* monitored and defined when it was read: a failure of one alert does not  *)
(* take the others with it.  (Nothing is tried when the names were not      *)
(* read.)                                                                   *)
AnswerCoversPayload ==
  pc = "answer" /\ ~unread => {a \in whole : Matches(a)} \subseteq tried

(* An alert that keeps firing on a monitored cluster, with a rule and a     *)
(* configuration that load, gets its run in the end: neither an alert that  *)
(* always fails, nor lost answers, nor a notification that was answered 200 *)
(* although it was dropped, keep it from one for ever.  Two kinds of alerts *)
(* never get one: those whose name makes no object name (an underscore is   *)
(* enough), and those of a group that outgrows what the handler reads, whom *)
(* every repetition answers 400.                                            *)
FiringIsTried ==
  \A a \in Alerts :
    LET Due == /\ a \in firing /\ ClusterOf[a] \in monitored /\ a \in ParseAlertNames(rules) /\ Config[a] = "ok"
               /\ a \notin Unnameable /\ Cardinality(firing \cup sent) <= MaxPayload
    IN  Due ~> (a \in served \/ ~Due)

=============================================================================
