------------------------ MODULE AlertReceiverProofs -------------------------
(* Proofs about AlertReceiver, for any group of alerts, clusters and bounds. *)
EXTENDS AlertReceiver, FiniteSetTheorems, TLAPS

-----------------------------------------------------------------------------
(* What the handler owes: an alert of the request that matches was tried or *)
(* is still in the payload.                                                 *)
Remaining ==
  /\ pc \in {"body", "clusters", "names"} => whole \subseteq Range(payload)
  /\ pc = "loop" => {a \in whole : Matches(a)} \subseteq tried \cup Range(payload)

ReceiverInv == TypeOK /\ Remaining /\ AnswerCoversPayload

(* The payload of a request is a sequence of its alerts. *)
LEMMA OrdersType ==
  ASSUME NEW set, set \subseteq Alerts, NEW s \in Orders(set)
  PROVE  s \in Seq(Alerts) /\ Range(s) = set
<1>1. IsFiniteSet(set) BY AlertsAssumption, FS_Subset
<1>2. Cardinality(set) \in Nat BY <1>1, FS_CardinalityType
<1>3. s \in [1 .. Cardinality(set) -> set] /\ Range(s) = set BY DEF Orders
<1>4. s \in Seq(set) BY <1>2, <1>3
<1> QED BY <1>3, <1>4

(* The head of the payload and what follows it. *)
LEMMA PayloadParts ==
  ASSUME NEW s \in Seq(Alerts), s # <<>>
  PROVE  Head(s) \in Alerts /\ Tail(s) \in Seq(Alerts) /\ Range(s) \subseteq {Head(s)} \cup Range(Tail(s))
<1>1. Head(s) \in Alerts /\ Tail(s) \in Seq(Alerts) OBVIOUS
<1>2. ASSUME NEW i \in DOMAIN s PROVE s[i] \in {Head(s)} \cup Range(Tail(s))
  <2>1. CASE i = 1 BY <2>1
  <2>2. CASE i # 1
    <3>1. i - 1 \in DOMAIN Tail(s) /\ Tail(s)[i - 1] = s[i] BY <1>2, <2>2
    <3> QED BY <3>1 DEF Range
  <2> QED BY <2>1, <2>2
<1> QED BY <1>1, <1>2 DEF Range

LEMMA ReceiverInit == Init => ReceiverInv
<1> SUFFICES ASSUME Init PROVE ReceiverInv OBVIOUS
<1>1. unread \in BOOLEAN BY DEF Init
<1>2. /\ firing = {} /\ sent = {} /\ monitored = Clusters /\ rules = Alerts /\ pc = "idle" /\ payload = <<>>
      /\ whole = {} /\ clusters = {} /\ names = {} /\ tried = {} /\ served = {} /\ changes = 0 /\ faults = 0
  BY DEF Init
<1>3. TypeOK BY <1>1, <1>2, BoundsAssumption DEF TypeOK
<1> QED BY <1>2, <1>3 DEF ReceiverInv, Remaining, AnswerCoversPayload

LEMMA FaultType ==
  ASSUME TypeOK, Fault
  PROVE  faults' \in 0 .. MaxFaults
  BY BoundsAssumption DEF TypeOK, Fault

LEMMA PostStep ==
  ASSUME ReceiverInv, Post
  PROVE  ReceiverInv'
<1>1. /\ pc' = "body" /\ payload' \in Orders(firing \cup sent) /\ whole' = firing
      /\ clusters' = {} /\ names' = {} /\ tried' = {}
      /\ UNCHANGED <<sent, served, faults, firing, monitored, rules, changes>>
  BY DEF Post, outside
<1>2. payload' \in Seq(Alerts) /\ Range(payload') = firing \cup sent
  BY <1>1, OrdersType DEF ReceiverInv, TypeOK
<1>3. unread' \in BOOLEAN BY DEF Post
<1>4. TypeOK' BY <1>1, <1>2, <1>3 DEF ReceiverInv, TypeOK
<1> QED BY <1>1, <1>2, <1>4 DEF ReceiverInv, Remaining, AnswerCoversPayload

LEMMA ReadStep ==
  ASSUME ReceiverInv, ReadBody \/ GetMonitoredClusters \/ GetDefinedAlertNames
  PROVE  ReceiverInv'
<1>0. CASE ReadBody
  <2>1. UNCHANGED <<payload, whole, clusters, names, unread, tried, served, firing, monitored, rules, changes, sent>>
    BY <1>0 DEF ReadBody, NoAnswer, request, outside
  <2>2. pc = "body" /\ pc' \in {"clusters", "idle"} /\ (faults' = faults \/ Fault)
    BY <1>0 DEF ReadBody, NoAnswer
  <2>3. TypeOK' BY <2>1, <2>2, FaultType DEF ReceiverInv, TypeOK
  <2> QED BY <2>1, <2>2, <2>3 DEF ReceiverInv, Remaining, AnswerCoversPayload
<1>1. CASE GetMonitoredClusters
  <2>1. UNCHANGED <<payload, whole, names, unread, tried, served, firing, monitored, rules, changes, sent>>
    BY <1>1 DEF GetMonitoredClusters, NoAnswer, outside
  <2>2. /\ pc = "clusters" /\ clusters' \in {clusters, monitored} /\ pc' \in {"names", "idle"}
        /\ faults' = faults \/ Fault
    BY <1>1 DEF GetMonitoredClusters, NoAnswer
  <2>3. TypeOK' BY <2>1, <2>2, FaultType DEF ReceiverInv, TypeOK
  <2> QED BY <2>1, <2>2, <2>3 DEF ReceiverInv, Remaining, AnswerCoversPayload
<1>2. CASE GetDefinedAlertNames
  <2>1. UNCHANGED <<sent, payload, whole, clusters, tried, served, firing, monitored, rules, changes>>
    BY <1>2 DEF GetDefinedAlertNames, outside
  <2>2. /\ pc = "names" /\ names' \in {names, ParseAlertNames(rules)} /\ pc' \in {"loop", "answer"}
        /\ faults' = faults \/ Fault
    BY <1>2 DEF GetDefinedAlertNames
  <2>3. unread' \in BOOLEAN /\ (pc' = "answer" => unread')
    BY <1>2 DEF GetDefinedAlertNames, ReceiverInv, TypeOK
  <2>4. ParseAlertNames(rules) \subseteq Alerts BY DEF ParseAlertNames, ReceiverInv, TypeOK
  <2>5. TypeOK' BY <2>1, <2>2, <2>3, <2>4, FaultType DEF ReceiverInv, TypeOK
  <2>6. AnswerCoversPayload' BY <2>3 DEF AnswerCoversPayload
  <2>7. Remaining' BY <2>1, <2>2 DEF ReceiverInv, Remaining
  <2> QED BY <2>5, <2>6, <2>7 DEF ReceiverInv
<1> QED BY <1>0, <1>1, <1>2

(* An alert leaves the payload as tried, or because it does not match. *)
LEMMA VisitStep ==
  ASSUME ReceiverInv, VisitAlert
  PROVE  ReceiverInv'
<1> DEFINE a == Head(payload)
<1>0. /\ pc = "loop" /\ payload # <<>>
      /\ UNCHANGED <<pc, sent, whole, clusters, names, unread, firing, monitored, rules, changes>>
      /\ payload' = Tail(payload)
  BY DEF VisitAlert, FailedAlert, outside
<1>1. (~Matches(a) /\ tried' = tried) \/ (Matches(a) /\ tried' = tried \cup {a}) BY DEF VisitAlert
<1>2. served' \subseteq served \cup {a} BY DEF VisitAlert, Serve
<1>3. faults' = faults \/ Fault BY DEF VisitAlert
<1>4. a \in Alerts /\ Tail(payload) \in Seq(Alerts) /\ Range(payload) \subseteq {a} \cup Range(Tail(payload))
  BY <1>0, PayloadParts DEF ReceiverInv, TypeOK
<1>5. TypeOK'
  <2>1. tried' \subseteq whole BY <1>1 DEF Matches, ReceiverInv, TypeOK
  <2>2. faults' \in 0 .. MaxFaults BY <1>3, FaultType DEF ReceiverInv, TypeOK
  <2> QED BY <1>0, <1>2, <1>4, <2>1, <2>2 DEF ReceiverInv, TypeOK
<1>6. Remaining'
  <2> SUFFICES ASSUME NEW b \in whole, Matches(b) PROVE b \in tried' \cup Range(Tail(payload))
    BY <1>0 DEF Remaining, Matches
  <2>1. b \in tried \cup {a} \cup Range(Tail(payload)) BY <1>0, <1>4 DEF ReceiverInv, Remaining
  <2> QED BY <1>1, <2>1
<1>7. AnswerCoversPayload' BY <1>0 DEF AnswerCoversPayload
<1> QED BY <1>5, <1>6, <1>7 DEF ReceiverInv

LEMMA EndStep ==
  ASSUME ReceiverInv, LoopEnds \/ Answer \/ Disconnect
  PROVE  ReceiverInv'
<1>1. CASE LoopEnds
  <2>1. /\ pc = "loop" /\ payload = <<>> /\ pc' = "answer"
        /\ UNCHANGED <<sent, served, faults, payload, whole, clusters, names, unread, tried, firing, monitored, rules, changes>>
    BY <1>1 DEF LoopEnds, request, outside
  <2>2. Range(payload) = {} BY <2>1 DEF Range
  <2>3. {a \in whole : Matches(a)} \subseteq tried BY <2>1, <2>2 DEF ReceiverInv, Remaining
  <2>4. AnswerCoversPayload' BY <2>1, <2>3 DEF AnswerCoversPayload, Matches
  <2> QED BY <2>1, <2>4 DEF ReceiverInv, TypeOK, Remaining
<1>2. CASE Answer
  BY <1>2 DEF Answer, request, outside, ReceiverInv, TypeOK, Remaining, AnswerCoversPayload
<1>3. CASE Disconnect
  BY <1>3, FaultType DEF Disconnect, NoAnswer, request, outside, ReceiverInv, TypeOK, Remaining, AnswerCoversPayload
<1> QED BY <1>1, <1>2, <1>3

LEMMA ChangeStep ==
  ASSUME ReceiverInv, AlertFires \/ AlertResolves \/ MonitoredChange \/ RulesChange \/ UNCHANGED vars
  PROVE  ReceiverInv'
<1>1. UNCHANGED <<sent, pc, faults, payload, whole, clusters, names, unread, tried>>
  BY DEF AlertFires, AlertResolves, MonitoredChange, RulesChange, Change, request, vars
<1>2. firing' \subseteq Alerts /\ served' \subseteq Alerts
  BY DEF AlertFires, AlertResolves, MonitoredChange, RulesChange, vars, ReceiverInv, TypeOK
<1>3. monitored' \subseteq Clusters
  BY DEF AlertFires, AlertResolves, MonitoredChange, RulesChange, vars, ReceiverInv, TypeOK
<1>4. rules' \subseteq Alerts
  BY DEF AlertFires, AlertResolves, MonitoredChange, RulesChange, vars, ReceiverInv, TypeOK
<1>5. changes' \in 0 .. MaxChanges
  BY BoundsAssumption DEF AlertFires, AlertResolves, MonitoredChange, RulesChange, Change, vars, ReceiverInv, TypeOK
<1>6. TypeOK' BY <1>1, <1>2, <1>3, <1>4, <1>5 DEF ReceiverInv, TypeOK
<1> QED BY <1>1, <1>6 DEF ReceiverInv, Remaining, AnswerCoversPayload, Matches

LEMMA ReceiverStep ==
  ASSUME ReceiverInv, [Next]_vars
  PROVE  ReceiverInv'
  BY PostStep, ReadStep, VisitStep, EndStep, ChangeStep DEF Next, HandlerStep

(* The inductive invariant: whatever fails, changes or disconnects, what a  *)
(* request still owes is in its payload.                                    *)
THEOREM Safety == Spec => []ReceiverInv
<1>1. ReceiverInv /\ [Next]_vars => ReceiverInv' BY ReceiverStep
<1> QED BY <1>1, ReceiverInit, PTL DEF Spec

(* The type invariant of the receiver and of the Alertmanager that calls it. *)
THEOREM TypeCorrect == Spec => []TypeOK
<1>1. ReceiverInv => TypeOK BY DEF ReceiverInv
<1> QED BY <1>1, Safety, PTL

(* A request that is answered 200 has tried every alert of its payload that *)
(* was monitored and defined when it was read, for any number of alerts in  *)
(* any order, and whichever of them fail.                                   *)
THEOREM EveryAlertTried == Spec => []AnswerCoversPayload
<1>1. ReceiverInv => AnswerCoversPayload BY DEF ReceiverInv
<1> QED BY <1>1, Safety, PTL
=============================================================================
