------------------------- MODULE AlertmanagerConfig -------------------------
(***************************************************************************)
(* The operator's entries in the shared Alertmanager configuration.        *)
(*                                                                         *)
(* alertmanager.go edits the alertmanager.yaml of the hub's Secret as a    *)
(* tree: it replaces, appends or removes the receiver and the route named  *)
(* telco-anomaly-webhook among those that administrators keep there.  Who  *)
(* may write the Secret, and when, is modelled in HubResources; here an    *)
(* edit is one step.  Accepted and Taken are how the Alertmanager          *)
(* (external) reads the result.                                            *)
(*                                                                         *)
(* The operator looks at the receivers and at the children of the root     *)
(* route only.  What administrators write elsewhere matters where it       *)
(* refers to the operator's receiver: the receiver of the root, and the    *)
(* routes nested in a child.                                               *)
(***************************************************************************)
EXTENDS Naturals, Sequences, SequencesExt

CONSTANTS
  Ours,         \* alertReceiverName
  Others,       \* names of the receivers of the administrators
  Default,      \* the receiver of the root route at the start, one of Others
  NoReceiver,   \* the root route has no receiver
  NoRoute,      \* there is no root route
  Alerts,       \* alerts that a route may match
  MaxRoutes,    \* bound on the top-level routes
  MaxReceivers  \* bound on the receivers

ASSUME NamesAssumption ==
  Ours \notin Others /\ Default \in Others /\ {NoReceiver, NoRoute} \cap (Others \cup {Ours}) = {}
ASSUME BoundsAssumption == {MaxRoutes, MaxReceivers} \subseteq Nat

VARIABLES
  receivers,  \* sequence of [name, url]
  root,       \* the receiver of the root route
  routes,     \* the children of the root: sequence of [receiver, matches, continue, nested]
  installed,  \* reconcileAlertManagerReceiver ran last, and not the removal
  author      \* who made the last edit: operator or administrator

vars == <<receivers, root, routes, installed, author>>

Receiver == [name : Others \cup {Ours}, url : {"service", "other"}]
Route ==  \* nested: a route nested in it leads to the operator's receiver
  [receiver : Others \cup {Ours}, matches : SUBSET Alerts, continue : BOOLEAN, nested : BOOLEAN]

(* The entries of the administrators. *)
TheirReceivers == {r \in Receiver : r.name # Ours}
TheirRoutes == {r \in Route : r.receiver # Ours}

(* The configuration is the default one, or still empty. *)
Init ==
  /\ \/ receivers = <<[name |-> Default, url |-> "other"]>> /\ root = Default
     \/ receivers = <<>> /\ root = NoRoute
  /\ routes = <<>>
  /\ installed = FALSE
  /\ author = "administrator"

-----------------------------------------------------------------------------
(* Merging one entry into a list *)

(* Wrong on purpose: the receiver's URL is left empty. *)
WebhookReceiverWithoutURL == [name |-> Ours, url |-> ""]

WebhookReceiver == [name |-> Ours, url |-> "service"]
(* Wrong on purpose: the route ends the walk. *)
FinalRoute == [receiver |-> Ours, matches |-> Alerts, continue |-> FALSE, nested |-> FALSE]

ContinueRoute == [receiver |-> Ours, matches |-> Alerts, continue |-> TRUE, nested |-> FALSE]

(* upsertReceiver: the first entry of that name is replaced. *)
UpsertReceiver(list) ==
  LET at == SelectInSeq(list, LAMBDA r : r.name = Ours)
  IN  IF at = 0 THEN Append(list, WebhookReceiver) ELSE [list EXCEPT ![at] = WebhookReceiver]

(* Wrong on purpose: the operator's route replaces the first one. *)
UpsertRouteFirst(list) == IF list = <<>> THEN <<ContinueRoute>> ELSE [list EXCEPT ![1] = ContinueRoute]

(* upsertRoute. *)
UpsertRoute(list) ==
  LET at == SelectInSeq(list, LAMBDA r : r.receiver = Ours)
  IN  IF at = 0 THEN Append(list, ContinueRoute) ELSE [list EXCEPT ![at] = ContinueRoute]

(* The loop that copies the entries to keep. *)
Kept(list, entries) ==
  LET kept[k \in 0 .. Len(list)] ==
        IF k = 0 THEN <<>> ELSE IF list[k] \in entries THEN Append(kept[k - 1], list[k]) ELSE kept[k - 1]
  IN  kept[Len(list)]

RemoveReceiver(list) == Kept(list, TheirReceivers)

(* Wrong on purpose: only the first of the operator's routes is removed. *)
RemoveFirstRoute(list) ==
  LET at == SelectInSeq(list, LAMBDA r : r.receiver = Ours)
  IN  IF at = 0 THEN list ELSE RemoveAt(list, at)

RemoveRoute(list) == Kept(list, TheirRoutes)

-----------------------------------------------------------------------------
(* Steps *)

(* reconcileAlertManagerReceiver, from the parsed configuration on.  A      *)
(* missing root route is added, to hold the child, without a receiver.      *)
UpsertWebhookReceiver ==
  /\ receivers' = UpsertReceiver(receivers)
  /\ root' = IF root = NoRoute THEN NoReceiver ELSE root
  /\ routes' = UpsertRoute(routes)
  /\ installed' = TRUE
  /\ author' = "operator"

(* removeAlertManagerReceiver, from the parsed configuration on; neither    *)
(* the root's receiver nor nested routes are looked at.                     *)
DeleteWebhookReceiver ==
  /\ receivers' = RemoveReceiver(receivers)
  /\ routes' = RemoveRoute(routes)
  /\ installed' = FALSE
  /\ author' = "operator"
  /\ UNCHANGED root

Defined(name) == \E k \in DOMAIN receivers : receivers[k].name = name

(* An administrator inserts a route anywhere, to any receiver that exists,  *)
(* the operator's included, or with a route to that one nested in it.       *)
AddRoute ==
  /\ root # NoRoute /\ Len(routes) < MaxRoutes
  /\ \E r \in Route, at \in 1 .. Len(routes) + 1 :
       /\ Defined(r.receiver) /\ (r.nested => Defined(Ours))
       /\ routes' = InsertAt(routes, at, r)
  /\ UNCHANGED <<receivers, root, installed>> /\ author' = "administrator"

DropRoute ==
  /\ \E at \in DOMAIN routes : routes' = RemoveAt(routes, at)
  /\ UNCHANGED <<receivers, root, installed>> /\ author' = "administrator"

AddReceiver ==
  /\ Len(receivers) < MaxReceivers
  /\ \E name \in {n \in Others : ~Defined(n)}, at \in 1 .. Len(receivers) + 1 :
       receivers' = InsertAt(receivers, at, [name |-> name, url |-> "other"])
  /\ UNCHANGED <<root, routes, installed>> /\ author' = "administrator"

(* An administrator points the operator's receiver elsewhere. *)
RetargetReceiver ==
  /\ \E at \in DOMAIN receivers :
       receivers[at].name = Ours /\ receivers' = [receivers EXCEPT ![at].url = "other"]
  /\ UNCHANGED <<root, routes, installed>> /\ author' = "administrator"

(* An administrator sends the alerts that no child matches to any receiver  *)
(* that exists.                                                             *)
SetRoot ==
  /\ \E name \in (Others \cup {Ours}) \ {root} : Defined(name) /\ root' = name
  /\ UNCHANGED <<receivers, routes, installed>> /\ author' = "administrator"

Administrator == AddRoute \/ DropRoute \/ AddReceiver \/ RetargetReceiver \/ SetRoot

Next == UpsertWebhookReceiver \/ DeleteWebhookReceiver \/ Administrator

Spec == Init /\ [][Next]_vars

-----------------------------------------------------------------------------
(* The Alertmanager *)

(* The routes an alert takes: the children in order, up to the first match  *)
(* that does not continue.                                                  *)
Taken(list, alert) ==
  {k \in DOMAIN list : /\ alert \in list[k].matches
                       /\ \A j \in 1 .. k - 1 : alert \in list[j].matches => list[j].continue}

(* The routes an alert takes, as they are written. *)
TakenRoutes(list, alert) == {list[k] : k \in Taken(list, alert)}

(* The configuration loads: receiver names are unique, the root has a       *)
(* receiver, and it, the routes and the nested routes name receivers that   *)
(* are defined.                                                             *)
Accepted ==
  /\ \A j, k \in DOMAIN receivers : receivers[j].name = receivers[k].name => j = k
  /\ Defined(root)
  /\ \A k \in DOMAIN routes : Defined(routes[k].receiver) /\ (routes[k].nested => Defined(Ours))

-----------------------------------------------------------------------------
(* Properties *)

(* The lists keep their shapes; a receiver has a URL. *)
TypeOK ==
  /\ receivers \in Seq(Receiver) /\ routes \in Seq(Route)
  /\ root \in Others \cup {Ours, NoReceiver, NoRoute}
  /\ installed \in BOOLEAN /\ author \in {"operator", "administrator"}

(* An administrator refers to the operator's receiver where it does not     *)
(* look.                                                                    *)
Relied == root = Ours \/ \E k \in DOMAIN routes : routes[k].nested

(* Whatever edits came in between, the Alertmanager accepts the             *)
(* configuration, with two exceptions that the code makes.  An empty one,   *)
(* or one without a route, gets a root route that has no receiver, which    *)
(* the Alertmanager refuses until somebody names one.  And a removal of the *)
(* operator's receiver leaves the root's receiver and the nested routes     *)
(* that an administrator pointed at it dangling, until it is installed      *)
(* again.                                                                   *)
ConfigurationValid ==
  root \notin {NoRoute, NoReceiver} /\ (installed \/ ~Relied) => Accepted

(* The entries of a list that are in the set, and that two lists have the   *)
(* same ones in the same order.                                             *)
Positions(list, entries) == {k \in DOMAIN list : list[k] \in entries}

SameEntries(list, other, entries) ==
  \E to \in [Positions(list, entries) -> Positions(other, entries)] :
    /\ \A k \in Positions(list, entries) : other[to[k]] = list[k]
    /\ \A j, k \in Positions(list, entries) : j < k => to[j] < to[k]
    /\ \A i \in Positions(other, entries) : \E k \in Positions(list, entries) : to[k] = i

(* All other configuration is preserved: a step of the operator leaves the  *)
(* root's receiver and the administrators' receivers and routes as they are *)
(* and in their order, and puts the webhook back that an administrator      *)
(* redirected.  (What is nested in a route to the operator's receiver goes  *)
(* with that route.)                                                        *)
OthersPreserved ==
  [][author' = "operator" =>
       /\ SameEntries(receivers, receivers', TheirReceivers)
       /\ SameEntries(routes, routes', TheirRoutes)
       /\ root # NoRoute => root' = root
       /\ installed' => \E k \in DOMAIN receivers' : receivers'[k] = WebhookReceiver]_vars

(* A continue route is added so that existing routing is not disrupted: a   *)
(* step of the operator takes no alert from a route of the administrators   *)
(* that it took before, wherever the operator's own routes are.  (It takes  *)
(* from the root's receiver the alerts that no other route matches.)        *)
RoutingKept ==
  [][author' = "operator" =>
       \A a \in Alerts : TakenRoutes(routes, a) \cap TheirRoutes \subseteq TakenRoutes(routes', a)]_vars
=============================================================================
