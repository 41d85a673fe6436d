------------------------- MODULE HubResourcesProofs -------------------------
(***************************************************************************)
(* Proofs about HubResources.                                              *)
(*                                                                         *)
(* PassInv says where a pass stands: its steps belong to the singleton it  *)
(* works on and its last step writes that singleton, and while nobody else *)
(* has written it the copy is the stored one.  From there two arguments    *)
(* part.  What is complete at rest was completed by the last pass: SyncInv *)
(* carries what the pass has done so far.  What outlives the singleton was *)
(* tried, or skipped in a loop, by the pass that removed the finalizer:    *)
(* CleanInv carries what the pass has behind it, and says that no other    *)
(* pass can bring an object back once the finalizer is gone.               *)
(***************************************************************************)
EXTENDS HubResources, SequenceTheorems, TLAPS

-----------------------------------------------------------------------------
(* The inductive invariants *)

(* TypeOK in parts. *)
ViewOK(view) ==
  /\ DOMAIN view = Objects
  /\ \A o \in Objects \ {"thc"} : view[o] \in {Absent} \cup Contents(o)
  /\ view["thc"] \in Singleton \cup {Absent}

CopiesOK ==
  /\ lag \subseteq Objects
  /\ \A o \in Objects \ lag : cache[o] = store[o] \/ o \in {"rbac", "mcp"}

FlagsOK == queued \in BOOLEAN /\ fresh \in BOOLEAN /\ failed \in BOOLEAN

MineOK == mine \in Singleton \cup {Absent} /\ (mine = Absent <=> todo = <<>>)

CountsOK ==
  /\ missed \subseteq Managed /\ skipped \subseteq AlertSet \cup CheckSet
  /\ changes \in 0 .. MaxChanges /\ faults \in 0 .. MaxFaults

(* The step that writes the singleton, and only it, is the last of a pass. *)
Final == {"status", "addFinalizer", "finalizer"}

Closed(steps) == \A i \in 1 .. Len(steps) : steps[i] \in Final <=> i = Len(steps)

(* A pass has the steps of its kind. *)
StepsOf(thc) ==
  IF thc.deleting THEN Managed \cup {"finalizer"}
  ELSE IF thc.finalizer THEN Managed \cup {"clusters", "removed", "status"}
  ELSE {"addFinalizer"}

PlanOK == todo \in Seq(Managed \cup Steps) /\ Closed(todo) /\ (todo # <<>> => Range(todo) \subseteq StepsOf(mine))

(* Two versions of one singleton that the operator treats alike. *)
Alike(thc, other) ==
  thc.uid = other.uid /\ thc.spec = other.spec /\ thc.finalizer = other.finalizer /\ thc.deleting = other.deleting

(* While nobody else has written the singleton, the pass works on it. *)
FreshCopy == fresh => todo # <<>> /\ "thc" \notin lag /\ store["thc"] # Absent /\ Alike(store["thc"], mine)

PassInv ==
  ViewOK(store) /\ ViewOK(cache) /\ CopiesOK /\ FlagsOK /\ MineOK /\ CountsOK /\ PlanOK /\ FreshCopy

(* The content of an object that a pass guarantees: what is enabled exists, *)
(* and the kube-compare-mcp objects exist exactly when they are needed.     *)
Required == AlertSet \cup CheckSet \cup {"purge"} \cup Compare

Target(o, thc) ==
  IF o \in AlertSet THEN AlertWanted(o, thc)
  ELSE IF o \in CheckSet THEN CheckWanted(o, thc)
  ELSE IF o = "purge" THEN PurgeWanted(thc) ELSE CompareWanted(thc)

Fits(o, thc, content) == content = Target(o, thc) \/ (o \notin Compare /\ Target(o, thc) = Absent)

(* A failed removal of a kube-compare-mcp object will still be reported. *)
Reported(steps) == \A i \in 1 .. Len(steps) : steps[i] \in Compare => \E j \in i + 1 .. Len(steps) : steps[j] = "removed"

(* What a pass has behind it is done. *)
Behind ==
  /\ \A o \in Required : o \in Range(todo) \/ (o \in Compare /\ failed) \/ Fits(o, mine, store[o])
  /\ failed => "removed" \in Range(todo)
  /\ RDS \notin mine.spec.checks => Reported(todo)
  /\ "clusters" \in Range(todo) \/ queued \/ mine.status = Monitored(mine.spec, cache)

Progress == fresh /\ ~mine.deleting /\ mine.finalizer => Behind

(* Between passes, when no event of the singleton is under way. *)
Complete ==
  /\ \A o \in Required : Fits(o, store["thc"], store[o])
  /\ store["thc"].status = Monitored(store["thc"].spec, cache)

Settled == todo = <<>> /\ ~queued /\ "thc" \notin lag /\ Live => Complete

SyncInv == PassInv /\ Progress /\ Settled

Leftover == {o \in Managed \ {"purge"} : store[o] \notin {Absent, Bare}}
Accounted == missed \cup skipped

(* Who sees a singleton to be reconciled may trust that it still has its    *)
(* finalizer.                                                               *)
Guards(thc) == thc # Absent /\ thc.finalizer /\ ~thc.deleting => store["thc"] # Absent /\ store["thc"].finalizer
Guarded == Guards(mine) /\ Guards(cache["thc"])

(* Without the finalizer, an object that is left was missed or skipped. *)
Unclaimed == store["thc"] = Absent \/ ~store["thc"].finalizer => Leftover \subseteq Accounted

(* A cleanup has deleted, missed or skipped what it has behind it. *)
CleaningUp == fresh /\ mine.deleting => Leftover \ Range(todo) \subseteq Accounted

CleanInv == PassInv /\ Guarded /\ Unclaimed /\ CleaningUp

-----------------------------------------------------------------------------
(* Names, sequences and plans *)

(* The kinds of objects and the steps do not overlap. *)
LEMMA Names ==
  /\ Managed \subseteq Objects /\ "thc" \in Objects /\ "thc" \notin Managed
  /\ Managed \cap Steps = {} /\ Managed \cap (UserAlerts \cup Clusters) = {}
  /\ "thc" \notin UserAlerts \cup Clusters /\ UserAlerts \subseteq Objects /\ Clusters \subseteq Objects
  /\ Final \subseteq Steps /\ Required \subseteq Managed /\ Soft \subseteq Managed /\ Compare \subseteq Managed
  BY NamesAssumption DEF Managed, Objects, Steps, Soft, Compare, Final, Required

(* The rest of a sequence has the elements it had, but for those before. *)
LEMMA SuffixRange ==
  ASSUME NEW S, NEW s \in Seq(S), NEW n \in 1 .. Len(s)
  PROVE  /\ SubSeq(s, n, Len(s)) \in Seq(S) /\ SubSeq(s, n, Len(s)) # <<>>
         /\ Range(SubSeq(s, n, Len(s))) \subseteq Range(s)
         /\ \A x \in Range(s) : x \in Range(SubSeq(s, n, Len(s))) \/ \E i \in 1 .. n - 1 : s[i] = x
         /\ Len(SubSeq(s, n, Len(s))) = Len(s) - n + 1
         /\ \A i \in 1 .. Len(s) - n + 1 : SubSeq(s, n, Len(s))[i] = s[n + i - 1]
<1> DEFINE t == SubSeq(s, n, Len(s))
<1>1. t \in Seq(S) /\ Len(t) = Len(s) - n + 1 /\ \A i \in 1 .. Len(s) - n + 1 : t[i] = s[n + i - 1]
  OBVIOUS
<1>2. DOMAIN s = 1 .. Len(s) /\ DOMAIN t = 1 .. Len(t)
  BY <1>1
<1> HIDE DEF t
<1>3. t # <<>>
  <2>1. Len(t) > 0
    BY <1>1
  <2> QED BY <1>1, <2>1
<1>4. ASSUME NEW i \in 1 .. Len(t) PROVE t[i] \in Range(s)
  <2>1. n + i - 1 \in 1 .. Len(s) /\ t[i] = s[n + i - 1]
    BY <1>1
  <2> QED BY <2>1, <1>2 DEF Range
<1>5. ASSUME NEW k \in 1 .. Len(s), k >= n PROVE s[k] \in Range(t)
  <2>1. k - n + 1 \in 1 .. Len(t) /\ t[k - n + 1] = s[k]
    BY <1>1, <1>5
  <2> QED BY <2>1, <1>2 DEF Range
<1>6. \A x \in Range(s) : x \in Range(t) \/ \E i \in 1 .. n - 1 : s[i] = x
  <2> TAKE x \in Range(s)
  <2>1. PICK k \in 1 .. Len(s) : s[k] = x
    BY <1>2 DEF Range
  <2>2. k >= n \/ k \in 1 .. n - 1
    OBVIOUS
  <2> QED BY <2>1, <2>2, <1>5
<1>7. Range(t) \subseteq Range(s)
  BY <1>2, <1>4 DEF Range
<1> QED BY <1>1, <1>3, <1>6, <1>7 DEF t

(* A closed sequence stays closed when steps at its front are done. *)
LEMMA SuffixClosed ==
  ASSUME NEW S, NEW s \in Seq(S), NEW n \in 1 .. Len(s), Closed(s)
  PROVE  Closed(SubSeq(s, n, Len(s)))
<1>1. \A i \in 1 .. Len(s) - n + 1 : n + i - 1 \in 1 .. Len(s) /\ (i = Len(s) - n + 1 <=> n + i - 1 = Len(s))
  OBVIOUS
<1> DEFINE t == SubSeq(s, n, Len(s))
<1>2. Len(t) = Len(s) - n + 1 /\ \A i \in 1 .. Len(s) - n + 1 : t[i] = s[n + i - 1]
  BY SuffixRange
<1> HIDE DEF t
<1>3. Closed(t)
  BY <1>1, <1>2 DEF Closed
<1> QED BY <1>3 DEF t

(* Concatenation. *)
LEMMA ConcatRange ==
  ASSUME NEW S, NEW s \in Seq(S), NEW t \in Seq(S)
  PROVE  s \o t \in Seq(S) /\ Range(s \o t) = Range(s) \cup Range(t)
<1> DEFINE u == s \o t
<1>1. u \in Seq(S) /\ Len(u) = Len(s) + Len(t)
      /\ \A i \in 1 .. Len(u) : u[i] = IF i <= Len(s) THEN s[i] ELSE t[i - Len(s)]
  OBVIOUS
<1>2. DOMAIN s = 1 .. Len(s) /\ DOMAIN t = 1 .. Len(t) /\ DOMAIN u = 1 .. Len(u)
  BY <1>1
<1> HIDE DEF u
<1>3. ASSUME NEW x \in Range(u) PROVE x \in Range(s) \cup Range(t)
  <2>1. PICK i \in 1 .. Len(u) : u[i] = x
    BY <1>2 DEF Range
  <2>2. CASE i <= Len(s)
    BY <2>1, <2>2, <1>1, <1>2 DEF Range
  <2>3. CASE i > Len(s)
    <3>1. i - Len(s) \in 1 .. Len(t) /\ x = t[i - Len(s)]
      BY <2>1, <2>3, <1>1
    <3> QED BY <3>1, <1>2 DEF Range
  <2> QED BY <2>2, <2>3, <1>1
<1>4. ASSUME NEW x \in Range(s) PROVE x \in Range(u)
  <2>1. PICK i \in 1 .. Len(s) : s[i] = x
    BY <1>2 DEF Range
  <2>2. i \in 1 .. Len(u) /\ u[i] = x
    BY <2>1, <1>1
  <2> QED BY <2>2, <1>2 DEF Range
<1>5. ASSUME NEW x \in Range(t) PROVE x \in Range(u)
  <2>1. PICK i \in 1 .. Len(t) : t[i] = x
    BY <1>2 DEF Range
  <2>2. Len(s) + i \in 1 .. Len(u) /\ ~(Len(s) + i <= Len(s)) /\ Len(s) + i - Len(s) = i
    BY <1>1
  <2>3. u[Len(s) + i] = x
    BY <2>1, <2>2, <1>1
  <2> QED BY <2>2, <2>3, <1>2 DEF Range
<1> QED BY <1>1, <1>3, <1>4, <1>5 DEF u

LEMMA ConcatClosed ==
  ASSUME NEW S, NEW s \in Seq(S), NEW t \in Seq(S), Range(s) \cap Final = {}, Closed(t), t # <<>>
  PROVE  Closed(s \o t)
<1> DEFINE u == s \o t
<1>1. Len(u) = Len(s) + Len(t) /\ \A i \in 1 .. Len(u) : u[i] = IF i <= Len(s) THEN s[i] ELSE t[i - Len(s)]
  OBVIOUS
<1>2. \A i \in 1 .. Len(s) : s[i] \notin Final
  BY DEF Range
<1>3. Len(t) > 0
  OBVIOUS
<1> HIDE DEF u
<1>4. ASSUME NEW i \in 1 .. Len(u) PROVE u[i] \in Final <=> i = Len(u)
  <2>1. CASE i <= Len(s)
    <3>1. i \in 1 .. Len(s) /\ u[i] = s[i] /\ i # Len(u)
      BY <2>1, <1>1, <1>3
    <3> QED BY <3>1, <1>2
  <2>2. CASE i > Len(s)
    <3>1. i - Len(s) \in 1 .. Len(t) /\ u[i] = t[i - Len(s)] /\ (i = Len(u) <=> i - Len(s) = Len(t))
      BY <2>2, <1>1
    <3> QED BY <3>1 DEF Closed
  <2> QED BY <2>1, <2>2, <1>1
<1> QED BY <1>4 DEF Closed, u

(* The plans: steps of their kind, every managed object among them, and the *)
(* write of the singleton at the end.                                       *)
LEMMA CleanupSteps ==
  /\ CleanupPlan \in Seq(Managed \cup Steps) /\ Closed(CleanupPlan) /\ CleanupPlan # <<>>
  /\ Range(CleanupPlan) = Managed \cup {"finalizer"}
<1> DEFINE S == Managed \cup Steps
           a == <<"receiver", "rules", "registry", "mcp", "rbac", "metrics">>
           z == <<"purge", "finalizer">>
<1>1. a \in Seq(S) /\ z \in Seq(S) /\ z # <<>>
  BY DEF Managed, Compare, Soft, Steps
<1>2. Alerts \in Seq(S) /\ Checks \in Seq(S)
  BY NamesAssumption DEF Managed
<1>3. Range(a) = Compare \cup Soft
  BY DEF Range, Compare, Soft
<1>4. Range(z) = {"purge", "finalizer"} /\ Closed(z)
  BY DEF Range, Closed, Final
<1> DEFINE y == a \o Alerts
           b == y \o Checks
<1> HIDE DEF S, a, b, y, z
<1>5. y \in Seq(S) /\ Range(y) = Range(a) \cup AlertSet
  BY <1>1, <1>2, ConcatRange DEF AlertSet, y
<1>6. b \in Seq(S) /\ Range(b) = Range(a) \cup AlertSet \cup CheckSet
  BY <1>2, <1>5, ConcatRange DEF CheckSet, b
<1>7. b \in Seq(S) /\ Range(b) \subseteq Managed
  BY <1>3, <1>6 DEF Managed
<1>8. b \o z \in Seq(S) /\ Range(b \o z) = Range(b) \cup Range(z) /\ Closed(b \o z)
  BY <1>1, <1>4, <1>7, ConcatRange, ConcatClosed, Names DEF Managed
<1>9. b \o z # <<>>
  <2>1. "finalizer" \in Range(b \o z)
    BY <1>4, <1>8
  <2> QED BY <2>1 DEF Range
<1>10. CleanupPlan = b \o z
  BY DEF CleanupPlan, a, b, y, z
<1> QED BY <1>3, <1>4, <1>6, <1>8, <1>9, <1>10 DEF Managed, S

LEMMA ReconcileSteps ==
  ASSUME NEW spec
  PROVE  /\ ReconcilePlan(spec) \in Seq(Managed \cup Steps) /\ Closed(ReconcilePlan(spec)) /\ ReconcilePlan(spec) # <<>>
         /\ Range(ReconcilePlan(spec)) \subseteq Managed \cup {"clusters", "removed", "status"}
         /\ Managed \cup {"clusters"} \subseteq Range(ReconcilePlan(spec))
<1> DEFINE S == Managed \cup Steps
           a == <<"clusters">>
           m == ComparePlan(spec)
           z == <<"purge", "rules", "metrics", "receiver", "status">>
<1>1. a \in Seq(S) /\ m \in Seq(S) /\ z \in Seq(S) /\ z # <<>>
  <2>1. {"clusters", "removed", "status", "purge"} \cup Compare \cup Soft \subseteq S
    BY DEF Managed, Steps
  <2>2. <<"registry", "rbac", "mcp">> \in Seq(S) /\ <<"registry", "mcp", "rbac", "removed">> \in Seq(S)
    BY <2>1 DEF Compare
  <2>3. a \in Seq(S) /\ z \in Seq(S) /\ z # <<>>
    BY <2>1 DEF Soft
  <2> QED BY <2>2, <2>3 DEF ComparePlan
<1>2. Alerts \in Seq(S) /\ Checks \in Seq(S)
  BY NamesAssumption DEF Managed
<1>3. Range(a) = {"clusters"}
  BY DEF Range
<1>4. Compare \subseteq Range(m) /\ Range(m) \subseteq Compare \cup {"removed"}
  BY DEF Range, ComparePlan, Compare
<1>5. Range(z) = Soft \cup {"purge", "status"} /\ Closed(z)
  BY DEF Range, Closed, Final, Soft
<1> DEFINE x == a \o Alerts
           y == x \o Checks
           b == y \o m
<1> HIDE DEF S, a, b, m, x, y, z
<1>6. x \in Seq(S) /\ Range(x) = Range(a) \cup AlertSet
  BY <1>1, <1>2, ConcatRange DEF AlertSet, x
<1>7. y \in Seq(S) /\ Range(y) = Range(a) \cup AlertSet \cup CheckSet
  BY <1>2, <1>6, ConcatRange DEF CheckSet, y
<1>8. b \in Seq(S) /\ Range(b) = Range(a) \cup AlertSet \cup CheckSet \cup Range(m)
  BY <1>1, <1>7, ConcatRange DEF b
<1>9. Range(b) \subseteq Managed \cup {"clusters", "removed"} /\ Range(b) \cap Final = {}
  <2>1. Range(b) \subseteq Managed \cup {"clusters", "removed"}
    BY <1>3, <1>4, <1>8 DEF Managed
  <2>2. Final \cap (Managed \cup {"clusters", "removed"}) = {}
    BY Names DEF Final, Steps
  <2> QED BY <2>1, <2>2
<1>10. b \o z \in Seq(S) /\ Range(b \o z) = Range(b) \cup Range(z) /\ Closed(b \o z)
  BY <1>1, <1>5, <1>8, <1>9, ConcatRange, ConcatClosed
<1>11. b \o z # <<>>
  <2>1. "status" \in Range(b \o z)
    BY <1>5, <1>10
  <2> QED BY <2>1 DEF Range
<1>12. ReconcilePlan(spec) = b \o z
  BY DEF ReconcilePlan, a, b, m, x, y, z
<1>13. Range(b \o z) = {"clusters"} \cup AlertSet \cup CheckSet \cup Range(m) \cup Soft \cup {"purge", "status"}
  BY <1>3, <1>5, <1>8, <1>10
<1> QED BY <1>4, <1>10, <1>11, <1>12, <1>13 DEF Managed, S

-----------------------------------------------------------------------------
(* What an object should hold *)

LEMMA WantedIs ==
  ASSUME NEW thc, NEW view, NEW o \in Managed
  PROVE  /\ o \in AlertSet => Wanted(o, thc, view) = AlertWanted(o, thc)
         /\ o \in CheckSet => Wanted(o, thc, view) = CheckWanted(o, thc)
         /\ o \in Compare => Wanted(o, thc, view) = CompareWanted(thc)
         /\ o = "purge" => Wanted(o, thc, view) = PurgeWanted(thc)
         /\ o = "rules" => Wanted(o, thc, view) = RulesWanted(thc, view)
         /\ o = "metrics" => Wanted(o, thc, view) = MetricsWanted(thc, view)
         /\ o = "receiver" => Wanted(o, thc, view) = ReceiverWanted
  BY NamesAssumption DEF Wanted, Managed, Compare, Soft, Steps

(* The alerts that ConfigMaps define are alerts. *)
LEMMA ListedAlerts ==
  ASSUME NEW spec, NEW view, ViewOK(view)
  PROVE  Listed(spec, view) \subseteq AlertSet \cup UserAlerts
<1>1. ASSUME NEW a \in AlertSet \cup UserAlerts, view[a] # Absent PROVE view[a] \subseteq AlertSet \cup UserAlerts
  <2>1. a \in Objects \ {"thc"} /\ a # "purge" /\ a \notin Shared
    BY NamesAssumption DEF Objects, Managed, Soft, Shared
  <2>2. Contents(a) = SUBSET (AlertSet \cup UserAlerts)
    BY <2>1 DEF Contents
  <2> QED BY <1>1, <2>1, <2>2 DEF ViewOK
<1> QED BY <1>1 DEF Listed

LEMMA WantedType ==
  ASSUME NEW thc \in Singleton, NEW view, ViewOK(view), NEW o \in Managed
  PROVE  Wanted(o, thc, view) \in {Absent} \cup Contents(o)
<1>1. o # "purge" => SUBSET (AlertSet \cup UserAlerts) \subseteq Contents(o)
  BY DEF Contents
<1>2. CASE o \in AlertSet
  <2>1. AlertWanted(o, thc) \in {Absent} \cup SUBSET (AlertSet \cup UserAlerts)
    BY <1>2 DEF AlertWanted
  <2>2. o # "purge"
    BY <1>2, NamesAssumption
  <2> QED BY <1>1, <1>2, <2>1, <2>2, WantedIs
<1>3. CASE o \in CheckSet
  <2>1. CheckWanted(o, thc) \in {Absent} \cup SUBSET (AlertSet \cup UserAlerts)
    BY DEF CheckWanted
  <2>2. o # "purge"
    BY <1>3, NamesAssumption
  <2> QED BY <1>1, <1>3, <2>1, <2>2, WantedIs
<1>4. CASE o \in Compare
  <2>1. CompareWanted(thc) \in {Absent} \cup SUBSET (AlertSet \cup UserAlerts)
    BY DEF CompareWanted
  <2>2. o # "purge"
    BY <1>4 DEF Compare
  <2> QED BY <1>1, <1>4, <2>1, <2>2, WantedIs
<1>5. CASE o = "purge"
  <2>1. thc.uid \in 1 .. MaxChanges
    BY DEF Singleton
  <2>2. PurgeWanted(thc) \in {Absent} \cup Contents(o)
    BY <1>5, <2>1 DEF PurgeWanted, PurgeOwners, Contents, Shared
  <2> QED BY <1>5, <2>2, WantedIs
<1>6. CASE o \in Soft
  <2>1. Listed(thc.spec, view) \in SUBSET (AlertSet \cup UserAlerts)
    BY ListedAlerts
  <2>2. o # "purge" /\ o \in {"rules", "metrics", "receiver"}
    BY <1>6 DEF Soft
  <2>3. Wanted(o, thc, view) \in SUBSET (AlertSet \cup UserAlerts)
    BY <2>1, <2>2, WantedIs DEF RulesWanted, MetricsWanted, ReceiverWanted
  <2> QED BY <1>1, <2>2, <2>3
<1> QED BY <1>2, <1>3, <1>4, <1>5, <1>6 DEF Managed

(* A call leaves the object alone or gives it the content asked for; it     *)
(* succeeds in creating or updating only when it did.                       *)
LEMMA CallResult ==
  ASSUME NEW o \in Managed, NEW want
  PROVE  /\ Call(o, want).content \in {store[o], want}
         /\ Call(o, want).ok /\ want # Absent => Call(o, want).content = want
         /\ o \in Compare /\ want = Absent => Call(o, want).content = want
  BY DEF Call, Result, Direct, Remove, Upsert, EditSecret, Compare

-----------------------------------------------------------------------------
(* The parts of a step *)

(* A write as it shows in each object. *)
Wrote(o, content) ==
  /\ DOMAIN store' = Objects
  /\ \A x \in Objects : store'[x] = IF x = o THEN content ELSE store[x]
  /\ lag' = IF content = store[o] THEN lag ELSE lag \cup ({o} \ {"rbac", "mcp"})

(* The pass goes on with step n of those it had left. *)
Advanced(n) == n \in 1 .. Len(todo) /\ todo' = SubSeq(todo, n, Len(todo)) /\ fresh' = fresh

LEMMA PutWrites ==
  ASSUME ViewOK(store), NEW o \in Objects
  PROVE  /\ \A c : Put(o, c) => Wrote(o, c)
         /\ UNCHANGED <<store, lag>> => Wrote(o, store[o])
  BY DEF ViewOK, Put, Wrote

LEMMA TailAdvances ==
  ASSUME PlanOK, todo # <<>>, Head(todo) \notin Final, todo' = Tail(todo), fresh' = fresh
  PROVE  Advanced(2)
<1>1. todo \in Seq(Managed \cup Steps) /\ Len(todo) > 0 /\ Len(todo) \in Nat
  BY DEF PlanOK
<1>2. Len(todo) # 1
  <2>1. todo[1] \notin Final
    BY <1>1
  <2> QED BY <1>1, <2>1 DEF PlanOK, Closed
<1>3. Len(todo) >= 2
  <2> DEFINE k == Len(todo)
  <2>1. k \in Nat /\ k > 0 /\ k # 1
    BY <1>1, <1>2
  <2> HIDE DEF k
  <2>2. k >= 2
    BY <2>1
  <2> QED BY <2>2 DEF k
<1>4. Tail(todo) = SubSeq(todo, 2, Len(todo))
  BY <1>1, TailIsSubSeq
<1> QED BY <1>3, <1>4 DEF Advanced

(* Writing one object keeps the views and the book of the copies. *)
LEMMA ObjectWritten ==
  ASSUME PassInv, NEW o \in Objects \ {"thc"}, NEW c \in {Absent} \cup Contents(o), Wrote(o, c), cache' = cache
  PROVE  ViewOK(store)' /\ ViewOK(cache)' /\ CopiesOK' /\ store'["thc"] = store["thc"] /\ ("thc" \in lag' <=> "thc" \in lag)
<1>1. ViewOK(store) /\ ViewOK(cache) /\ CopiesOK
  BY DEF PassInv
<1>2. store'["thc"] = store["thc"] /\ ("thc" \in lag' <=> "thc" \in lag)
  BY Names DEF Wrote
<1>3. ViewOK(store)'
  BY <1>1, <1>2 DEF ViewOK, Wrote
<1>4. CopiesOK'
  BY <1>1 DEF CopiesOK, Wrote
<1> QED BY <1>1, <1>2, <1>3, <1>4 DEF ViewOK

LEMMA SingletonWritten ==
  ASSUME PassInv, NEW c \in Singleton \cup {Absent}, Wrote("thc", c), cache' = cache
  PROVE  /\ ViewOK(store)' /\ ViewOK(cache)' /\ CopiesOK' /\ store'["thc"] = c
         /\ c # store["thc"] => "thc" \in lag'
         /\ \A x \in Objects \ {"thc"} : store'[x] = store[x]
<1>1. ViewOK(store) /\ ViewOK(cache) /\ CopiesOK
  BY DEF PassInv
<1>2. store'["thc"] = c /\ (c # store["thc"] => "thc" \in lag')
  BY Names DEF Wrote
<1>3. \A x \in Objects \ {"thc"} : store'[x] = store[x]
  BY DEF Wrote
<1>4. ViewOK(store)'
  BY <1>1, <1>2, <1>3 DEF ViewOK, Wrote
<1>5. CopiesOK'
  BY <1>1, Names DEF CopiesOK, Wrote
<1> QED BY <1>1, <1>2, <1>3, <1>4, <1>5 DEF ViewOK

(* The end of a pass. *)
LEMMA Ended ==
  ASSUME Return
  PROVE  MineOK' /\ PlanOK' /\ FreshCopy' /\ fresh' \in BOOLEAN /\ failed' \in BOOLEAN
<1>1. todo' = <<>> /\ mine' = Absent /\ fresh' = FALSE /\ failed' = FALSE
  BY DEF Return
<1>2. PlanOK'
  <2>1. <<>> \in Seq(Managed \cup Steps)
    OBVIOUS
  <2>2. Len(<<>>) = 0
    OBVIOUS
  <2> QED BY <1>1, <2>1, <2>2 DEF PlanOK, Closed
<1> QED BY <1>1, <1>2 DEF MineOK, FreshCopy

(* One step of a pass, or the rest of a loop, is behind it. *)
LEMMA Continues ==
  ASSUME PassInv, NEW n, Advanced(n), mine' \in Singleton, Alike(mine', mine),
         store'["thc"] = store["thc"], "thc" \in lag' => "thc" \in lag
  PROVE  MineOK' /\ PlanOK' /\ FreshCopy'
<1>1. todo \in Seq(Managed \cup Steps) /\ Closed(todo) /\ n \in 1 .. Len(todo) /\ todo' = SubSeq(todo, n, Len(todo))
  BY DEF PassInv, PlanOK, Advanced
<1>2. todo' \in Seq(Managed \cup Steps) /\ todo' # <<>> /\ Range(todo') \subseteq Range(todo)
  BY <1>1, SuffixRange
<1>3. Closed(todo')
  BY <1>1, SuffixClosed
<1>4. todo # <<>>
  BY <1>1
<1>5. MineOK'
  BY <1>2, AbsentAssumption DEF MineOK
<1>6. StepsOf(mine') = StepsOf(mine)
  BY DEF StepsOf, Alike
<1>7. PlanOK'
  BY <1>2, <1>3, <1>4, <1>6 DEF PlanOK, PassInv
<1>8. FreshCopy'
  BY <1>2, <1>4 DEF FreshCopy, PassInv, Alike, Advanced
<1> QED BY <1>5, <1>7, <1>8

(* What becomes of the pass when it has dealt with an object. *)
GoesOn ==
  \/ Return /\ queued' = TRUE
  \/ mine' = mine /\ queued' = queued /\ failed' \in {failed, TRUE} /\ \E n : Advanced(n)

LEMMA FailureGoesOn ==
  ASSUME PassInv, todo # <<>>, Head(todo) \in Managed, NEW o, StepFails(o) \/ Proceed
  PROVE  GoesOn
<1>1. Head(todo) \notin Final /\ PlanOK
  BY Names DEF PassInv
<1>2. CASE ReturnError
  BY <1>2 DEF ReturnError, GoesOn
<1>3. CASE todo' = Tail(todo) /\ UNCHANGED <<queued, mine, fresh>> /\ failed' \in {failed, TRUE}
  <2>1. Advanced(2)
    BY <1>1, <1>3, TailAdvances
  <2> QED BY <1>3, <2>1 DEF GoesOn
<1> QED BY <1>2, <1>3 DEF StepFails, Proceed

LEMMA CleanupGoesOn ==
  ASSUME NEW o, CleanupFails(o)
  PROVE  GoesOn
<1>1. PICK n \in 1 .. Len(todo) : todo' = SubSeq(todo, n, Len(todo))
  BY DEF CleanupFails
<1>2. Advanced(n) /\ mine' = mine /\ queued' = queued /\ failed' = failed
  BY <1>1 DEF CleanupFails, Advanced
<1> QED BY <1>2 DEF GoesOn

LEMMA ObjectStep ==
  ASSUME PassInv, todo # <<>>, Head(todo) \in Managed, NEW c \in {Absent} \cup Contents(Head(todo)),
         Wrote(Head(todo), c), cache' = cache, GoesOn, CountsOK'
  PROVE  PassInv'
<1> DEFINE o == Head(todo)
<1>1. o \in Objects \ {"thc"}
  BY Names
<1>2. ViewOK(store)' /\ ViewOK(cache)' /\ CopiesOK' /\ store'["thc"] = store["thc"] /\ ("thc" \in lag' <=> "thc" \in lag)
  BY <1>1, ObjectWritten
<1>3. CASE Return /\ queued' = TRUE
  BY <1>2, <1>3, Ended DEF PassInv, FlagsOK
<1>4. CASE mine' = mine /\ queued' = queued /\ failed' \in {failed, TRUE} /\ \E n : Advanced(n)
  <2>1. PICK n : Advanced(n)
    BY <1>4
  <2>2. mine \in Singleton
    BY DEF PassInv, MineOK
  <2>3. mine' \in Singleton /\ Alike(mine', mine)
    BY <1>4, <2>2 DEF Alike
  <2>4. MineOK' /\ PlanOK' /\ FreshCopy'
    BY <1>2, <2>1, <2>3, Continues
  <2>5. FlagsOK'
    BY <1>4, <2>1 DEF PassInv, FlagsOK, Advanced
  <2> QED BY <1>2, <2>4, <2>5 DEF PassInv
<1> QED BY <1>3, <1>4 DEF GoesOn

(* What a step of a pass asks for its object is a content of the object. *)
LEMMA AskedContent ==
  ASSUME PassInv, todo # <<>>, Head(todo) \in Managed
  PROVE  /\ mine \in Singleton
         /\ Wanted(Head(todo), mine, cache) \in {Absent} \cup Contents(Head(todo))
         /\ store[Head(todo)] \in {Absent} \cup Contents(Head(todo))
<1>1. mine \in Singleton
  BY DEF PassInv, MineOK
<1>2. Wanted(Head(todo), mine, cache) \in {Absent} \cup Contents(Head(todo))
  BY <1>1, WantedType DEF PassInv
<1>3. Head(todo) \in Objects \ {"thc"}
  BY Names
<1>4. store[Head(todo)] \in {Absent} \cup Contents(Head(todo))
  BY <1>3 DEF PassInv, ViewOK
<1> QED BY <1>1, <1>2, <1>4

(* The three ways to deal with an object, in these terms. *)
LEMMA ReconcileObjectEffect ==
  ASSUME PassInv, ReconcileObject
  PROVE  \E c \in {store[Head(todo)], Wanted(Head(todo), mine, cache)} :
           Wrote(Head(todo), c) /\ cache' = cache /\ UNCHANGED <<missed, skipped>> /\ UNCHANGED outside /\ GoesOn
<1> DEFINE o == Head(todo)
           want == Wanted(o, mine, cache)
           call == Call(o, want)
<1>1. todo # <<>> /\ o \in Managed /\ o \in Objects /\ ViewOK(store)
  BY Names DEF ReconcileObject, PassInv
<1>2. cache' = cache /\ UNCHANGED <<missed, skipped>> /\ UNCHANGED outside
  BY DEF ReconcileObject
<1>3. CASE UNCHANGED <<store, lag>> /\ (ReturnError \/ StepFails(o))
  <2>1. Wrote(o, store[o])
    BY <1>1, <1>3, PutWrites
  <2>2. GoesOn
    BY <1>1, <1>3, FailureGoesOn DEF ReturnError, GoesOn
  <2> QED BY <1>2, <2>1, <2>2
<1>4. CASE Put(o, call.content) /\ (Proceed \/ StepFails(o))
  <2>1. Wrote(o, call.content)
    BY <1>1, <1>4, PutWrites
  <2>2. call.content \in {store[o], want}
    BY <1>1, CallResult
  <2>3. GoesOn
    BY <1>1, <1>4, FailureGoesOn
  <2> QED BY <1>2, <2>1, <2>2, <2>3
<1> QED BY <1>3, <1>4 DEF ReconcileObject

LEMMA CleanupObjectEffect ==
  ASSUME PassInv, CleanupObject
  PROVE  \E c \in {store[Head(todo)], Absent} :
           Wrote(Head(todo), c) /\ cache' = cache /\ UNCHANGED outside /\ GoesOn
<1> DEFINE o == Head(todo)
           call == Call(o, Absent)
<1>1. todo # <<>> /\ o \in Managed /\ o \in Objects /\ ViewOK(store)
  BY Names DEF CleanupObject, PassInv
<1>2. cache' = cache /\ UNCHANGED outside
  BY DEF CleanupObject
<1>3. CASE UNCHANGED <<store, lag>> /\ (ReturnError \/ CleanupFails(o))
  <2>1. Wrote(o, store[o])
    BY <1>1, <1>3, PutWrites
  <2>2. GoesOn
    BY <1>3, CleanupGoesOn DEF ReturnError, GoesOn
  <2> QED BY <1>2, <2>1, <2>2
<1>4. CASE Put(o, call.content) /\ Proceed
  <2>1. Wrote(o, call.content)
    BY <1>1, <1>4, PutWrites
  <2>2. call.content \in {store[o], Absent}
    BY <1>1, CallResult
  <2>3. GoesOn
    BY <1>1, <1>4, FailureGoesOn
  <2> QED BY <1>2, <2>1, <2>2, <2>3
<1> QED BY <1>3, <1>4 DEF CleanupObject

LEMMA CallFailsEffect ==
  ASSUME PassInv, CallFails, Head(todo) \in Managed
  PROVE  /\ \E c \in {store[Head(todo)], IF mine.deleting THEN Absent ELSE Wanted(Head(todo), mine, cache)} :
               Wrote(Head(todo), c)
         /\ cache' = cache /\ GoesOn /\ todo # <<>>
<1> DEFINE o == Head(todo)
           want == IF mine.deleting THEN Absent ELSE Wanted(o, mine, cache)
<1>1. todo # <<>> /\ o \in Objects /\ ViewOK(store) /\ cache' = cache
  BY Names DEF CallFails, PassInv
<1>2. CleanupFails(o) \/ StepFails(o)
  BY DEF CallFails
<1>3. GoesOn
  BY <1>1, <1>2, FailureGoesOn, CleanupGoesOn
<1>4. UNCHANGED <<store, lag>> \/ Put(o, Call(o, want).content)
  BY DEF CallFails
<1>5. Wrote(o, store[o]) \/ Wrote(o, Call(o, want).content)
  BY <1>1, <1>4, PutWrites
<1>6. Call(o, want).content \in {store[o], want}
  BY CallResult
<1> QED BY <1>1, <1>3, <1>5, <1>6

-----------------------------------------------------------------------------
(* PassInv is inductive *)

LEMMA PassInit == Init => PassInv
<1> SUFFICES ASSUME Init PROVE PassInv
  OBVIOUS
<1>1. ViewOK(store)
  <2>1. PICK bare \in SUBSET BareObjects : store = [o \in Objects |-> IF o \in bare THEN Bare ELSE Absent]
    BY DEF Init
  <2>2. bare \subseteq Shared /\ "thc" \notin Shared
    BY <2>1, BareAssumption DEF Shared
  <2>3. \A o \in Shared : Bare \in Contents(o)
    BY DEF Contents, Shared
  <2>4. DOMAIN store = Objects /\ \A o \in Objects : store[o] = IF o \in bare THEN Bare ELSE Absent
    BY <2>1
  <2>5. store["thc"] = Absent
    BY <2>2, <2>4, Names
  <2>6. \A o \in Objects : store[o] \in {Absent} \cup Contents(o)
    BY <2>2, <2>3, <2>4
  <2> QED BY <2>4, <2>5, <2>6 DEF ViewOK
<1>2. ViewOK(cache) /\ CopiesOK
  BY <1>1 DEF Init, CopiesOK
<1>3. FlagsOK /\ MineOK /\ FreshCopy
  BY DEF Init, FlagsOK, MineOK, FreshCopy
<1>4. CountsOK
  BY BoundsAssumption DEF Init, CountsOK
<1>5. PlanOK
  <2>1. <<>> \in Seq(Managed \cup Steps) /\ Len(<<>>) = 0
    OBVIOUS
  <2> QED BY <2>1 DEF Init, PlanOK, Closed
<1> QED BY <1>1, <1>2, <1>3, <1>4, <1>5 DEF PassInv

(* A step that leaves the pass alone. *)
LEMMA PassAlone ==
  ASSUME PassInv, UNCHANGED <<todo, mine, failed>>, queued' \in BOOLEAN,
         fresh' \in BOOLEAN, fresh' => fresh /\ store'["thc"] = store["thc"] /\ "thc" \notin lag'
  PROVE  FlagsOK' /\ MineOK' /\ PlanOK' /\ FreshCopy'
<1>1. FlagsOK /\ MineOK /\ PlanOK /\ FreshCopy
  BY DEF PassInv
<1>2. FlagsOK'
  BY <1>1 DEF FlagsOK
<1>3. MineOK' /\ PlanOK'
  BY <1>1 DEF MineOK, PlanOK, Closed
<1>4. FreshCopy'
  BY <1>1 DEF FreshCopy
<1> QED BY <1>2, <1>3, <1>4

LEMMA StartPass == PassInv /\ Start => PassInv'
<1> SUFFICES ASSUME PassInv, Start PROVE PassInv'
  OBVIOUS
<1> DEFINE thc == cache["thc"]
<1>1. ViewOK(store)' /\ ViewOK(cache)' /\ CopiesOK' /\ CountsOK'
  <2>1. UNCHANGED <<store, cache, lag, changes, faults>>
    BY DEF Start, outside
  <2>2. (missed' = {} /\ skipped' = {}) \/ UNCHANGED <<missed, skipped>>
    BY DEF Start
  <2>3. CountsOK'
    BY <2>1, <2>2 DEF PassInv, CountsOK
  <2> QED BY <2>1, <2>3 DEF PassInv, ViewOK, CopiesOK
<1>2. todo = <<>> /\ queued' = FALSE /\ UNCHANGED <<store, cache, lag>>
  BY DEF Start
<1>3. CASE thc = Absent
  <2>1. UNCHANGED <<todo, mine, fresh, failed>>
    BY <1>3 DEF Start
  <2>2. fresh' \in BOOLEAN /\ (fresh => "thc" \notin lag)
    BY <2>1 DEF PassInv, FlagsOK, FreshCopy
  <2>3. FlagsOK' /\ MineOK' /\ PlanOK' /\ FreshCopy'
    BY <1>2, <2>1, <2>2, PassAlone
  <2> QED BY <1>1, <2>3 DEF PassInv
<1>4. CASE thc # Absent
  <2>1. /\ mine' = thc /\ fresh' = ("thc" \notin lag) /\ failed' = FALSE
        /\ todo' = IF thc.deleting THEN CleanupPlan
                   ELSE IF thc.finalizer THEN ReconcilePlan(thc.spec) ELSE <<"addFinalizer">>
    BY <1>4 DEF Start
  <2>2. thc \in Singleton
    BY <1>4 DEF PassInv, ViewOK
  <2>3. todo' \in Seq(Managed \cup Steps) /\ Closed(todo') /\ todo' # <<>> /\ Range(todo') \subseteq StepsOf(thc)
    <3>1. CASE thc.deleting
      BY <2>1, <3>1, CleanupSteps DEF StepsOf
    <3>2. CASE ~thc.deleting /\ thc.finalizer
      BY <2>1, <3>2, ReconcileSteps DEF StepsOf
    <3>3. CASE ~thc.deleting /\ ~thc.finalizer
      <4>1. todo' = <<"addFinalizer">>
        BY <2>1, <3>3
      <4>2. <<"addFinalizer">> \in Seq(Managed \cup Steps) /\ Closed(<<"addFinalizer">>)
            /\ Range(<<"addFinalizer">>) = {"addFinalizer"} /\ <<"addFinalizer">> # <<>>
        BY DEF Steps, Closed, Final, Range
      <4> QED BY <3>3, <4>1, <4>2 DEF StepsOf
    <3> QED BY <3>1, <3>2, <3>3
  <2>4. MineOK' /\ PlanOK'
    BY <2>1, <2>2, <2>3, AbsentAssumption DEF MineOK, PlanOK
  <2>5. "thc" \notin lag => store["thc"] = thc
    BY Names DEF PassInv, CopiesOK
  <2>6. FreshCopy'
    BY <1>2, <1>4, <2>1, <2>3, <2>5 DEF FreshCopy, Alike
  <2>7. FlagsOK'
    BY <1>2, <2>1 DEF FlagsOK
  <2> QED BY <1>1, <2>4, <2>6, <2>7 DEF PassInv
<1> QED BY <1>3, <1>4

LEMMA ResolvePass == PassInv /\ ResolveClusters => PassInv'
<1> SUFFICES ASSUME PassInv, ResolveClusters PROVE PassInv'
  OBVIOUS
<1>1. ViewOK(store)' /\ ViewOK(cache)' /\ CopiesOK' /\ CountsOK' /\ FlagsOK'
  BY DEF ResolveClusters, outside, PassInv, ViewOK, CopiesOK, CountsOK, FlagsOK
<1>2. todo # <<>> /\ Head(todo) \notin Final /\ todo' = Tail(todo) /\ fresh' = fresh
  BY DEF ResolveClusters, Final
<1>3. Advanced(2)
  BY <1>2, TailAdvances DEF PassInv
<1>4. mine \in Singleton
  BY <1>2 DEF PassInv, MineOK
<1>5. mine' \in Singleton /\ Alike(mine', mine)
  <2>1. Monitored(mine.spec, cache) \in SUBSET Clusters
    BY DEF Monitored
  <2>2. mine' = [mine EXCEPT !.status = Monitored(mine.spec, cache)]
    BY DEF ResolveClusters
  <2> QED BY <1>4, <2>1, <2>2 DEF Singleton, Alike
<1>6. MineOK' /\ PlanOK' /\ FreshCopy'
  BY <1>3, <1>5, Continues DEF ResolveClusters
<1> QED BY <1>1, <1>6 DEF PassInv

LEMMA ReconcileObjectPass == PassInv /\ ReconcileObject => PassInv'
<1> SUFFICES ASSUME PassInv, ReconcileObject PROVE PassInv'
  OBVIOUS
<1>1. todo # <<>> /\ Head(todo) \in Managed
  BY DEF ReconcileObject
<1>2. PICK c \in {store[Head(todo)], Wanted(Head(todo), mine, cache)} :
           Wrote(Head(todo), c) /\ cache' = cache /\ UNCHANGED <<missed, skipped>> /\ UNCHANGED outside /\ GoesOn
  BY ReconcileObjectEffect
<1>3. c \in {Absent} \cup Contents(Head(todo))
  BY <1>1, AskedContent
<1>4. CountsOK'
  BY <1>2 DEF PassInv, CountsOK, outside
<1> QED BY <1>1, <1>2, <1>3, <1>4, ObjectStep

LEMMA CompareRemovedPass == PassInv /\ CompareRemoved => PassInv'
<1> SUFFICES ASSUME PassInv, CompareRemoved PROVE PassInv'
  OBVIOUS
<1>1. ViewOK(store)' /\ ViewOK(cache)' /\ CopiesOK' /\ CountsOK'
  BY DEF CompareRemoved, outside, PassInv, ViewOK, CopiesOK, CountsOK
<1>2. todo # <<>> /\ Head(todo) \notin Final
  BY DEF CompareRemoved, Final
<1>3. CASE ReturnError
  BY <1>1, <1>3, Ended DEF PassInv, ReturnError, FlagsOK
<1>4. CASE Proceed
  <2>1. Advanced(2) /\ UNCHANGED <<queued, mine, fresh, failed>>
    BY <1>2, <1>4, TailAdvances DEF PassInv, Proceed
  <2>2. mine' \in Singleton /\ Alike(mine', mine)
    BY <1>2, <2>1 DEF PassInv, MineOK, Alike
  <2>3. MineOK' /\ PlanOK' /\ FreshCopy'
    BY <2>1, <2>2, Continues DEF CompareRemoved
  <2>4. FlagsOK'
    BY <2>1 DEF PassInv, FlagsOK
  <2> QED BY <1>1, <2>3, <2>4 DEF PassInv
<1> QED BY <1>3, <1>4 DEF CompareRemoved

(* The three writes of the singleton end the pass. *)
LEMMA WriteSingletonPass ==
  ASSUME PassInv, NEW step, NEW c \in Singleton \cup {Absent}, WriteSingleton(step, c)
  PROVE  PassInv'
<1>1. CountsOK' /\ cache' = cache
  BY DEF WriteSingleton, outside, PassInv, CountsOK
<1>2. CASE ReturnError /\ UNCHANGED <<store, lag>>
  <2>1. ViewOK(store)' /\ ViewOK(cache)' /\ CopiesOK'
    BY <1>1, <1>2 DEF PassInv, ViewOK, CopiesOK
  <2> QED BY <1>1, <1>2, <2>1, Ended DEF PassInv, ReturnError, FlagsOK
<1>3. CASE Put("thc", c) /\ Return /\ UNCHANGED queued
  <2>1. Wrote("thc", c)
    BY <1>3, PutWrites, Names DEF PassInv
  <2>2. ViewOK(store)' /\ ViewOK(cache)' /\ CopiesOK'
    BY <1>1, <2>1, SingletonWritten
  <2>3. queued' \in BOOLEAN
    BY <1>3 DEF PassInv, FlagsOK
  <2> QED BY <1>1, <1>3, <2>2, <2>3, Ended DEF PassInv, FlagsOK
<1> QED BY <1>2, <1>3 DEF WriteSingleton

LEMMA SingletonPass == PassInv /\ (AddFinalizer \/ UpdateStatus \/ RemoveFinalizer) => PassInv'
<1> SUFFICES ASSUME PassInv, AddFinalizer \/ UpdateStatus \/ RemoveFinalizer PROVE PassInv'
  OBVIOUS
<1>1. mine \in Singleton
  BY DEF PassInv, MineOK, AddFinalizer, UpdateStatus, RemoveFinalizer, WriteSingleton
<1>2. [mine EXCEPT !.finalizer = TRUE] \in Singleton
  BY <1>1 DEF Singleton
<1> QED BY <1>1, <1>2, WriteSingletonPass DEF AddFinalizer, UpdateStatus, RemoveFinalizer

(* A cleanup notes objects it deals with. *)
LEMMA CleanupNotes ==
  ASSUME PassInv, CleanupObject \/ (CallFails /\ Head(todo) \in Managed)
  PROVE  missed' \subseteq Managed /\ skipped' \subseteq AlertSet \cup CheckSet
<1> DEFINE o == Head(todo)
<1>1. missed \subseteq Managed /\ skipped \subseteq AlertSet \cup CheckSet /\ o \in Managed
  BY DEF PassInv, CountsOK, CleanupObject
<1>2. LoopOf(o) \ {o} \subseteq AlertSet \cup CheckSet
  BY DEF LoopOf
<1>3. CASE CleanupFails(o)
  <2>1. missed' = missed \cup {o} /\ skipped' = (skipped \cup (LoopOf(o) \cap Range(todo))) \ {o}
    BY <1>3 DEF CleanupFails
  <2> HIDE DEF o
  <2> QED BY <1>1, <1>2, <2>1
<1>4. CASE UNCHANGED <<missed, skipped>>
  BY <1>1, <1>4
<1>5. CASE missed' \in {missed \ {o}, missed \cup {o}} /\ skipped' = skipped \ {o}
  BY <1>1, <1>5
<1>6. CleanupFails(o) \/ UNCHANGED <<missed, skipped>>
      \/ (missed' \in {missed \ {o}, missed \cup {o}} /\ skipped' = skipped \ {o})
  BY DEF CleanupObject, CallFails
<1> QED BY <1>3, <1>4, <1>5, <1>6

LEMMA CleanupObjectPass == PassInv /\ CleanupObject => PassInv'
<1> SUFFICES ASSUME PassInv, CleanupObject PROVE PassInv'
  OBVIOUS
<1>1. todo # <<>> /\ Head(todo) \in Managed
  BY DEF CleanupObject
<1>2. PICK c \in {store[Head(todo)], Absent} :
           Wrote(Head(todo), c) /\ cache' = cache /\ UNCHANGED outside /\ GoesOn
  BY CleanupObjectEffect
<1>3. c \in {Absent} \cup Contents(Head(todo))
  BY <1>1, AskedContent
<1>4. CountsOK'
  BY <1>2, CleanupNotes DEF PassInv, CountsOK, outside
<1> QED BY <1>1, <1>2, <1>3, <1>4, ObjectStep

LEMMA CallFailsPass == PassInv /\ CallFails => PassInv'
<1> SUFFICES ASSUME PassInv, CallFails PROVE PassInv'
  OBVIOUS
<1>1. faults' \in 0 .. MaxFaults /\ changes' = changes /\ cache' = cache /\ todo # <<>>
  BY BoundsAssumption DEF CallFails, Fault, PassInv, CountsOK
<1>2. CASE Head(todo) \in Managed
  <2>1. PICK c \in {store[Head(todo)], IF mine.deleting THEN Absent ELSE Wanted(Head(todo), mine, cache)} :
               Wrote(Head(todo), c)
    BY <1>2, CallFailsEffect
  <2>2. GoesOn
    BY <1>2, CallFailsEffect
  <2>3. c \in {Absent} \cup Contents(Head(todo))
    BY <1>1, <1>2, AskedContent
  <2>4. missed' \subseteq Managed /\ skipped' \subseteq AlertSet \cup CheckSet
    BY <1>2, CleanupNotes
  <2>5. CountsOK'
    <3>1. changes \in 0 .. MaxChanges
      BY DEF PassInv, CountsOK
    <3> QED BY <1>1, <2>4, <3>1 DEF CountsOK
  <2> QED BY <1>1, <1>2, <2>1, <2>2, <2>3, <2>5, ObjectStep
<1>3. CASE Head(todo) \notin Managed
  <2>1. ReturnError /\ UNCHANGED <<store, lag, missed, skipped>>
    BY <1>3 DEF CallFails
  <2>2. ViewOK(store)' /\ ViewOK(cache)' /\ CopiesOK' /\ CountsOK'
    BY <1>1, <2>1 DEF PassInv, ViewOK, CopiesOK, CountsOK
  <2> QED BY <2>1, <2>2, Ended DEF PassInv, ReturnError, FlagsOK
<1> QED BY <1>2, <1>3

LEMMA RestartPass == PassInv /\ Restart => PassInv'
<1> SUFFICES ASSUME PassInv, Restart PROVE PassInv'
  OBVIOUS
<1>1. Return /\ queued' = TRUE /\ cache' = store /\ store' = store /\ lag' = {}
  BY DEF Restart
<1>2. ViewOK(store)' /\ ViewOK(cache)' /\ CopiesOK'
  BY <1>1 DEF PassInv, ViewOK, CopiesOK
<1>3. CountsOK'
  BY BoundsAssumption DEF Restart, Fault, PassInv, CountsOK
<1> QED BY <1>1, <1>2, <1>3, Ended DEF PassInv, FlagsOK

(* The events of one kind: the copies that lag become the stored ones. *)
LEMMA WatchedCopies ==
  ASSUME PassInv, NEW kind \in Kinds, WatchEvents(kind)
  PROVE  /\ UNCHANGED <<store, todo, mine, fresh, failed, missed, skipped, changes, faults>>
         /\ DOMAIN cache' = Objects
         /\ \A o \in Objects : cache'[o] = IF o \in kind THEN store[o] ELSE cache[o]
         /\ lag' = lag \ kind
         /\ queued' \in BOOLEAN /\ (~queued' => ~queued /\ kind \cap lag \cap Watched = {})
<1>1. /\ UNCHANGED <<store, todo, mine, fresh, failed, missed, skipped, changes, faults>>
      /\ cache' = [o \in Objects |-> IF o \in kind THEN store[o] ELSE cache[o]]
      /\ lag' = lag \ kind
  BY DEF WatchEvents, outside
<1>2. queued' = (queued \/ kind \cap lag \cap Watched # {}) /\ queued \in BOOLEAN
  BY DEF WatchEvents, PassInv, FlagsOK
<1> QED BY <1>1, <1>2

LEMMA WatchPass ==
  ASSUME PassInv, NEW kind \in Kinds, WatchEvents(kind)
  PROVE  PassInv'
<1>1. /\ UNCHANGED <<store, todo, mine, fresh, failed, missed, skipped, changes, faults>>
      /\ DOMAIN cache' = Objects
      /\ \A o \in Objects : cache'[o] = IF o \in kind THEN store[o] ELSE cache[o]
      /\ lag' = lag \ kind
  BY WatchedCopies
<1>2. queued' \in BOOLEAN
  BY WatchedCopies
<1>3. ViewOK(store)' /\ ViewOK(cache)'
  BY <1>1, Names DEF PassInv, ViewOK
<1>4. CopiesOK'
  BY <1>1 DEF PassInv, CopiesOK
<1>5. CountsOK'
  BY <1>1 DEF PassInv, CountsOK
<1>6. fresh' \in BOOLEAN /\ (fresh => "thc" \notin lag)
  BY <1>1 DEF PassInv, FlagsOK, FreshCopy
<1>7. FlagsOK' /\ MineOK' /\ PlanOK' /\ FreshCopy'
  BY <1>1, <1>2, <1>6, PassAlone
<1> QED BY <1>3, <1>4, <1>5, <1>7 DEF PassInv

LEMMA RequeuePass == PassInv /\ Requeue => PassInv'
<1> SUFFICES ASSUME PassInv, Requeue PROVE PassInv'
  OBVIOUS
<1>1. UNCHANGED <<store, cache, lag, todo, mine, fresh, failed, missed, skipped, changes, faults>> /\ queued' = TRUE
  BY DEF Requeue, outside
<1>2. ViewOK(store)' /\ ViewOK(cache)' /\ CopiesOK' /\ CountsOK'
  BY <1>1 DEF PassInv, ViewOK, CopiesOK, CountsOK
<1>3. fresh' \in BOOLEAN /\ (fresh => "thc" \notin lag)
  BY <1>1 DEF PassInv, FlagsOK, FreshCopy
<1>4. FlagsOK' /\ MineOK' /\ PlanOK' /\ FreshCopy'
  BY <1>1, <1>3, PassAlone
<1> QED BY <1>2, <1>4 DEF PassInv

(* A write of another object from outside the pass. *)
LEMMA OutsidePass ==
  ASSUME PassInv, NEW o \in Objects \ {"thc"}, NEW c \in {Absent} \cup Contents(o), Put(o, c),
         UNCHANGED <<cache, queued, todo, mine, fresh, failed>>, CountsOK'
  PROVE  PassInv'
<1>1. Wrote(o, c)
  BY PutWrites DEF PassInv
<1>2. ViewOK(store)' /\ ViewOK(cache)' /\ CopiesOK' /\ store'["thc"] = store["thc"] /\ ("thc" \in lag' <=> "thc" \in lag)
  BY <1>1, ObjectWritten
<1>3. fresh' \in BOOLEAN /\ queued' \in BOOLEAN /\ (fresh => "thc" \notin lag)
  BY DEF PassInv, FlagsOK, FreshCopy
<1>4. FlagsOK' /\ MineOK' /\ PlanOK' /\ FreshCopy'
  BY <1>2, <1>3, PassAlone
<1> QED BY <1>2, <1>4 DEF PassInv

LEMMA GarbagePass == PassInv /\ GarbageCollect => PassInv'
<1> SUFFICES ASSUME PassInv, GarbageCollect PROVE PassInv'
  OBVIOUS
<1>1. "purge" \in Objects \ {"thc"}
  BY DEF Objects, Managed
<1>2. Put("purge", Absent) /\ UNCHANGED <<cache, queued, todo, mine, fresh, failed>>
  BY DEF GarbageCollect
<1>3. CountsOK'
  BY DEF GarbageCollect, outside, PassInv, CountsOK
<1> QED BY <1>1, <1>2, <1>3, OutsidePass

(* A user's change of the singleton: whoever works on it has an old copy. *)
LEMMA ChangeSingletonPass ==
  ASSUME PassInv, NEW c \in Singleton \cup {Absent}, Change("thc", c)
  PROVE  PassInv' /\ Wrote("thc", c) /\ fresh' = FALSE /\ UNCHANGED <<cache, queued, todo, mine, failed, missed, skipped>>
<1>1. Put("thc", c) /\ UNCHANGED <<cache, queued, todo, mine, failed, missed, skipped, faults>> /\ fresh' = FALSE
  BY DEF Change
<1>2. Wrote("thc", c)
  BY <1>1, PutWrites, Names DEF PassInv
<1>3. ViewOK(store)' /\ ViewOK(cache)' /\ CopiesOK'
  BY <1>1, <1>2, SingletonWritten
<1>4. CountsOK'
  BY <1>1, BoundsAssumption DEF Change, PassInv, CountsOK
<1>5. queued' \in BOOLEAN
  BY <1>1 DEF PassInv, FlagsOK
<1>6. FlagsOK' /\ MineOK' /\ PlanOK' /\ FreshCopy'
  BY <1>1, <1>5, PassAlone
<1> QED BY <1>1, <1>2, <1>3, <1>4, <1>6 DEF PassInv

(* A user's change of something else. *)
LEMMA ChangeOtherPass ==
  ASSUME PassInv, NEW o \in UserAlerts \cup Clusters, NEW c \in {Absent} \cup Contents(o), Change(o, c)
  PROVE  PassInv' /\ Wrote(o, c) /\ UNCHANGED <<cache, queued, todo, mine, fresh, failed, missed, skipped>>
<1>1. o \in Objects \ {"thc"}
  BY Names
<1>2. Put(o, c) /\ UNCHANGED <<cache, queued, todo, mine, failed, missed, skipped, faults>>
  BY DEF Change
<1>3. fresh' = fresh
  <2>1. fresh \in BOOLEAN /\ fresh' = (fresh /\ o # "thc")
    BY DEF Change, PassInv, FlagsOK
  <2> QED BY <1>1, <2>1
<1>4. CountsOK'
  BY <1>2, BoundsAssumption DEF Change, PassInv, CountsOK
<1>5. Wrote(o, c)
  BY <1>1, <1>2, PutWrites DEF PassInv
<1> QED BY <1>1, <1>2, <1>3, <1>4, <1>5, OutsidePass

(* The contents that the users' changes give. *)
LEMMA UserContent ==
  ASSUME PassInv
  PROVE  /\ \A u \in UserAlerts : UserContents(u) \subseteq {Absent} \cup Contents(u)
         /\ \A k \in Clusters : {} \in Contents(k)
<1>1. \A o \in UserAlerts \cup Clusters : Contents(o) = SUBSET (AlertSet \cup UserAlerts)
  BY NamesAssumption DEF Contents, Soft, Shared
<1> QED BY <1>1 DEF UserContents

LEMMA UserChanges ==
  ASSUME PassInv, UserAlertChanges \/ ClusterChanges
  PROVE  \E o \in UserAlerts \cup Clusters : \E c \in {Absent} \cup Contents(o) : Change(o, c)
<1>1. CASE UserAlertChanges
  <2>1. PICK u \in UserAlerts : \E c \in UserContents(u) \ {store[u]} : Change(u, c)
    BY <1>1 DEF UserAlertChanges
  <2> QED BY <2>1, UserContent
<1>2. CASE ClusterChanges
  <2>1. PICK k \in Clusters : Change(k, IF store[k] = Absent THEN {} ELSE Absent)
    BY <1>2 DEF ClusterChanges
  <2> QED BY <2>1, UserContent
<1> QED BY <1>1, <1>2

(* The three ways users change the singleton. *)
LEMMA SingletonChanges ==
  ASSUME PassInv, CreateSingleton \/ EditSpec \/ DeleteSingleton
  PROVE  \E c \in Singleton \cup {Absent} :
           /\ Change("thc", c) /\ c # store["thc"]
           /\ \/ store["thc"] = Absent /\ c # Absent /\ ~c.finalizer
              \/ store["thc"] # Absent /\ c # Absent /\ c.finalizer = store["thc"].finalizer
              \/ store["thc"] # Absent /\ ~store["thc"].finalizer /\ c = Absent
<1>1. store["thc"] \in Singleton \cup {Absent}
  BY DEF PassInv, ViewOK
<1>2. CASE CreateSingleton
  <2>1. PICK s \in Specs :
          Change("thc", [uid |-> changes + 1, finalizer |-> FALSE, deleting |-> FALSE, spec |-> s, status |-> {}])
    BY <1>2 DEF CreateSingleton
  <2> DEFINE c == [uid |-> changes + 1, finalizer |-> FALSE, deleting |-> FALSE, spec |-> s, status |-> {}]
  <2>2. changes + 1 \in 1 .. MaxChanges
    BY <2>1, BoundsAssumption DEF Change, PassInv, CountsOK
  <2>3. c \in Singleton
    BY <2>2 DEF Singleton
  <2>4. ~c.finalizer
    OBVIOUS
  <2> HIDE DEF c
  <2>5. c # Absent /\ store["thc"] = Absent
    BY <1>2, <2>3, AbsentAssumption DEF CreateSingleton
  <2> QED BY <2>1, <2>3, <2>4, <2>5 DEF c
<1>3. CASE EditSpec
  <2>1. PICK s \in Specs \ {store["thc"].spec} : Change("thc", [store["thc"] EXCEPT !.spec = s])
    BY <1>3 DEF EditSpec
  <2> DEFINE c == [store["thc"] EXCEPT !.spec = s]
  <2>2. store["thc"] \in Singleton /\ store["thc"] # Absent
    BY <1>1, <1>3 DEF EditSpec
  <2>3. c \in Singleton /\ c.spec = s /\ c.finalizer = store["thc"].finalizer
    BY <2>2 DEF Singleton
  <2> HIDE DEF c
  <2>4. c # Absent /\ c # store["thc"]
    BY <2>3, AbsentAssumption
  <2> QED BY <2>1, <2>2, <2>3, <2>4 DEF c
<1>4. CASE DeleteSingleton
  <2>1. store["thc"] \in Singleton /\ store["thc"] # Absent /\ ~store["thc"].deleting
    BY <1>1, <1>4 DEF DeleteSingleton
  <2>2. CASE store["thc"].finalizer
    <3> DEFINE c == [store["thc"] EXCEPT !.deleting = TRUE]
    <3>1. c \in Singleton /\ c.finalizer = store["thc"].finalizer /\ c.deleting = TRUE
      BY <2>1 DEF Singleton
    <3>2. Change("thc", c)
      BY <1>4, <2>2 DEF DeleteSingleton
    <3> HIDE DEF c
    <3>3. c # Absent /\ c # store["thc"]
      BY <2>1, <3>1, AbsentAssumption
    <3> QED BY <2>1, <3>1, <3>2, <3>3
  <2>3. CASE ~store["thc"].finalizer
    BY <1>4, <2>1, <2>3 DEF DeleteSingleton
  <2> QED BY <2>2, <2>3
<1> QED BY <1>2, <1>3, <1>4

LEMMA SecretPass == PassInv /\ SecretEdited => PassInv'
<1> SUFFICES ASSUME PassInv, SecretEdited PROVE PassInv'
  OBVIOUS
<1>1. /\ UNCHANGED <<store, cache, queued, todo, mine, fresh, failed, missed, skipped, faults>>
      /\ lag' = lag \cup {"receiver"} /\ changes' \in 0 .. MaxChanges
  BY BoundsAssumption DEF SecretEdited, PassInv, CountsOK
<1>2. ViewOK(store)' /\ ViewOK(cache)' /\ CountsOK'
  BY <1>1 DEF PassInv, ViewOK, CountsOK
<1>3. CopiesOK'
  <2>1. "receiver" \in Objects
    BY DEF Objects, Managed, Soft
  <2> QED BY <1>1, <2>1 DEF PassInv, CopiesOK
<1>4. fresh' \in BOOLEAN /\ queued' \in BOOLEAN /\ (fresh => "thc" \notin lag')
  BY <1>1 DEF PassInv, FlagsOK, FreshCopy
<1>5. FlagsOK' /\ MineOK' /\ PlanOK' /\ FreshCopy'
  BY <1>1, <1>4, PassAlone
<1> QED BY <1>2, <1>3, <1>5 DEF PassInv

LEMMA StutterPass == PassInv /\ UNCHANGED vars => PassInv'
<1> SUFFICES ASSUME PassInv, UNCHANGED vars PROVE PassInv'
  OBVIOUS
<1>1. UNCHANGED <<store, cache, lag, queued, todo, mine, fresh, failed, missed, skipped, changes, faults>>
  BY DEF vars
<1>2. ViewOK(store)' /\ ViewOK(cache)' /\ CopiesOK' /\ CountsOK'
  BY <1>1 DEF PassInv, ViewOK, CopiesOK, CountsOK
<1>3. fresh' \in BOOLEAN /\ queued' \in BOOLEAN /\ (fresh => "thc" \notin lag)
  BY <1>1 DEF PassInv, FlagsOK, FreshCopy
<1>4. FlagsOK' /\ MineOK' /\ PlanOK' /\ FreshCopy'
  BY <1>1, <1>3, PassAlone
<1> QED BY <1>2, <1>4 DEF PassInv

LEMMA PassStep == PassInv /\ [Next]_vars => PassInv'
<1> SUFFICES ASSUME PassInv, [Next]_vars PROVE PassInv'
  OBVIOUS
<1>1. CASE ReconcileStep
  BY <1>1, StartPass, ResolvePass, ReconcileObjectPass, CompareRemovedPass, SingletonPass, CleanupObjectPass DEF ReconcileStep
<1>2. CASE CallFails \/ Restart \/ Requeue \/ GarbageCollect \/ SecretEdited
  BY <1>2, CallFailsPass, RestartPass, RequeuePass, GarbagePass, SecretPass
<1>3. CASE \E kind \in Kinds : WatchEvents(kind)
  BY <1>3, WatchPass
<1>4. CASE CreateSingleton \/ EditSpec \/ DeleteSingleton
  BY <1>4, SingletonChanges, ChangeSingletonPass
<1>5. CASE UserAlertChanges \/ ClusterChanges
  BY <1>5, UserChanges, ChangeOtherPass
<1>6. CASE UNCHANGED vars
  BY <1>6, StutterPass
<1> QED BY <1>1, <1>2, <1>3, <1>4, <1>5, <1>6 DEF Next

LEMMA PassType == PassInv => TypeOK
  BY DEF PassInv, TypeOK, ViewOK, CopiesOK, FlagsOK, MineOK, CountsOK

(* The variables keep their shapes, only copies that lag differ from the    *)
(* store, and a pass is under way exactly while Reconcile holds a singleton.*)
THEOREM TypeCorrect == Spec => []TypeOK
<1>1. Spec => []PassInv
  BY PassInit, PassStep, PTL DEF Spec
<1> QED BY <1>1, PassType, PTL

-----------------------------------------------------------------------------
(* Rest *)

LEMMA TargetWanted ==
  ASSUME NEW thc, NEW view, NEW o \in Required
  PROVE  Wanted(o, thc, view) = Target(o, thc) /\ o \in Managed /\ o \notin Soft
<1>1. o \in Managed /\ o \notin Soft
  BY Names, NamesAssumption DEF Required, Soft, Compare
<1>2. /\ o \in Compare => o \notin AlertSet \cup CheckSet /\ o # "purge"
      /\ o = "purge" => o \notin AlertSet \cup CheckSet
      /\ o \in CheckSet => o \notin AlertSet
  BY NamesAssumption DEF Compare
<1> QED BY <1>1, <1>2, WantedIs DEF Target, Required

(* Versions that the operator treats alike have the same targets. *)
LEMMA TargetAlike ==
  ASSUME NEW thc, NEW other, Alike(thc, other), NEW o
  PROVE  Target(o, thc) = Target(o, other)
  BY DEF Alike, Target, AlertWanted, CheckWanted, PurgeWanted, PurgeOwners, CompareWanted

LEMMA MonitoredSame ==
  ASSUME NEW spec, NEW view, NEW other, \A k \in Clusters : view[k] = other[k]
  PROVE  Monitored(spec, view) = Monitored(spec, other)
  BY DEF Monitored

LEMMA SuffixReported ==
  ASSUME NEW S, NEW s \in Seq(S), NEW n \in 1 .. Len(s), Reported(s)
  PROVE  Reported(SubSeq(s, n, Len(s)))
<1> DEFINE t == SubSeq(s, n, Len(s))
<1>1. Len(t) = Len(s) - n + 1 /\ \A i \in 1 .. Len(s) - n + 1 : t[i] = s[n + i - 1]
  BY SuffixRange
<1> HIDE DEF t
<1>2. ASSUME NEW i \in 1 .. Len(t), t[i] \in Compare PROVE \E j \in i + 1 .. Len(t) : t[j] = "removed"
  <2>1. n + i - 1 \in 1 .. Len(s) /\ s[n + i - 1] \in Compare
    BY <1>1, <1>2
  <2>2. PICK j \in n + i - 1 + 1 .. Len(s) : s[j] = "removed"
    BY <2>1 DEF Reported
  <2>3. j - n + 1 \in i + 1 .. Len(t) /\ j - n + 1 \in 1 .. Len(s) - n + 1 /\ n + (j - n + 1) - 1 = j
    BY <1>1, <1>2
  <2> QED BY <1>1, <2>2, <2>3
<1> QED BY <1>2 DEF Reported, t

LEMMA ConcatReported ==
  ASSUME NEW S, NEW s \in Seq(S), NEW t \in Seq(S), Reported(s), Reported(t)
  PROVE  Reported(s \o t)
<1> DEFINE u == s \o t
<1>1. Len(u) = Len(s) + Len(t) /\ \A i \in 1 .. Len(u) : u[i] = IF i <= Len(s) THEN s[i] ELSE t[i - Len(s)]
  OBVIOUS
<1>2. Len(s) \in Nat /\ Len(t) \in Nat
  OBVIOUS
<1> HIDE DEF u
<1>3. ASSUME NEW i \in 1 .. Len(u), u[i] \in Compare PROVE \E j \in i + 1 .. Len(u) : u[j] = "removed"
  <2>1. CASE i <= Len(s)
    <3>1. PICK j \in i + 1 .. Len(s) : s[j] = "removed"
      <4>1. i \in 1 .. Len(s) /\ s[i] \in Compare
        BY <1>1, <1>2, <1>3, <2>1
      <4> QED BY <4>1 DEF Reported
    <3>2. j \in i + 1 .. Len(u) /\ j \in 1 .. Len(u) /\ j <= Len(s)
      BY <1>1, <1>2, <2>1
    <3> QED BY <1>1, <3>1, <3>2
  <2>2. CASE i > Len(s)
    <3>1. PICK j \in i - Len(s) + 1 .. Len(t) : t[j] = "removed"
      <4>1. i - Len(s) \in 1 .. Len(t) /\ t[i - Len(s)] \in Compare
        BY <1>1, <1>2, <1>3, <2>2
      <4> QED BY <4>1 DEF Reported
    <3>2. /\ Len(s) + j \in i + 1 .. Len(u) /\ Len(s) + j \in 1 .. Len(u)
          /\ ~(Len(s) + j <= Len(s)) /\ Len(s) + j - Len(s) = j
      BY <1>1, <1>2, <2>2
    <3>3. u[Len(s) + j] = "removed"
      BY <1>1, <3>1, <3>2
    <3> QED BY <3>2, <3>3
  <2> QED BY <2>1, <2>2, <1>2
<1> QED BY <1>3 DEF Reported, u

LEMMA ReconcileReports ==
  ASSUME NEW spec, RDS \notin spec.checks
  PROVE  Reported(ReconcilePlan(spec))
<1> DEFINE S == Managed \cup Steps
           a == <<"clusters">>
           m == ComparePlan(spec)
           z == <<"purge", "rules", "metrics", "receiver", "status">>
<1>1. m = <<"registry", "mcp", "rbac", "removed">>
  BY DEF ComparePlan
<1>2. a \in Seq(S) /\ m \in Seq(S) /\ z \in Seq(S)
  <2>1. {"clusters", "removed", "status", "purge"} \cup Compare \cup Soft \subseteq S
    BY DEF Managed, Steps
  <2>2. <<"registry", "mcp", "rbac", "removed">> \in Seq(S)
    BY <2>1 DEF Compare
  <2> QED BY <1>1, <2>1, <2>2 DEF Soft
<1>3. Alerts \in Seq(S) /\ Checks \in Seq(S)
  BY NamesAssumption DEF Managed
<1>4. Reported(a) /\ Reported(z)
  BY DEF Reported, Compare
<1>5. Reported(Alerts) /\ Reported(Checks)
  <2>1. (\A i \in 1 .. Len(Alerts) : Alerts[i] \in AlertSet) /\ (\A i \in 1 .. Len(Checks) : Checks[i] \in CheckSet)
    BY NamesAssumption
  <2>2. (AlertSet \cup CheckSet) \cap Compare = {}
    BY NamesAssumption
  <2> QED BY <2>1, <2>2 DEF Reported
<1>6. Reported(m)
  <2> DEFINE t == <<"registry", "mcp", "rbac", "removed">>
  <2>1. Len(t) = 4 /\ t[4] = "removed"
    OBVIOUS
  <2>2. t[4] \notin Compare
    BY DEF Compare
  <2> HIDE DEF t
  <2>3. ASSUME NEW i \in 1 .. Len(t), t[i] \in Compare PROVE \E j \in i + 1 .. Len(t) : t[j] = "removed"
    <3>1. i \in 1 .. 3 /\ 4 \in i + 1 .. 4
      BY <2>1, <2>2, <2>3
    <3> QED BY <2>1, <3>1
  <2>4. Reported(t)
    BY <2>3 DEF Reported
  <2> QED BY <1>1, <2>4 DEF t
<1> DEFINE x == a \o Alerts
           y == x \o Checks
           b == y \o m
<1> HIDE DEF S, a, b, m, x, y, z
<1>7. x \in Seq(S) /\ Reported(x)
  BY <1>2, <1>3, <1>4, <1>5, ConcatRange, ConcatReported DEF x
<1>8. y \in Seq(S) /\ Reported(y)
  BY <1>3, <1>5, <1>7, ConcatRange, ConcatReported DEF y
<1>9. b \in Seq(S) /\ Reported(b)
  BY <1>2, <1>6, <1>8, ConcatRange, ConcatReported DEF b
<1>10. Reported(b \o z)
  BY <1>2, <1>4, <1>9, ConcatReported
<1> QED BY <1>10 DEF ReconcilePlan, a, b, m, x, y, z

(* The end of a pass that is retried. *)
LEMMA RetriedSync ==
  ASSUME Return, queued' = TRUE
  PROVE  Progress' /\ Settled'
<1>1. fresh' = FALSE
  BY DEF Return
<1> QED BY <1>1 DEF Progress, Settled

(* A pass that has not ended leaves nothing to show at rest. *)
LEMMA RunningSettled ==
  ASSUME PassInv, NEW n, Advanced(n)
  PROVE  todo' # <<>> /\ Settled'
<1>1. todo' # <<>>
  BY SuffixRange DEF Advanced, PassInv, PlanOK
<1> QED BY <1>1 DEF Settled, Complete

(* The elements of the tail. *)
LEMMA TailRange ==
  ASSUME PassInv, todo # <<>>, todo' = Tail(todo), Head(todo) \notin Final, fresh' = fresh
  PROVE  /\ Advanced(2) /\ Range(todo') \subseteq Range(todo)
         /\ \A x \in Range(todo) : x # Head(todo) => x \in Range(todo')
         /\ Reported(todo) => Reported(todo')
         /\ Reported(todo) /\ Head(todo) \in Compare => "removed" \in Range(todo')
<1>1. Advanced(2)
  BY TailAdvances DEF PassInv
<1>2. todo \in Seq(Managed \cup Steps) /\ 2 \in 1 .. Len(todo) /\ todo' = SubSeq(todo, 2, Len(todo))
  BY <1>1 DEF Advanced, PassInv, PlanOK
<1>3. Range(todo') \subseteq Range(todo)
  BY <1>2, SuffixRange
<1>4. ASSUME NEW x \in Range(todo), x # Head(todo) PROVE x \in Range(todo')
  <2>1. x \in Range(SubSeq(todo, 2, Len(todo))) \/ \E i \in 1 .. 2 - 1 : todo[i] = x
    BY <1>2, SuffixRange
  <2>2. \A i \in 1 .. 2 - 1 : todo[i] = Head(todo)
    BY <1>2
  <2> QED BY <1>2, <1>4, <2>1, <2>2
<1>5. Reported(todo) => Reported(todo')
  BY <1>2, SuffixReported
<1>6. ASSUME Reported(todo), Head(todo) \in Compare PROVE "removed" \in Range(todo')
  <2>1. 1 \in 1 .. Len(todo) /\ todo[1] \in Compare
    BY <1>2, <1>6
  <2>2. PICK j \in 1 + 1 .. Len(todo) : todo[j] = "removed"
    BY <1>6, <2>1 DEF Reported
  <2>3. j \in DOMAIN todo
    BY <1>2
  <2>4. "removed" \in Range(todo)
    BY <2>2, <2>3 DEF Range
  <2>5. Head(todo) # "removed"
    BY <1>6 DEF Compare
  <2> QED BY <1>4, <2>4, <2>5
<1> QED BY <1>1, <1>3, <1>4, <1>5, <1>6

(* A pass has dealt with an object: it fits, or its removal has failed. *)
LEMMA ObjectSync ==
  ASSUME SyncInv, todo # <<>>, Head(todo) \in Managed, NEW c, Wrote(Head(todo), c), cache' = cache,
         todo' = Tail(todo), UNCHANGED <<queued, mine, fresh>>,
         \/ failed' = failed /\ (Head(todo) \in Required => Fits(Head(todo), mine, c))
         \/ Head(todo) \in Compare /\ RDS \notin mine.spec.checks /\ failed' = TRUE
  PROVE  Progress' /\ Settled'
<1> DEFINE o == Head(todo)
<1>1. PassInv /\ Progress
  BY DEF SyncInv
<1>2. o \notin Final /\ o # "removed" /\ o # "clusters"
  BY Names DEF Steps
<1>3. /\ Advanced(2) /\ Range(todo') \subseteq Range(todo)
      /\ \A x \in Range(todo) : x # o => x \in Range(todo')
      /\ Reported(todo) => Reported(todo')
      /\ Reported(todo) /\ o \in Compare => "removed" \in Range(todo')
  BY <1>1, <1>2, TailRange
<1>4. Settled'
  BY <1>1, <1>3, RunningSettled
<1>5. ASSUME fresh', ~mine'.deleting, mine'.finalizer
      PROVE  /\ \A x \in Required : x \in Range(todo') \/ (x \in Compare /\ failed') \/ Fits(x, mine', store'[x])
             /\ failed' => "removed" \in Range(todo')
             /\ RDS \notin mine'.spec.checks => Reported(todo')
             /\ "clusters" \in Range(todo') \/ queued' \/ mine'.status = Monitored(mine'.spec, cache')
  <2>1. /\ \A x \in Required : x \in Range(todo) \/ (x \in Compare /\ failed) \/ Fits(x, mine, store[x])
        /\ failed => "removed" \in Range(todo)
        /\ RDS \notin mine.spec.checks => Reported(todo)
        /\ "clusters" \in Range(todo) \/ queued \/ mine.status = Monitored(mine.spec, cache)
    BY <1>1, <1>5 DEF Progress, Behind
  <2>2. failed => failed'
    OBVIOUS
  <2>3. ASSUME NEW x \in Required PROVE x \in Range(todo') \/ (x \in Compare /\ failed') \/ Fits(x, mine', store'[x])
    <3>1. x \in Objects
      BY Names
    <3>2. CASE x = o
      <4>1. store'[x] = c
        BY <3>1, <3>2 DEF Wrote
      <4> QED BY <3>2, <4>1
    <3>3. CASE x # o
      <4>1. store'[x] = store[x]
        BY <3>1, <3>3 DEF Wrote
      <4> QED BY <1>3, <2>1, <2>2, <3>3, <4>1
    <3> QED BY <3>2, <3>3
  <2>4. failed' => "removed" \in Range(todo')
    BY <1>2, <1>3, <2>1
  <2>5. "clusters" \in Range(todo') \/ queued' \/ mine'.status = Monitored(mine'.spec, cache')
    BY <1>2, <1>3, <2>1
  <2> QED BY <1>3, <2>1, <2>3, <2>4, <2>5
<1> QED BY <1>4, <1>5 DEF Progress, Behind

LEMMA ReconcileObjectSync ==
  ASSUME SyncInv, ReconcileObject
  PROVE  Progress' /\ Settled'
<1> DEFINE o == Head(todo)
           want == Wanted(o, mine, cache)
           call == Call(o, want)
<1>1. PassInv /\ todo # <<>> /\ o \in Managed /\ o \in Objects /\ ViewOK(store) /\ cache' = cache
  BY Names DEF ReconcileObject, SyncInv, PassInv
<1>2. CASE UNCHANGED <<store, lag>> /\ (ReturnError \/ StepFails(o))
  <2>1. Wrote(o, store[o])
    BY <1>1, <1>2, PutWrites
  <2>2. CASE ReturnError
    BY <2>2, RetriedSync DEF ReturnError
  <2>3. CASE o \in Soft /\ Proceed
    <3>1. o \notin Required
      BY <2>3, TargetWanted
    <3> QED BY <1>1, <2>1, <2>3, <3>1, ObjectSync DEF Proceed
  <2>4. CASE o \in Compare /\ RDS \notin mine.spec.checks /\ todo' = Tail(todo) /\ failed' = TRUE /\ UNCHANGED <<queued, mine, fresh>>
    BY <1>1, <2>1, <2>4, ObjectSync
  <2> QED BY <1>2, <2>2, <2>3, <2>4 DEF StepFails
<1>3. CASE Put(o, call.content) /\ call.ok /\ Proceed
  <2>1. Wrote(o, call.content)
    BY <1>1, <1>3, PutWrites
  <2>2. ASSUME o \in Required PROVE Fits(o, mine, call.content)
    <3>1. want = Target(o, mine)
      BY <2>2, TargetWanted
    <3>2. /\ want # Absent => call.content = want
          /\ o \in Compare /\ want = Absent => call.content = want
      BY <1>1, <1>3, CallResult
    <3> QED BY <3>1, <3>2 DEF Fits
  <2> QED BY <1>1, <1>3, <2>1, <2>2, ObjectSync DEF Proceed
<1>4. CASE Put(o, call.content) /\ StepFails(o)
  <2>1. Wrote(o, call.content)
    BY <1>1, <1>4, PutWrites
  <2>2. CASE ReturnError
    BY <2>2, RetriedSync DEF ReturnError
  <2>3. CASE o \in Soft /\ Proceed
    <3>1. o \notin Required
      BY <2>3, TargetWanted
    <3> QED BY <1>1, <2>1, <2>3, <3>1, ObjectSync DEF Proceed
  <2>4. CASE o \in Compare /\ RDS \notin mine.spec.checks /\ todo' = Tail(todo) /\ failed' = TRUE /\ UNCHANGED <<queued, mine, fresh>>
    BY <1>1, <2>1, <2>4, ObjectSync
  <2> QED BY <1>4, <2>2, <2>3, <2>4 DEF StepFails
<1> QED BY <1>2, <1>3, <1>4 DEF ReconcileObject

LEMMA CallFailsSync ==
  ASSUME SyncInv, CallFails
  PROVE  Progress' /\ Settled'
<1> DEFINE o == Head(todo)
<1>1. PassInv /\ todo # <<>> /\ cache' = cache
  BY DEF CallFails, SyncInv
<1>2. CASE o \notin Managed
  BY <1>2, RetriedSync DEF CallFails, ReturnError
<1>3. CASE o \in Managed /\ mine.deleting
  <2>1. CleanupFails(o)
    BY <1>3 DEF CallFails
  <2>2. mine' = mine
    BY <2>1 DEF CleanupFails
  <2>3. PICK n \in 1 .. Len(todo) : todo' = SubSeq(todo, n, Len(todo))
    BY <2>1 DEF CleanupFails
  <2>4. Advanced(n)
    BY <2>1, <2>3 DEF Advanced, CleanupFails
  <2>5. Settled'
    BY <1>1, <2>4, RunningSettled
  <2>6. Progress'
    BY <1>3, <2>2 DEF Progress, Behind
  <2> QED BY <2>5, <2>6
<1>4. CASE o \in Managed /\ ~mine.deleting
  <2>1. StepFails(o)
    BY <1>4 DEF CallFails
  <2>2. PICK c : Wrote(o, c)
    BY <1>1, <1>4, CallFailsEffect
  <2>3. CASE ReturnError
    BY <2>3, RetriedSync DEF ReturnError
  <2>4. CASE o \in Soft /\ Proceed
    <3>1. o \notin Required
      BY <2>4, TargetWanted
    <3> QED BY <1>1, <1>4, <2>2, <2>4, <3>1, ObjectSync DEF Proceed
  <2>5. CASE o \in Compare /\ RDS \notin mine.spec.checks /\ todo' = Tail(todo) /\ failed' = TRUE /\ UNCHANGED <<queued, mine, fresh>>
    BY <1>1, <1>4, <2>2, <2>5, ObjectSync
  <2> QED BY <2>1, <2>3, <2>4, <2>5 DEF StepFails
<1> QED BY <1>2, <1>3, <1>4

LEMMA StartSync ==
  ASSUME SyncInv, Start
  PROVE  Progress' /\ Settled'
<1> DEFINE thc == cache["thc"]
<1>1. todo = <<>> /\ UNCHANGED <<store, cache, lag>> /\ PassInv
  BY DEF Start, SyncInv
<1>2. CASE thc = Absent
  <2>1. ~fresh' /\ todo' = <<>>
    BY <1>1, <1>2 DEF Start, PassInv, FreshCopy
  <2>2. "thc" \notin lag => store["thc"] = Absent
    BY <1>1, <1>2, Names DEF PassInv, CopiesOK
  <2>3. Settled'
    BY <1>1, <2>2 DEF Settled, Live
  <2> QED BY <2>1, <2>3 DEF Progress, Behind
<1>3. CASE thc # Absent
  <2>1. /\ mine' = thc /\ failed' = FALSE
        /\ todo' = IF thc.deleting THEN CleanupPlan
                   ELSE IF thc.finalizer THEN ReconcilePlan(thc.spec) ELSE <<"addFinalizer">>
    BY <1>3 DEF Start
  <2>2. todo' # <<>>
    <3>1. <<"addFinalizer">> # <<>>
      OBVIOUS
    <3> QED BY <2>1, <3>1, CleanupSteps, ReconcileSteps
  <2>3. ASSUME ~thc.deleting, thc.finalizer
        PROVE  /\ Required \cup {"clusters"} \subseteq Range(todo')
               /\ RDS \notin thc.spec.checks => Reported(todo')
    <3>1. todo' = ReconcilePlan(thc.spec)
      BY <2>1, <2>3
    <3> QED BY <3>1, ReconcileSteps, ReconcileReports, Names
  <2>4. Progress'
    BY <2>1, <2>3 DEF Progress, Behind
  <2> QED BY <2>2, <2>4 DEF Settled, Complete
<1> QED BY <1>2, <1>3

LEMMA ResolveSync ==
  ASSUME SyncInv, ResolveClusters
  PROVE  Progress' /\ Settled'
<1>1. PassInv /\ Progress
  BY DEF SyncInv
<1>2. /\ todo # <<>> /\ Head(todo) = "clusters" /\ todo' = Tail(todo) /\ UNCHANGED <<store, cache, queued, fresh, failed>>
      /\ mine' = [mine EXCEPT !.status = Monitored(mine.spec, cache)]
  BY DEF ResolveClusters
<1>3. mine \in Singleton
  BY <1>1, <1>2 DEF PassInv, MineOK
<1>4. Alike(mine', mine) /\ mine'.status = Monitored(mine.spec, cache)
  BY <1>2, <1>3 DEF Alike, Singleton
<1>5. Head(todo) \notin Final /\ Head(todo) # "removed" /\ Head(todo) \notin Required
  BY <1>2, Names DEF Final, Steps
<1>6. /\ Advanced(2)
      /\ \A x \in Range(todo) : x # Head(todo) => x \in Range(todo')
      /\ Reported(todo) => Reported(todo')
  BY <1>1, <1>2, <1>5, TailRange
<1>7. Settled'
  BY <1>1, <1>6, RunningSettled
<1>8. \A x \in Required : Fits(x, mine, store[x]) => Fits(x, mine', store'[x])
  BY <1>2, <1>4, TargetAlike DEF Fits
<1>9. mine'.deleting = mine.deleting /\ mine'.finalizer = mine.finalizer /\ mine'.spec = mine.spec
  BY <1>4 DEF Alike
<1>10. Progress'
  <2> SUFFICES ASSUME fresh', ~mine'.deleting, mine'.finalizer PROVE Behind'
    BY DEF Progress
  <2>1. /\ \A o \in Required : o \in Range(todo) \/ (o \in Compare /\ failed) \/ Fits(o, mine, store[o])
        /\ failed => "removed" \in Range(todo)
        /\ RDS \notin mine.spec.checks => Reported(todo)
    BY <1>1, <1>2, <1>9 DEF Progress, Behind
  <2>2. mine'.status = Monitored(mine'.spec, cache')
    BY <1>2, <1>4, <1>9
  <2>3. \A o \in Required : o \in Range(todo') \/ (o \in Compare /\ failed') \/ Fits(o, mine', store'[o])
    BY <1>2, <1>5, <1>6, <1>8, <2>1
  <2>4. failed' => "removed" \in Range(todo')
    BY <1>2, <1>5, <1>6, <2>1
  <2> QED BY <1>6, <1>9, <2>1, <2>2, <2>3, <2>4 DEF Behind
<1> QED BY <1>7, <1>10

LEMMA CompareRemovedSync ==
  ASSUME SyncInv, CompareRemoved
  PROVE  Progress' /\ Settled'
<1>1. PassInv /\ Progress
  BY DEF SyncInv
<1>2. todo # <<>> /\ Head(todo) = "removed" /\ UNCHANGED <<store, cache, lag>>
  BY DEF CompareRemoved
<1>3. CASE failed
  BY <1>3, RetriedSync DEF CompareRemoved, ReturnError
<1>4. CASE ~failed
  <2>1. todo' = Tail(todo) /\ UNCHANGED <<queued, mine, fresh, failed>>
    BY <1>4 DEF CompareRemoved, Proceed
  <2>2. Head(todo) \notin Final /\ Head(todo) # "clusters" /\ Head(todo) \notin Required
    BY <1>2, Names DEF Final, Steps
  <2>3. /\ Advanced(2)
        /\ \A x \in Range(todo) : x # Head(todo) => x \in Range(todo')
        /\ Reported(todo) => Reported(todo')
    BY <1>1, <1>2, <2>1, <2>2, TailRange
  <2>4. Settled'
    BY <1>1, <2>3, RunningSettled
  <2>5. Progress'
    <3> SUFFICES ASSUME fresh', ~mine'.deleting, mine'.finalizer PROVE Behind'
      BY DEF Progress
    <3>1. /\ \A o \in Required : o \in Range(todo) \/ Fits(o, mine, store[o])
          /\ RDS \notin mine.spec.checks => Reported(todo)
          /\ "clusters" \in Range(todo) \/ queued \/ mine.status = Monitored(mine.spec, cache)
      BY <1>1, <1>4, <2>1 DEF Progress, Behind
    <3>2. \A o \in Required : o \in Range(todo') \/ Fits(o, mine', store'[o])
      BY <1>2, <2>1, <2>2, <2>3, <3>1
    <3>3. "clusters" \in Range(todo') \/ queued' \/ mine'.status = Monitored(mine'.spec, cache')
      BY <1>2, <2>1, <2>2, <2>3, <3>1
    <3> QED BY <1>4, <2>1, <2>3, <3>1, <3>2, <3>3 DEF Behind
  <2> QED BY <2>4, <2>5
<1> QED BY <1>3, <1>4

(* At its last step a pass has nothing else left. *)
LEMMA AtLastStep ==
  ASSUME PassInv, todo # <<>>, Head(todo) \in Final
  PROVE  Range(todo) = {Head(todo)} /\ Head(todo) \in StepsOf(mine)
<1>1. todo \in Seq(Managed \cup Steps) /\ Closed(todo) /\ Range(todo) \subseteq StepsOf(mine)
  BY DEF PassInv, PlanOK
<1>2. 1 \in 1 .. Len(todo) /\ todo[1] = Head(todo)
  BY <1>1
<1>3. Len(todo) = 1
  BY <1>1, <1>2 DEF Closed
<1>4. Range(todo) = {Head(todo)}
  BY <1>1, <1>2, <1>3 DEF Range
<1> QED BY <1>1, <1>4

LEMMA WriteSingletonSync ==
  ASSUME SyncInv, AddFinalizer \/ UpdateStatus \/ RemoveFinalizer
  PROVE  Progress' /\ Settled'
<1>1. PassInv /\ Progress
  BY DEF SyncInv
<1>2. todo # <<>> /\ Head(todo) \in Final
  BY DEF AddFinalizer, UpdateStatus, RemoveFinalizer, WriteSingleton, Final
<1>3. Range(todo) = {Head(todo)} /\ Head(todo) \in StepsOf(mine)
  BY <1>1, <1>2, AtLastStep
<1>4. mine \in Singleton
  BY <1>1, <1>2 DEF PassInv, MineOK
<1>5. CASE ~fresh
  BY <1>5, RetriedSync DEF AddFinalizer, UpdateStatus, RemoveFinalizer, WriteSingleton, ReturnError
<1>6. CASE fresh
  <2>1. Return /\ queued' = queued /\ cache' = cache
    BY <1>6 DEF AddFinalizer, UpdateStatus, RemoveFinalizer, WriteSingleton
  <2>2. Progress'
    BY <2>1 DEF Progress, Return
  <2>3. store["thc"] # Absent /\ Alike(store["thc"], mine)
    BY <1>1, <1>6 DEF PassInv, FreshCopy
  <2>4. CASE RemoveFinalizer
    <3>1. Put("thc", Absent)
      BY <1>6, <2>4 DEF RemoveFinalizer, WriteSingleton
    <3>2. Wrote("thc", Absent)
      BY <1>1, <3>1, PutWrites, Names DEF PassInv
    <3>3. store'["thc"] = Absent
      BY <3>2, Names DEF Wrote
    <3> QED BY <2>2, <3>3 DEF Settled, Live
  <2>5. CASE AddFinalizer
    <3> DEFINE c == [mine EXCEPT !.finalizer = TRUE]
    <3>1. Put("thc", c) /\ Head(todo) = "addFinalizer"
      BY <1>6, <2>5 DEF AddFinalizer, WriteSingleton
    <3>2. c.finalizer = TRUE /\ c \in Singleton
      BY <1>4 DEF Singleton
    <3> HIDE DEF c
    <3>3. Wrote("thc", c)
      BY <1>1, <3>1, PutWrites, Names DEF PassInv
    <3>4. ~mine.finalizer
      <4>1. "addFinalizer" \notin Managed
        BY Names DEF Steps
      <4> QED BY <1>3, <3>1, <4>1 DEF StepsOf
    <3>5. c # store["thc"]
      BY <2>3, <3>2, <3>4 DEF Alike
    <3>6. "thc" \in lag'
      BY <1>1, <2>1, <3>2, <3>3, <3>5, SingletonWritten
    <3> QED BY <2>2, <3>6 DEF Settled, Complete
  <2>6. CASE UpdateStatus
    <3>1. Put("thc", mine) /\ Head(todo) = "status"
      BY <1>6, <2>6 DEF UpdateStatus, WriteSingleton
    <3>2. Wrote("thc", mine)
      BY <1>1, <3>1, PutWrites, Names DEF PassInv
    <3>3. /\ store'["thc"] = mine /\ (mine # store["thc"] => "thc" \in lag')
          /\ \A x \in Objects \ {"thc"} : store'[x] = store[x]
      BY <1>1, <1>4, <2>1, <3>2, SingletonWritten
    <3>4. ASSUME ~queued', "thc" \notin lag', Live'
          PROVE  /\ \A o \in Required : Fits(o, store'["thc"], store'[o])
                 /\ store'["thc"].status = Monitored(store'["thc"].spec, cache')
      <4>1. ~mine.deleting /\ mine.finalizer
        BY <3>3, <3>4 DEF Live
      <4>2. Head(todo) \notin Required \cup {"removed", "clusters"}
        BY <3>1, Names DEF Final
      <4>3. /\ \A o \in Required : o \in Range(todo) \/ (o \in Compare /\ failed) \/ Fits(o, mine, store[o])
            /\ failed => "removed" \in Range(todo)
            /\ "clusters" \in Range(todo) \/ queued \/ mine.status = Monitored(mine.spec, cache)
        BY <1>1, <1>6, <4>1 DEF Progress, Behind
      <4>4. \A o \in Required : Fits(o, mine, store[o])
        BY <1>3, <4>2, <4>3
      <4>5. \A o \in Required : store'[o] = store[o]
        BY <3>3, Names
      <4>6. mine.status = Monitored(mine.spec, cache)
        BY <1>3, <2>1, <3>4, <4>2, <4>3
      <4> QED BY <2>1, <3>3, <4>4, <4>5, <4>6
    <3> QED BY <2>2, <3>4 DEF Settled, Complete
  <2> QED BY <2>4, <2>5, <2>6
<1> QED BY <1>5, <1>6

LEMMA CleanupObjectSync ==
  ASSUME SyncInv, CleanupObject
  PROVE  Progress' /\ Settled'
<1>1. PassInv /\ mine.deleting /\ todo # <<>> /\ Head(todo) \in Managed
  BY DEF CleanupObject, SyncInv
<1>2. CASE ReturnError
  BY <1>2, RetriedSync DEF ReturnError
<1>3. CASE CleanupFails(Head(todo)) \/ Proceed
  <2>1. mine' = mine
    BY <1>3 DEF CleanupFails, Proceed
  <2>2. \E n : Advanced(n)
    <3>1. CASE CleanupFails(Head(todo))
      BY <3>1 DEF CleanupFails, Advanced
    <3>2. CASE Proceed
      BY <1>1, <3>2, TailAdvances, Names DEF Proceed, PassInv
    <3> QED BY <1>3, <3>1, <3>2
  <2>3. Settled'
    BY <1>1, <2>2, RunningSettled
  <2>4. Progress'
    BY <1>1, <2>1 DEF Progress, Behind
  <2> QED BY <2>3, <2>4
<1> QED BY <1>2, <1>3 DEF CleanupObject

(* A step that leaves the pass and the singleton alone. *)
LEMMA SyncAlone ==
  ASSUME SyncInv, UNCHANGED <<todo, mine, fresh, failed>>, store'["thc"] = store["thc"],
         "thc" \in lag => "thc" \in lag' \/ queued', queued => queued',
         ~queued' => \A k \in Clusters : cache'[k] = cache[k],
         \A o \in Required : store'[o] = store[o] \/ (o = "purge" /\ GarbageCollect)
  PROVE  Progress' /\ Settled'
<1>1. PassInv /\ Progress /\ Settled
  BY DEF SyncInv
<1>2. ASSUME NEW thc, Alike(store["thc"], thc), store["thc"] # Absent, NEW o \in Required, Fits(o, thc, store[o])
      PROVE  Fits(o, thc, store'[o])
  <2>1. CASE store'[o] = store[o]
    BY <1>2, <2>1
  <2>2. CASE o = "purge" /\ GarbageCollect
    <3>1. store["thc"].uid \notin store["purge"]
      BY <1>2, <2>2 DEF GarbageCollect
    <3>2. Target("purge", thc) = PurgeWanted(thc)
      BY NamesAssumption DEF Target
    <3>3. CASE Target("purge", thc) = Absent
      BY <2>2, <3>3 DEF Fits, Compare
    <3>4. CASE Target("purge", thc) # Absent
      <4>1. store["purge"] = {thc.uid}
        BY <1>2, <2>2, <3>2, <3>4 DEF Fits, PurgeWanted, PurgeOwners
      <4> QED BY <1>2, <3>1, <4>1 DEF Alike
    <3> QED BY <3>3, <3>4
  <2> QED BY <2>1, <2>2
<1>3. Progress'
  <2> SUFFICES ASSUME fresh', ~mine'.deleting, mine'.finalizer PROVE Behind'
    BY DEF Progress
  <2>1. Alike(store["thc"], mine) /\ store["thc"] # Absent
    BY <1>1 DEF PassInv, FreshCopy
  <2>2. /\ \A o \in Required : o \in Range(todo) \/ (o \in Compare /\ failed) \/ Fits(o, mine, store[o])
        /\ failed => "removed" \in Range(todo)
        /\ RDS \notin mine.spec.checks => Reported(todo)
        /\ "clusters" \in Range(todo) \/ queued \/ mine.status = Monitored(mine.spec, cache)
    BY <1>1 DEF Progress, Behind
  <2>3. \A o \in Required : o \in Range(todo) \/ (o \in Compare /\ failed) \/ Fits(o, mine, store'[o])
    BY <1>2, <2>1, <2>2
  <2>4. "clusters" \in Range(todo) \/ queued' \/ mine.status = Monitored(mine.spec, cache')
    BY <2>2, MonitoredSame
  <2> QED BY <2>2, <2>3, <2>4 DEF Behind
<1>4. Settled'
  <2> SUFFICES ASSUME todo' = <<>>, ~queued', "thc" \notin lag', Live' PROVE Complete'
    BY DEF Settled
  <2>1. todo = <<>> /\ ~queued /\ "thc" \notin lag
    OBVIOUS
  <2>2. Live /\ store["thc"] # Absent
    BY DEF Live
  <2>3. (\A o \in Required : Fits(o, store["thc"], store[o])) /\ store["thc"].status = Monitored(store["thc"].spec, cache)
    BY <1>1, <2>1, <2>2 DEF Settled, Complete
  <2>4. \A o \in Required : Fits(o, store["thc"], store'[o])
    BY <1>2, <2>2, <2>3 DEF Alike
  <2>5. Monitored(store["thc"].spec, cache') = Monitored(store["thc"].spec, cache)
    BY MonitoredSame
  <2> QED BY <2>3, <2>4, <2>5 DEF Complete
<1> QED BY <1>3, <1>4

LEMMA WatchSync ==
  ASSUME SyncInv, NEW kind \in Kinds, WatchEvents(kind)
  PROVE  Progress' /\ Settled'
<1>1. PassInv
  BY DEF SyncInv
<1>2. /\ UNCHANGED <<store, todo, mine, fresh, failed>>
      /\ \A o \in Objects : cache'[o] = IF o \in kind THEN store[o] ELSE cache[o]
      /\ lag' = lag \ kind
      /\ ~queued' => ~queued /\ kind \cap lag \cap Watched = {}
  BY <1>1, WatchedCopies
<1>3. "thc" \in lag => "thc" \in lag' \/ queued'
  BY <1>2 DEF Watched
<1>4. ASSUME ~queued', NEW k \in Clusters PROVE cache'[k] = cache[k]
  <2>1. k \in Objects /\ k \notin {"rbac", "mcp"} /\ k \in Watched
    BY NamesAssumption DEF Objects, Watched, Compare
  <2>2. k \notin kind \cap lag
    BY <1>2, <1>4, <2>1
  <2> QED BY <1>1, <1>2, <2>1, <2>2 DEF PassInv, CopiesOK
<1> QED BY <1>2, <1>3, <1>4, SyncAlone

LEMMA OthersSync ==
  ASSUME SyncInv, Requeue \/ SecretEdited \/ UNCHANGED vars
  PROVE  Progress' /\ Settled'
<1>1. /\ UNCHANGED <<store, cache, todo, mine, fresh, failed>>
      /\ lag \subseteq lag' /\ (queued => queued')
  BY DEF Requeue, SecretEdited, vars
<1> QED BY <1>1, SyncAlone

LEMMA GarbageSync ==
  ASSUME SyncInv, GarbageCollect
  PROVE  Progress' /\ Settled'
<1>1. UNCHANGED <<cache, queued, todo, mine, fresh, failed>> /\ Put("purge", Absent) /\ "purge" \in Objects
  BY DEF GarbageCollect, Objects, Managed
<1>2. Wrote("purge", Absent)
  BY <1>1, PutWrites DEF SyncInv, PassInv
<1>3. store'["thc"] = store["thc"] /\ lag \subseteq lag' /\ \A o \in Required : o = "purge" \/ store'[o] = store[o]
  BY <1>2, Names DEF Wrote
<1> QED BY <1>1, <1>3, SyncAlone

LEMMA ChangesSync ==
  ASSUME SyncInv, CreateSingleton \/ EditSpec \/ DeleteSingleton \/ UserAlertChanges \/ ClusterChanges
  PROVE  Progress' /\ Settled'
<1>1. PassInv
  BY DEF SyncInv
<1>2. CASE CreateSingleton \/ EditSpec \/ DeleteSingleton
  <2>1. PICK c \in Singleton \cup {Absent} : Change("thc", c) /\ c # store["thc"]
    BY <1>1, <1>2, SingletonChanges
  <2>2. Wrote("thc", c) /\ fresh' = FALSE /\ cache' = cache
    BY <1>1, <2>1, ChangeSingletonPass
  <2>3. "thc" \in lag'
    BY <1>1, <2>1, <2>2, SingletonWritten
  <2> QED BY <2>2, <2>3 DEF Progress, Settled
<1>3. CASE UserAlertChanges \/ ClusterChanges
  <2>1. PICK o \in UserAlerts \cup Clusters : \E c \in {Absent} \cup Contents(o) : Change(o, c)
    BY <1>1, <1>3, UserChanges
  <2>2. PICK c : Wrote(o, c) /\ UNCHANGED <<cache, queued, todo, mine, fresh, failed>>
    BY <1>1, <2>1, ChangeOtherPass
  <2>3. store'["thc"] = store["thc"] /\ lag \subseteq lag' /\ \A x \in Required : store'[x] = store[x]
    BY <2>2, Names DEF Wrote
  <2> QED BY <2>2, <2>3, SyncAlone
<1> QED BY <1>2, <1>3

LEMMA SyncStep == SyncInv /\ [Next]_vars => SyncInv'
<1> SUFFICES ASSUME SyncInv, [Next]_vars PROVE SyncInv'
  OBVIOUS
<1>1. PassInv'
  BY PassStep DEF SyncInv
<1>2. Progress' /\ Settled'
  <2>1. CASE ReconcileStep
    BY <2>1, StartSync, ResolveSync, ReconcileObjectSync, CompareRemovedSync, WriteSingletonSync, CleanupObjectSync
       DEF ReconcileStep
  <2>2. CASE CallFails
    BY <2>2, CallFailsSync
  <2>3. CASE Restart
    BY <2>3, RetriedSync DEF Restart
  <2>4. CASE \E kind \in Kinds : WatchEvents(kind)
    BY <2>4, WatchSync
  <2>5. CASE Requeue \/ SecretEdited \/ UNCHANGED vars
    BY <2>5, OthersSync
  <2>6. CASE GarbageCollect
    BY <2>6, GarbageSync
  <2>7. CASE CreateSingleton \/ EditSpec \/ DeleteSingleton \/ UserAlertChanges \/ ClusterChanges
    BY <2>7, ChangesSync
  <2> QED BY <2>1, <2>2, <2>3, <2>4, <2>5, <2>6, <2>7 DEF Next
<1> QED BY <1>1, <1>2 DEF SyncInv

LEMMA SyncComplete == SyncInv => RestIsComplete
<1> SUFFICES ASSUME SyncInv, AtRest, Live
             PROVE  LET thc == store["thc"] IN
                    /\ \A o \in AlertSet \cup CheckSet \cup {"purge"} :
                         Wanted(o, thc, store) # Absent => store[o] = Wanted(o, thc, store)
                    /\ \A o \in Compare : store[o] = Wanted(o, thc, store)
                    /\ thc.status = Monitored(thc.spec, store)
  BY DEF RestIsComplete
<1> DEFINE thc == store["thc"]
<1>1. todo = <<>> /\ ~queued /\ lag = {}
  BY DEF AtRest
<1>2. Complete
  BY <1>1 DEF SyncInv, Settled
<1>3. \A o \in Required : Wanted(o, thc, store) = Target(o, thc) /\ Fits(o, thc, store[o])
  BY <1>2, TargetWanted DEF Complete
<1>4. \A o \in AlertSet \cup CheckSet \cup {"purge"} : Wanted(o, thc, store) # Absent => store[o] = Wanted(o, thc, store)
  BY <1>3 DEF Required, Fits
<1>5. \A o \in Compare : store[o] = Wanted(o, thc, store)
  BY <1>3 DEF Required, Fits
<1>6. \A k \in Clusters : cache[k] = store[k]
  <2>1. \A k \in Clusters : k \in Objects /\ k \notin {"rbac", "mcp"}
    BY NamesAssumption DEF Objects, Compare
  <2> QED BY <1>1, <2>1 DEF SyncInv, PassInv, CopiesOK
<1>7. thc.status = Monitored(thc.spec, store)
  BY <1>2, <1>6, MonitoredSame DEF Complete
<1> QED BY <1>4, <1>5, <1>7

(* Whatever calls fail, whatever stale copies passes work on and whenever   *)
(* the controller restarts: when it rests under a singleton it controls,    *)
(* what the spec enables exists and the status is that of the clusters.     *)
THEOREM CompleteAtRest == Spec => []RestIsComplete
<1>1. Init => SyncInv
  <2> SUFFICES ASSUME Init PROVE SyncInv
    OBVIOUS
  <2>1. store["thc"] = Absent
    BY BareAssumption, Names DEF Init, Shared
  <2> QED BY <2>1, PassInit DEF Init, SyncInv, Progress, Settled, Live
<1> QED BY <1>1, SyncStep, SyncComplete, PTL DEF Spec

-----------------------------------------------------------------------------
(* Leftovers *)

(* A step that keeps the finalizer and every object, or deletes some. *)
LEMMA CleanAlone ==
  ASSUME CleanInv, store'["thc"] = store["thc"],
         mine' = mine \/ mine' = Absent \/ mine' = cache["thc"],
         cache'["thc"] \in {cache["thc"], store["thc"]},
         Leftover' \subseteq Leftover, Leftover \subseteq Accounted => Leftover' \subseteq Accounted', CleaningUp'
  PROVE  Guarded' /\ Unclaimed' /\ CleaningUp'
  BY DEF CleanInv, Guarded, Guards, Unclaimed

(* A reconcile changes objects only under the finalizer. *)
LEMMA UnderFinalizer ==
  ASSUME CleanInv, todo # <<>>, Head(todo) \in Managed, ~mine.deleting
  PROVE  store["thc"] # Absent /\ store["thc"].finalizer
<1>1. Head(todo) \in StepsOf(mine) /\ mine # Absent
  <2>1. todo \in Seq(Managed \cup Steps) /\ Range(todo) \subseteq StepsOf(mine) /\ mine # Absent
    BY DEF CleanInv, PassInv, PlanOK, MineOK
  <2>2. Head(todo) \in Range(todo)
    BY <2>1 DEF Range
  <2> QED BY <2>1, <2>2
<1>2. "addFinalizer" \notin Managed
  BY Names DEF Steps
<1>3. mine.finalizer
  BY <1>1, <1>2 DEF StepsOf
<1> QED BY <1>1, <1>3 DEF CleanInv, Guarded, Guards

LEMMA ObjectClean ==
  ASSUME CleanInv, todo # <<>>, Head(todo) \in Managed, ~mine.deleting,
         NEW c, Wrote(Head(todo), c), cache' = cache, GoesOn
  PROVE  Guarded' /\ Unclaimed' /\ CleaningUp'
<1>1. store["thc"] # Absent /\ store["thc"].finalizer
  BY UnderFinalizer
<1>2. store'["thc"] = store["thc"]
  BY Names DEF Wrote
<1>3. mine' = mine \/ (mine' = Absent /\ fresh' = FALSE)
  BY DEF GoesOn, Return
<1> QED BY <1>1, <1>2, <1>3 DEF Guarded, Guards, Unclaimed, CleaningUp

(* A cleanup that fails on an object skips the rest of its loop and notes   *)
(* what it skips.                                                           *)
LEMMA CleanupFailsClean ==
  ASSUME CleanInv, NEW o, CleanupFails(o), Leftover' \subseteq Leftover, cache' = cache, store'["thc"] = store["thc"]
  PROVE  Guarded' /\ Unclaimed' /\ CleaningUp'
<1>1. PICK n \in 1 .. Len(todo) : (\A i \in 1 .. n - 1 : todo[i] \in LoopOf(o)) /\ todo' = SubSeq(todo, n, Len(todo))
  BY DEF CleanupFails
<1>2. mine' = mine /\ fresh' = fresh /\ Accounted' = Accounted \cup {o} \cup (LoopOf(o) \cap Range(todo))
  BY DEF CleanupFails, Accounted
<1>3. todo \in Seq(Managed \cup Steps)
  BY DEF CleanInv, PassInv, PlanOK
<1>4. \A x \in Range(todo) : x \in Range(todo') \/ \E i \in 1 .. n - 1 : todo[i] = x
  BY <1>1, <1>3, SuffixRange
<1>5. CleaningUp'
  BY <1>1, <1>2, <1>4 DEF CleanInv, CleaningUp
<1> QED BY <1>2, <1>5, CleanAlone

LEMMA CleanupObjectClean ==
  ASSUME CleanInv, CleanupObject
  PROVE  Guarded' /\ Unclaimed' /\ CleaningUp'
<1> DEFINE o == Head(todo)
           call == Call(o, Absent)
<1>1. PassInv /\ todo # <<>> /\ o \in Managed /\ o \in Objects /\ o # "thc" /\ ViewOK(store) /\ cache' = cache
  BY Names DEF CleanupObject, CleanInv, PassInv
<1>2. CASE UNCHANGED <<store, lag>> /\ CleanupFails(o)
  BY <1>1, <1>2, CleanupFailsClean DEF Leftover
<1>3. CASE /\ Put(o, call.content) /\ Proceed
           /\ missed' = IF call.content = Absent THEN missed \ {o} ELSE missed \cup {o}
           /\ skipped' = skipped \ {o}
  <2>1. Wrote(o, call.content)
    BY <1>1, <1>3, PutWrites
  <2>2. call.content \in {store[o], Absent}
    BY <1>1, CallResult
  <2>3. \A x \in Managed : store'[x] = IF x = o THEN call.content ELSE store[x]
    BY <2>1, Names DEF Wrote
  <2>4. store'["thc"] = store["thc"]
    BY <1>1, <2>1, Names DEF Wrote
  <2> HIDE DEF call
  <2>5. Leftover' \subseteq Leftover
    BY <2>2, <2>3 DEF Leftover
  <2>6. \A x \in Leftover' : (x # o => (x \in Accounted' <=> x \in Accounted)) /\ (x = o => x \in Accounted')
    BY <1>3, <2>3 DEF Leftover, Accounted
  <2>7. \A x \in Range(todo) : x # o => x \in Range(todo')
    BY <1>1, <1>3, TailRange, Names DEF Proceed
  <2>8. CleaningUp'
    BY <1>3, <2>5, <2>6, <2>7 DEF CleanInv, CleaningUp, Proceed
  <2>9. Leftover \subseteq Accounted => Leftover' \subseteq Accounted'
    BY <2>5, <2>6
  <2> QED BY <1>1, <1>3, <2>4, <2>5, <2>8, <2>9, CleanAlone DEF Proceed
<1>4. CASE ReturnError /\ UNCHANGED <<store, lag, missed, skipped>>
  <2>1. Return /\ CleaningUp' /\ Leftover' = Leftover /\ Accounted' = Accounted
    BY <1>4 DEF ReturnError, Return, CleaningUp, Leftover, Accounted
  <2> QED BY <1>1, <1>4, <2>1, CleanAlone DEF Return
<1> QED BY <1>2, <1>3, <1>4 DEF CleanupObject

LEMMA CallFailsClean ==
  ASSUME CleanInv, CallFails
  PROVE  Guarded' /\ Unclaimed' /\ CleaningUp'
<1> DEFINE o == Head(todo)
<1>1. PassInv /\ todo # <<>> /\ cache' = cache
  BY DEF CallFails, CleanInv
<1>2. CASE o \notin Managed
  <2>1. Return /\ UNCHANGED <<store, missed, skipped>>
    BY <1>2 DEF CallFails, ReturnError
  <2>2. CleaningUp' /\ Leftover' = Leftover /\ Accounted' = Accounted
    BY <2>1 DEF CleaningUp, Return, Leftover, Accounted
  <2> QED BY <1>1, <2>1, <2>2, CleanAlone DEF Return
<1>3. CASE o \in Managed /\ ~mine.deleting
  <2>1. PICK c : Wrote(o, c)
    BY <1>1, <1>3, CallFailsEffect
  <2>2. GoesOn
    BY <1>1, <1>3, CallFailsEffect
  <2> QED BY <1>1, <1>3, <2>1, <2>2, ObjectClean
<1>4. CASE o \in Managed /\ mine.deleting
  <2>1. CleanupFails(o)
    BY <1>4 DEF CallFails
  <2>2. PICK c \in {store[o], Absent} : Wrote(o, c)
    BY <1>1, <1>4, CallFailsEffect
  <2>3. \A x \in Managed : store'[x] = IF x = o THEN c ELSE store[x]
    BY <2>2, Names DEF Wrote
  <2>4. Leftover' \subseteq Leftover
    BY <2>2, <2>3 DEF Leftover
  <2>5. store'["thc"] = store["thc"]
    BY <1>4, <2>2, Names DEF Wrote
  <2> QED BY <1>1, <2>1, <2>4, <2>5, CleanupFailsClean
<1> QED BY <1>2, <1>3, <1>4

LEMMA StartClean ==
  ASSUME CleanInv, Start
  PROVE  Guarded' /\ Unclaimed' /\ CleaningUp'
<1> DEFINE thc == cache["thc"]
<1>1. UNCHANGED <<store, cache>> /\ Leftover' = Leftover
  BY DEF Start, Leftover
<1>2. CASE thc = Absent
  <2>1. UNCHANGED <<todo, mine, fresh, missed, skipped>>
    BY <1>2 DEF Start
  <2>2. CleaningUp' /\ Accounted' = Accounted
    BY <1>1, <2>1 DEF CleanInv, CleaningUp, Accounted
  <2> QED BY <1>1, <2>1, <2>2, CleanAlone
<1>3. CASE thc # Absent
  <2>1. /\ mine' = thc /\ (thc.deleting => todo' = CleanupPlan)
        /\ ~thc.deleting /\ ~thc.finalizer => todo' = <<"addFinalizer">>
    BY <1>3 DEF Start
  <2>2. Leftover' \subseteq Managed
    BY DEF Leftover
  <2>3. CleaningUp'
    BY <2>1, <2>2, CleanupSteps DEF CleaningUp
  <2>4. CASE UNCHANGED <<missed, skipped>>
    <3>1. Accounted' = Accounted
      BY <2>4 DEF Accounted
    <3> QED BY <1>1, <2>1, <2>3, <3>1, CleanAlone
  <2>5. CASE Head(todo') = "clusters"
    <3>1. ~thc.deleting /\ thc.finalizer
      <4>1. thc.deleting => todo' = CleanupPlan /\ Head(CleanupPlan) # "clusters"
        <5>1. Head(CleanupPlan) \in Range(CleanupPlan)
          BY CleanupSteps DEF Range
        <5>2. "clusters" \notin Managed \cup {"finalizer"}
          BY Names DEF Steps
        <5> QED BY <2>1, <5>1, <5>2, CleanupSteps
      <4>2. Head(<<"addFinalizer">>) # "clusters"
        OBVIOUS
      <4> QED BY <2>1, <2>5, <4>1, <4>2
    <3>2. store["thc"] # Absent /\ store["thc"].finalizer
      BY <1>3, <3>1 DEF CleanInv, Guarded, Guards
    <3> QED BY <1>1, <2>1, <2>3, <3>2 DEF CleanInv, Guarded, Guards, Unclaimed
  <2> QED BY <2>4, <2>5 DEF Start
<1> QED BY <1>2, <1>3

LEMMA StepsClean ==
  ASSUME CleanInv, ResolveClusters \/ CompareRemoved
  PROVE  Guarded' /\ Unclaimed' /\ CleaningUp'
<1>1. PassInv /\ UNCHANGED <<store, cache, missed, skipped>> /\ todo # <<>> /\ Head(todo) \in {"clusters", "removed"}
  BY DEF CleanInv, ResolveClusters, CompareRemoved
<1>2. mine \in Singleton /\ ~mine.deleting
  <2>1. todo \in Seq(Managed \cup Steps) /\ Range(todo) \subseteq StepsOf(mine) /\ mine \in Singleton
    BY <1>1 DEF PassInv, PlanOK, MineOK
  <2>2. Head(todo) \in Range(todo)
    BY <1>1, <2>1 DEF Range
  <2>3. Head(todo) \notin Managed
    BY <1>1, Names DEF Steps
  <2> QED BY <1>1, <2>1, <2>2, <2>3 DEF StepsOf
<1>3. (mine' = Absent /\ fresh' = FALSE) \/ (mine' \in Singleton /\ Alike(mine', mine))
  <2>1. CASE ResolveClusters
    <3>1. Monitored(mine.spec, cache) \in SUBSET Clusters
      BY DEF Monitored
    <3> QED BY <1>2, <2>1, <3>1 DEF ResolveClusters, Singleton, Alike
  <2>2. CASE CompareRemoved
    BY <1>2, <2>2 DEF CompareRemoved, ReturnError, Return, Proceed, Alike
  <2> QED BY <2>1, <2>2
<1>4. CleaningUp'
  BY <1>2, <1>3 DEF CleaningUp, Alike
<1>5. Guarded'
  BY <1>1, <1>2, <1>3, AbsentAssumption DEF CleanInv, Guarded, Guards, Alike
<1>6. Unclaimed'
  BY <1>1 DEF CleanInv, Unclaimed, Leftover, Accounted
<1> QED BY <1>4, <1>5, <1>6

LEMMA WriteSingletonClean ==
  ASSUME CleanInv, AddFinalizer \/ UpdateStatus \/ RemoveFinalizer
  PROVE  Guarded' /\ Unclaimed' /\ CleaningUp'
<1>1. PassInv /\ cache' = cache /\ UNCHANGED <<missed, skipped>>
  BY DEF CleanInv, AddFinalizer, UpdateStatus, RemoveFinalizer, WriteSingleton
<1>2. todo # <<>> /\ Head(todo) \in Final
  BY DEF AddFinalizer, UpdateStatus, RemoveFinalizer, WriteSingleton, Final
<1>3. Range(todo) = {Head(todo)} /\ Head(todo) \in StepsOf(mine)
  BY <1>1, <1>2, AtLastStep
<1>4. mine \in Singleton
  BY <1>1, <1>2 DEF PassInv, MineOK
<1>5. Return
  BY DEF AddFinalizer, UpdateStatus, RemoveFinalizer, WriteSingleton, ReturnError
<1>6. mine' = Absent /\ CleaningUp'
  BY <1>5 DEF Return, CleaningUp
<1>7. CASE ~fresh
  <2>1. store' = store
    BY <1>7 DEF AddFinalizer, UpdateStatus, RemoveFinalizer, WriteSingleton
  <2>2. Leftover' = Leftover /\ Accounted' = Accounted
    BY <1>1, <2>1 DEF Leftover, Accounted
  <2> QED BY <1>1, <1>6, <2>1, <2>2, CleanAlone
<1>8. CASE fresh
  <2>1. store["thc"] # Absent /\ Alike(store["thc"], mine) /\ cache["thc"] = store["thc"]
    BY <1>1, <1>8, Names DEF PassInv, FreshCopy, CopiesOK
  <2>2. CASE RemoveFinalizer
    <3>1. Put("thc", Absent) /\ Head(todo) = "finalizer"
      BY <1>8, <2>2 DEF RemoveFinalizer, WriteSingleton
    <3>2. "finalizer" \notin Managed
      BY Names DEF Steps
    <3>3. mine.deleting
      BY <1>3, <3>1, <3>2 DEF StepsOf
    <3>4. Wrote("thc", Absent)
      BY <1>1, <3>1, PutWrites, Names DEF PassInv
    <3>5. Leftover' = Leftover
      BY <3>4, Names DEF Wrote, Leftover
    <3>6. Leftover \subseteq Accounted
      BY <1>3, <1>8, <3>1, <3>2, <3>3 DEF CleanInv, CleaningUp, Leftover
    <3>7. Unclaimed'
      BY <1>1, <3>5, <3>6 DEF Unclaimed, Accounted
    <3>8. cache'["thc"].deleting
      BY <1>1, <2>1, <3>3 DEF Alike
    <3>9. Guarded'
      BY <1>6, <3>8 DEF Guarded, Guards
    <3> QED BY <1>6, <3>7, <3>9
  <2>3. ASSUME NEW c \in Singleton, Put("thc", c), c.finalizer PROVE Guarded' /\ Unclaimed' /\ CleaningUp'
    <3>1. Wrote("thc", c)
      BY <1>1, <2>3, PutWrites, Names DEF PassInv
    <3>2. store'["thc"] = c /\ c # Absent
      BY <3>1, Names, AbsentAssumption DEF Wrote
    <3> QED BY <1>6, <2>3, <3>2 DEF Guarded, Guards, Unclaimed
  <2>4. CASE AddFinalizer
    <3> DEFINE c == [mine EXCEPT !.finalizer = TRUE]
    <3>1. c \in Singleton /\ c.finalizer
      BY <1>4 DEF Singleton
    <3>2. Put("thc", c)
      BY <1>8, <2>4 DEF AddFinalizer, WriteSingleton
    <3> HIDE DEF c
    <3> QED BY <2>3, <3>1, <3>2
  <2>5. CASE UpdateStatus
    <3>1. Put("thc", mine) /\ Head(todo) = "status"
      BY <1>8, <2>5 DEF UpdateStatus, WriteSingleton
    <3>2. "status" \notin Managed
      BY Names DEF Steps
    <3>3. mine.finalizer
      BY <1>3, <3>1, <3>2 DEF StepsOf
    <3> QED BY <1>4, <2>3, <3>1, <3>3
  <2> QED BY <2>2, <2>4, <2>5
<1> QED BY <1>7, <1>8

LEMMA ChangesClean ==
  ASSUME CleanInv, CreateSingleton \/ EditSpec \/ DeleteSingleton \/ UserAlertChanges \/ ClusterChanges
  PROVE  Guarded' /\ Unclaimed' /\ CleaningUp'
<1>1. PassInv
  BY DEF CleanInv
<1>2. CASE CreateSingleton \/ EditSpec \/ DeleteSingleton
  <2>1. PICK c \in Singleton \cup {Absent} :
           /\ Change("thc", c)
           /\ \/ store["thc"] = Absent /\ c # Absent /\ ~c.finalizer
              \/ store["thc"] # Absent /\ c # Absent /\ c.finalizer = store["thc"].finalizer
              \/ store["thc"] # Absent /\ ~store["thc"].finalizer /\ c = Absent
    BY <1>1, <1>2, SingletonChanges
  <2>2. Wrote("thc", c) /\ fresh' = FALSE /\ UNCHANGED <<cache, mine, missed, skipped>>
    BY <1>1, <2>1, ChangeSingletonPass
  <2>3. store'["thc"] = c /\ Leftover' = Leftover /\ Accounted' = Accounted
    BY <2>2, Names DEF Wrote, Leftover, Accounted
  <2>4. Guarded' /\ Unclaimed'
    BY <2>1, <2>2, <2>3 DEF CleanInv, Guarded, Guards, Unclaimed, Accounted
  <2> QED BY <2>2, <2>4 DEF CleaningUp
<1>3. CASE UserAlertChanges \/ ClusterChanges
  <2>1. PICK o \in UserAlerts \cup Clusters : \E c \in {Absent} \cup Contents(o) : Change(o, c)
    BY <1>1, <1>3, UserChanges
  <2>2. PICK c : Wrote(o, c) /\ UNCHANGED <<cache, todo, mine, fresh, missed, skipped>>
    BY <1>1, <2>1, ChangeOtherPass
  <2>3. store'["thc"] = store["thc"] /\ Leftover' = Leftover /\ Accounted' = Accounted
    BY <2>1, <2>2, Names DEF Wrote, Leftover, Accounted
  <2>4. CleaningUp'
    BY <2>2, <2>3 DEF CleanInv, CleaningUp, Accounted
  <2> QED BY <2>2, <2>3, <2>4, CleanAlone
<1> QED BY <1>2, <1>3

LEMMA OthersClean ==
  ASSUME CleanInv, Restart \/ Requeue \/ GarbageCollect \/ SecretEdited \/ UNCHANGED vars \/ \E kind \in Kinds : WatchEvents(kind)
  PROVE  Guarded' /\ Unclaimed' /\ CleaningUp'
<1>1. PassInv
  BY DEF CleanInv
<1>2. CASE Restart
  <2>1. Return /\ cache' = store /\ UNCHANGED <<store, missed, skipped>> /\ Leftover' = Leftover /\ Accounted' = Accounted
    BY <1>2 DEF Restart, Leftover, Accounted
  <2>2. CleaningUp' /\ mine' = Absent
    BY <2>1 DEF Return, CleaningUp
  <2> QED BY <2>1, <2>2, CleanAlone
<1>3. CASE GarbageCollect
  <2>1. Put("purge", Absent) /\ UNCHANGED <<cache, todo, mine, fresh, missed, skipped>> /\ "purge" \in Objects
    BY <1>3 DEF GarbageCollect, Objects, Managed
  <2>2. Wrote("purge", Absent)
    BY <1>1, <2>1, PutWrites DEF PassInv
  <2>3. store'["thc"] = store["thc"] /\ Leftover' = Leftover /\ Accounted' = Accounted
    BY <2>1, <2>2, Names DEF Wrote, Leftover, Accounted
  <2>4. CleaningUp'
    BY <2>1, <2>3 DEF CleanInv, CleaningUp, Accounted
  <2> QED BY <2>1, <2>3, <2>4, CleanAlone
<1>4. CASE Requeue \/ SecretEdited \/ UNCHANGED vars
  <2>1. UNCHANGED <<store, cache, todo, mine, fresh, missed, skipped>>
    BY <1>4 DEF Requeue, SecretEdited, vars
  <2>2. Leftover' = Leftover /\ Accounted' = Accounted
    BY <2>1 DEF Leftover, Accounted
  <2>3. CleaningUp'
    BY <2>1, <2>2 DEF CleanInv, CleaningUp, Accounted
  <2> QED BY <2>1, <2>2, <2>3, CleanAlone
<1>5. CASE \E kind \in Kinds : WatchEvents(kind)
  <2>1. PICK kind \in Kinds : WatchEvents(kind)
    BY <1>5
  <2>2. /\ UNCHANGED <<store, todo, mine, fresh, missed, skipped>>
        /\ \A o \in Objects : cache'[o] = IF o \in kind THEN store[o] ELSE cache[o]
    BY <1>1, <2>1, WatchedCopies
  <2>3. Leftover' = Leftover /\ Accounted' = Accounted
    BY <2>2 DEF Leftover, Accounted
  <2>4. CleaningUp'
    BY <2>2, <2>3 DEF CleanInv, CleaningUp, Accounted
  <2>5. cache'["thc"] \in {cache["thc"], store["thc"]}
    BY <2>2, Names
  <2> QED BY <2>2, <2>3, <2>4, <2>5, CleanAlone
<1> QED BY <1>2, <1>3, <1>4, <1>5

LEMMA CleanStep == CleanInv /\ [Next]_vars => CleanInv'
<1> SUFFICES ASSUME CleanInv, [Next]_vars PROVE CleanInv'
  OBVIOUS
<1>1. PassInv /\ PassInv'
  BY PassStep DEF CleanInv
<1>2. Guarded' /\ Unclaimed' /\ CleaningUp'
  <2>1. CASE ReconcileObject
    <3>1. todo # <<>> /\ Head(todo) \in Managed /\ ~mine.deleting
      BY <2>1 DEF ReconcileObject
    <3>2. PICK c : Wrote(Head(todo), c) /\ cache' = cache /\ GoesOn
      BY <1>1, <2>1, ReconcileObjectEffect
    <3> QED BY <3>1, <3>2, ObjectClean
  <2>2. CASE ReconcileStep /\ ~ReconcileObject
    BY <2>2, StartClean, StepsClean, WriteSingletonClean, CleanupObjectClean DEF ReconcileStep
  <2>3. CASE CallFails
    BY <2>3, CallFailsClean
  <2>4. CASE Restart \/ Requeue \/ GarbageCollect \/ SecretEdited \/ UNCHANGED vars \/ \E kind \in Kinds : WatchEvents(kind)
    BY <2>4, OthersClean
  <2>5. CASE CreateSingleton \/ EditSpec \/ DeleteSingleton \/ UserAlertChanges \/ ClusterChanges
    BY <2>5, ChangesClean
  <2> QED BY <2>1, <2>2, <2>3, <2>4, <2>5 DEF Next
<1> QED BY <1>1, <1>2 DEF CleanInv

(* An object of the operator's that outlives the singleton is one whose own *)
(* deletion some cleanup tried in vain, or a system alert or periodic       *)
(* ConfigMap that the loop of its kind did not get to because an earlier    *)
(* one failed: no step is skipped after the failure of another, and no      *)
(* stale pass brings an object back once the finalizer is gone.             *)
THEOREM NothingForgotten == Spec => []LeftoversExplained
<1>1. Init => CleanInv
  <2> SUFFICES ASSUME Init PROVE CleanInv
    OBVIOUS
  <2>1. \A o \in Objects : store[o] \in {Absent, Bare} /\ cache[o] = store[o]
    BY DEF Init
  <2>2. Leftover = {} /\ mine = Absent /\ fresh = FALSE
    BY <2>1, Names DEF Leftover, Init
  <2>3. cache["thc"] = Absent
    BY BareAssumption, Names DEF Init, Shared
  <2> QED BY <2>2, <2>3, PassInit DEF CleanInv, Guarded, Guards, Unclaimed, CleaningUp
<1>2. CleanInv => LeftoversExplained
  BY DEF CleanInv, Unclaimed, Leftover, Accounted, LeftoversExplained
<1> QED BY <1>1, <1>2, CleanStep, PTL DEF Spec

=============================================================================
