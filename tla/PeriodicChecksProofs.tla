------------------------ MODULE PeriodicChecksProofs ------------------------
(* Proofs about PeriodicChecks, for any clusters, schedules and bounds.     *)
EXTENDS PeriodicChecks, FiniteSetTheorems, TLAPS

-----------------------------------------------------------------------------
(* Invariants *)

(* Where the loop over the checks is. *)
InLoop ==
  /\ pc \in {"check", "claim", "create"} => at \in 1 .. Len(Order)
  /\ pc = "finish" => at = Len(Order) + 1 \/ mine.spec.period = 0

(* What VisitCheck found still holds of the copy: a check is claimed, and   *)
(* its runs are created, in a valid window; a check to claim is due.        *)
Admitted ==
  /\ pc \in {"claim", "create"} => WindowsValid(mine.spec, Order[at])
  /\ pc = "claim" => ShouldRunCheck(mine.lastRun[Order[at]], CheckPeriod(mine.spec, Order[at]))

ScheduleInv == TypeOK /\ InLoop /\ Admitted /\ IsFiniteSet(tasks)

(* The loop runs only for a schedule that is on, claims only enabled        *)
(* checks, and creates runs only after a claim.                             *)
Entitled ==
  /\ pc \in {"check", "claim", "create"} => mine.spec.period # 0
  /\ pc = "claim" => mine.spec.checks[Order[at]].enabled
  /\ pc = "create" => persisted = TRUE

(* Nothing claimed yet in this reconcile, and no time has passed. *)
Early == now = started /\ persisted = FALSE /\ pc # "create"
Unwritten == mine = cache /\ Early

(* A claim of this reconcile that the informer has not shown yet. *)
Handled(k) == k < at \/ (pc = "create" /\ k = at)
Written == \E k \in 1 .. Len(Order) : Handled(k) /\ cache.lastRun[Order[k]] # thc.lastRun[Order[k]]

(* While nobody has queued another reconcile, this one either works on what *)
(* the informer shows, or its claim will queue the next.                    *)
EventToCome == pc # "idle" /\ queued = FALSE => Unwritten \/ Written

Covers(copy, c, t) ==
  copy.spec.checks[c].enabled => copy.lastRun[c] # 0 /\ t <= copy.lastRun[c] + CheckPeriod(copy.spec, c)

(* The requeue computed so far wakes for every check visited. *)
RequeueInTime ==
  pc \in {"check", "claim", "finish"} /\ Early /\ mine.spec.period # 0
    => requeue > 0 /\ \A k \in 1 .. Len(Order) : k < at => Covers(mine, Order[k], now + requeue)

(* At rest the timer wakes for every check, unless an event is to come. *)
RestInTime ==
  pc = "idle" /\ queued = FALSE /\ cache.lastRun = thc.lastRun /\ cache.spec.period # 0
    => \A c \in Checks : Covers(cache, c, wake) /\ (cache.spec.checks[c].enabled => wake # 0)

WakeInv == now > 0 /\ Entitled /\ EventToCome /\ RequeueInTime /\ RestInTime

(* No check has a period that is not positive: one with a zero override is  *)
(* due at every reconcile, and no timer wakes for it.                       *)
PositivePeriods ==
  \A s \in Specs :
    /\ s.period >= 0
    /\ s.period # 0 => \A c \in Checks : s.checks[c].enabled => CheckPeriod(s, c) > 0

-----------------------------------------------------------------------------
(* The schedule *)

LEMMA OrderFacts ==
  /\ Len(Order) = 2 /\ Order[1] # Order[2]
  /\ \A k \in 1 .. Len(Order) : Order[k] \in Checks
  /\ \A c \in Checks : \E k \in 1 .. Len(Order) : c = Order[k]
<1>1. Len(Order) = 2 /\ Order[1] = "rds-compliance" /\ Order[2] = "low-latency-check" BY DEF Order
<1>2. DOMAIN Order = 1 .. Len(Order) BY DEF Order
<1> QED BY <1>1, <1>2 DEF Checks

Stored == [spec : Specs, lastRun : [Checks -> Nat]]

LEMMA SpecTypes ==
  ASSUME NEW s \in Specs, NEW c \in Checks
  PROVE  /\ s.period \in Int /\ CheckPeriod(s, c) \in Int
         /\ CheckWindow(s, c).min \in Int /\ CheckWindow(s, c).max \in Int
<1>1. s \in [period : Int, minJitter : Optional, maxJitter : Optional, checks : [Checks -> CheckSpec]]
  BY SpecsAssumption
<1>2. s.checks[c] \in CheckSpec BY <1>1
<1>3. \A v \in Optional, d \in Int : Override(v, d) \in Int BY DEF Override, Optional
<1>4. GlobalWindow(s).min \in Int /\ GlobalWindow(s).max \in Int
  BY <1>1, <1>3, ScheduleAssumption DEF GlobalWindow
<1> QED BY <1>1, <1>2, <1>3, <1>4 DEF CheckPeriod, CheckWindow, CheckSpec

(* What a claim writes. *)
Claimed == [mine EXCEPT !.lastRun[Order[at]] = started]

LEMMA ClaimedFacts ==
  ASSUME mine \in Stored, at \in 1 .. Len(Order), started \in Nat
  PROVE  /\ Claimed \in Stored /\ Claimed.spec = mine.spec
         /\ Claimed.lastRun[Order[at]] = started
         /\ \A c \in Checks : c # Order[at] => Claimed.lastRun[c] = mine.lastRun[c]
<1>1. Order[at] \in Checks BY OrderFacts
<1> QED BY <1>1 DEF Claimed, Stored

-----------------------------------------------------------------------------
(* Types, and what VisitCheck established *)

LEMMA ScheduleInit == Init => ScheduleInv
<1> SUFFICES ASSUME Init PROVE ScheduleInv OBVIOUS
<1>1. thc \in Stored BY DEF Init, Stored
<1>2. TypeOK
  <2>1. persisted \in BOOLEAN /\ queued \in BOOLEAN BY DEF Init
  <2>2. created \in [Checks \X Clusters -> Nat] /\ claims \in [Checks -> Nat] BY DEF Init
  <2>3. /\ cache = thc /\ mine = thc /\ pc = "idle" /\ at = 1 /\ started = 0 /\ requeue = 0 /\ todo = {} /\ wake = 0
        /\ tasks = {} /\ now = 1 /\ changes = 0 /\ faults = 0
    BY DEF Init
  <2> QED BY <1>1, <2>1, <2>2, <2>3, OrderFacts DEF TypeOK, Stored
<1>3. IsFiniteSet(tasks) BY FS_EmptySet DEF Init
<1> QED BY <1>2, <1>3 DEF Init, ScheduleInv, InLoop, Admitted

LEMMA DoneTypes ==
  ASSUME ScheduleInv, Done, queued' \in BOOLEAN, wake' \in Nat, thc' \in Stored, claims' \in [Checks -> Nat],
         UNCHANGED <<cache, tasks, created, now, changes>>, faults' \in Nat
  PROVE  ScheduleInv'
<1>1. pc' = "idle" /\ at' = 1 /\ persisted' = FALSE /\ todo' = {} /\ requeue' = 0 /\ mine' = cache /\ started' = 0
  BY DEF Done
<1>2. persisted' \in BOOLEAN BY <1>1
<1>3. at' \in 1 .. Len(Order) + 1 BY <1>1, OrderFacts
<1>4. TypeOK' BY <1>1, <1>2, <1>3 DEF ScheduleInv, TypeOK, Stored
<1> QED BY <1>1, <1>4 DEF ScheduleInv, InLoop, Admitted

LEMMA StartStep ==
  ASSUME ScheduleInv, Start
  PROVE  ScheduleInv'
<1>1. TypeOK'
  <2>1. cache.spec.period \in Int BY SpecsAssumption DEF ScheduleInv, TypeOK
  <2>2. persisted' \in BOOLEAN /\ queued' \in BOOLEAN BY DEF Start
  <2>3. /\ mine' = cache /\ started' = now /\ at' = 1 /\ todo' = {} /\ requeue' = cache.spec.period /\ wake' = 0
        /\ pc' \in {"finish", "check"}
        /\ UNCHANGED <<thc, cache, tasks, created, claims, now, changes, faults>>
    BY DEF Start, outside
  <2> QED BY <2>1, <2>2, <2>3, OrderFacts DEF ScheduleInv, TypeOK
<1> QED BY <1>1, OrderFacts DEF ScheduleInv, Start, InLoop, Admitted

LEMMA VisitCheckStep ==
  ASSUME ScheduleInv, VisitCheck
  PROVE  ScheduleInv'
<1> DEFINE c == Order[at]
           period == CheckPeriod(mine.spec, c)
           least == IF period > 0 THEN Lower(requeue, period) ELSE requeue
           untilNext == period - (now - mine.lastRun[c])
<1>0. /\ pc = "check" /\ at \in 1 .. Len(Order) /\ c \in Checks
      /\ UNCHANGED <<thc, cache, wake, tasks, created, claims, now, changes, faults>>
  BY OrderFacts DEF VisitCheck, outside, ScheduleInv, InLoop
<1>1. period \in Int /\ requeue \in Int /\ now \in Nat /\ mine.lastRun[c] \in Nat /\ mine \in Stored
  BY <1>0, SpecTypes DEF ScheduleInv, TypeOK, Stored
<1>2. least \in Int /\ untilNext \in Int /\ Lower(least, untilNext) \in Int BY <1>1 DEF Lower
<1>3. CASE ReturnError
  BY <1>0, <1>3, DoneTypes DEF ReturnError, ScheduleInv, TypeOK, Stored
<1>4. CASE NextCheck /\ UNCHANGED <<mine, started, persisted, todo, queued>> /\ requeue' \in Int
  <2>1. TypeOK' BY <1>0, <1>4, OrderFacts DEF ScheduleInv, TypeOK, NextCheck
  <2>2. InLoop' BY <1>0, <1>4, OrderFacts DEF NextCheck, InLoop
  <2> QED BY <1>0, <1>4, <2>1, <2>2 DEF ScheduleInv, NextCheck, Admitted
<1>5. CASE /\ WindowsValid(mine.spec, c) /\ ShouldRunCheck(mine.lastRun[c], period)
           /\ pc' = "claim" /\ requeue' = least /\ UNCHANGED at
           /\ UNCHANGED <<mine, started, persisted, todo, queued>>
  <2>1. TypeOK' BY <1>0, <1>2, <1>5 DEF ScheduleInv, TypeOK
  <2>2. Admitted'
    <3>1. ShouldRunCheck(mine.lastRun[c], period)' BY <1>0, <1>5 DEF ShouldRunCheck, CheckPeriod
    <3> QED BY <1>5, <3>1 DEF Admitted
  <2> QED BY <1>0, <1>5, <2>1, <2>2 DEF ScheduleInv, InLoop
<1> HIDE DEF least, untilNext
<1> QED BY <1>1, <1>2, <1>3, <1>4, <1>5 DEF VisitCheck, least, untilNext

LEMMA ClaimStep ==
  ASSUME ScheduleInv, Claim
  PROVE  ScheduleInv'
<1>0. /\ pc = "claim" /\ at \in 1 .. Len(Order) /\ Order[at] \in Checks /\ mine \in Stored
      /\ UNCHANGED <<cache, wake, tasks, created, now, changes, faults>>
  BY OrderFacts DEF Claim, outside, ScheduleInv, InLoop, TypeOK, Stored
<1>1. CASE mine = thc
  <2>1. /\ thc' = Claimed /\ mine' = Claimed /\ persisted' = TRUE /\ todo' = Clusters /\ pc' = "create"
        /\ claims' = [claims EXCEPT ![Order[at]] = claims[Order[at]] + 1]
        /\ UNCHANGED <<at, started, requeue, queued>>
    BY <1>1 DEF Claim, Claimed
  <2>2. Claimed \in Stored /\ Claimed.spec = mine.spec BY <1>0, ClaimedFacts DEF ScheduleInv, TypeOK
  <2>3. TypeOK' BY <1>0, <2>1, <2>2 DEF ScheduleInv, TypeOK, Stored
  <2> QED BY <1>0, <2>1, <2>2, <2>3 DEF ScheduleInv, InLoop, Admitted
<1>2. CASE mine # thc
  <2>1. ReturnError /\ UNCHANGED <<thc, claims>> BY <1>2 DEF Claim
  <2> QED BY <1>0, <2>1, DoneTypes DEF ReturnError, ScheduleInv, TypeOK, Stored
<1> QED BY <1>1, <1>2

Task == [check : Checks, cluster : Clusters, claim : Nat, due : Nat]

(* A run is counted. *)
LEMMA CountType ==
  ASSUME created \in [Checks \X Clusters -> Nat], NEW c \in Checks, NEW k \in Clusters,
         Count(c, k) \/ UNCHANGED created
  PROVE  created' \in [Checks \X Clusters -> Nat]
  BY DEF Count

(* A cluster's run is created now, or a task with a valid delay is added. *)
LEMMA CreateMoves ==
  ASSUME ScheduleInv, CreateForCluster
  PROVE  \E k \in todo :
           /\ todo' = todo \ {k}
           /\ \/ tasks' = tasks /\ (Count(Order[at], k) \/ UNCHANGED created)
              \/ /\ created' = created
                 /\ \E t \in Task : t.check = Order[at] /\ t.cluster = k /\ tasks' = tasks \cup {t}
<1> DEFINE c == Order[at]
           window == CheckWindow(mine.spec, c)
<1>1. pc = "create" /\ at \in 1 .. Len(Order) /\ c \in Checks
  BY OrderFacts DEF CreateForCluster, ScheduleInv, InLoop
<1>2. window.min \in Int /\ window.max \in Int /\ window.min >= 0
  BY <1>1, SpecTypes DEF ScheduleInv, TypeOK, Admitted, WindowsValid, ValidWindow
<1>3. PICK k \in todo :
        /\ todo' = todo \ {k}
        /\ \/ tasks' = tasks /\ (Count(c, k) \/ UNCHANGED created)
           \/ /\ created' = created
              /\ \E delay \in window.min .. window.max :
                   tasks' = tasks \cup {[check |-> c, cluster |-> k, claim |-> mine.lastRun[c], due |-> now + delay]}
  BY DEF CreateForCluster
<1>4. ASSUME NEW delay \in window.min .. window.max
      PROVE  LET t == [check |-> c, cluster |-> k, claim |-> mine.lastRun[c], due |-> now + delay]
             IN  t \in Task /\ t.check = c /\ t.cluster = k
  <2>1. mine.lastRun[c] \in Nat /\ now \in Nat /\ k \in Clusters BY <1>1 DEF ScheduleInv, TypeOK
  <2>2. now + delay \in Nat BY <1>2, <2>1
  <2> QED BY <1>1, <2>1, <2>2 DEF Task
<1> HIDE DEF window
<1> QED BY <1>3, <1>4

LEMMA CreateStep ==
  ASSUME ScheduleInv, CreateForCluster \/ AllCreated
  PROVE  ScheduleInv'
<1>1. CASE CreateForCluster
  <2>0. UNCHANGED <<thc, cache, pc, at, mine, started, requeue, persisted, queued, wake, claims, now, changes, faults>>
    BY <1>1 DEF CreateForCluster, outside
  <2>1. PICK k \in todo :
          /\ todo' = todo \ {k}
          /\ \/ tasks' = tasks /\ (Count(Order[at], k) \/ UNCHANGED created)
             \/ created' = created /\ \E t \in Task : tasks' = tasks \cup {t}
    BY <1>1, CreateMoves
  <2>2. k \in Clusters /\ Order[at] \in Checks
    BY <1>1, OrderFacts DEF CreateForCluster, ScheduleInv, InLoop, TypeOK
  <2>3. created' \in [Checks \X Clusters -> Nat] BY <2>1, <2>2, CountType DEF ScheduleInv, TypeOK
  <2>4. tasks' \subseteq Task BY <2>1 DEF ScheduleInv, TypeOK, Task
  <2>5. IsFiniteSet(tasks') BY <2>1, FS_AddElement DEF ScheduleInv
  <2>6. TypeOK' BY <2>0, <2>1, <2>3, <2>4 DEF ScheduleInv, TypeOK, Task
  <2>7. InLoop' /\ Admitted'
    BY <2>0 DEF ScheduleInv, InLoop, Admitted, ShouldRunCheck
  <2> QED BY <2>5, <2>6, <2>7 DEF ScheduleInv
<1>2. CASE AllCreated
  <2>0. /\ UNCHANGED <<thc, cache, mine, started, requeue, persisted, todo, queued, wake, tasks, created, claims, now, changes, faults>>
        /\ NextCheck /\ pc = "create" /\ at \in 1 .. Len(Order)
    BY <1>2 DEF AllCreated, outside, ScheduleInv, InLoop
  <2>1. TypeOK' BY <2>0, OrderFacts DEF ScheduleInv, TypeOK, NextCheck
  <2>2. InLoop' /\ Admitted' BY <2>0, OrderFacts DEF NextCheck, InLoop, Admitted
  <2> QED BY <2>0, <2>1, <2>2 DEF ScheduleInv
<1> QED BY <1>1, <1>2

LEMMA FinishStep ==
  ASSUME ScheduleInv, Finish
  PROVE  ScheduleInv'
<1>1. requeue \in Int /\ now \in Nat /\ PendingRequeue \in Nat BY ScheduleAssumption DEF ScheduleInv, TypeOK
<1>2. wake' \in Nat
  <2>1. CASE wake' = wake BY <2>1 DEF ScheduleInv, TypeOK
  <2>2. CASE \E pending \in BOOLEAN :
            LET after == IF pending /\ (requeue = 0 \/ requeue > PendingRequeue) THEN PendingRequeue ELSE requeue
            IN  wake' = IF after > 0 THEN now + after ELSE 0
    BY <1>1, <2>2
  <2> QED BY <2>1, <2>2 DEF Finish
<1>3. Done /\ queued' \in BOOLEAN BY DEF Finish, ReturnError, ScheduleInv, TypeOK
<1>4. UNCHANGED <<thc, cache, tasks, created, claims, now, changes, faults>> BY DEF Finish, outside
<1>5. thc \in Stored /\ claims \in [Checks -> Nat] /\ faults \in Nat BY DEF ScheduleInv, TypeOK, Stored
<1> QED BY <1>2, <1>3, <1>4, <1>5, DoneTypes

LEMMA TaskFiresStep ==
  ASSUME ScheduleInv, TaskFires
  PROVE  ScheduleInv'
<1>0. UNCHANGED <<thc, cache, pc, queued, wake, claims, at, mine, started, requeue, persisted, todo, now, changes, faults>>
  BY DEF TaskFires, local, outside
<1>1. PICK t \in tasks : tasks' = tasks \ {t} /\ (Count(t.check, t.cluster) \/ UNCHANGED created)
  BY DEF TaskFires
<1>2. t.check \in Checks /\ t.cluster \in Clusters BY DEF ScheduleInv, TypeOK
<1>3. created' \in [Checks \X Clusters -> Nat] BY <1>1, <1>2, CountType DEF ScheduleInv, TypeOK
<1>4. IsFiniteSet(tasks') BY <1>1, FS_RemoveElement DEF ScheduleInv
<1>5. TypeOK' BY <1>0, <1>1, <1>3 DEF ScheduleInv, TypeOK
<1>6. InLoop' /\ Admitted' BY <1>0 DEF ScheduleInv, InLoop, Admitted, ShouldRunCheck
<1> QED BY <1>4, <1>5, <1>6 DEF ScheduleInv

(* A claim that is stored although the call fails is a claim. *)
LEMMA CallFailsMoves ==
  ASSUME ScheduleInv, CallFails
  PROVE  /\ Done /\ queued' = TRUE /\ faults' = faults + 1
         /\ UNCHANGED <<cache, wake, tasks, created, now, changes>>
         /\ \/ UNCHANGED <<thc, claims>>
            \/ /\ pc = "claim" /\ mine = thc /\ thc' = Claimed
               /\ claims' = [claims EXCEPT ![Order[at]] = claims[Order[at]] + 1]
  BY DEF CallFails, Fault, ReturnError, Claimed

LEMMA CallFailsStep ==
  ASSUME ScheduleInv, CallFails
  PROVE  ScheduleInv'
<1>1. /\ Done /\ queued' = TRUE /\ faults' = faults + 1
      /\ UNCHANGED <<cache, wake, tasks, created, now, changes>>
  BY CallFailsMoves
<1>2. queued' \in BOOLEAN /\ wake' \in Nat /\ faults' \in Nat BY <1>1 DEF ScheduleInv, TypeOK
<1>3. thc' \in Stored /\ claims' \in [Checks -> Nat]
  <2>1. CASE UNCHANGED <<thc, claims>> BY <2>1 DEF ScheduleInv, TypeOK, Stored
  <2>2. CASE /\ pc = "claim" /\ thc' = Claimed
             /\ claims' = [claims EXCEPT ![Order[at]] = claims[Order[at]] + 1]
    <3>1. at \in 1 .. Len(Order) /\ mine \in Stored /\ started \in Nat
      BY <2>2 DEF ScheduleInv, InLoop, TypeOK, Stored
    <3>2. Claimed \in Stored /\ Order[at] \in Checks BY <3>1, ClaimedFacts, OrderFacts
    <3> QED BY <2>2, <3>2 DEF ScheduleInv, TypeOK
  <2> QED BY <2>1, <2>2, CallFailsMoves
<1> QED BY <1>1, <1>2, <1>3, DoneTypes

LEMMA RestartStep ==
  ASSUME ScheduleInv, Restart
  PROVE  ScheduleInv'
<1>1. persisted' \in BOOLEAN /\ queued' \in BOOLEAN BY DEF Restart
<1>2. /\ pc' = "idle" /\ at' = 1 /\ todo' = {} /\ requeue' = 0 /\ started' = 0 /\ cache' = thc /\ mine' = thc
      /\ tasks' = {} /\ wake' = 0 /\ faults' = faults + 1 /\ UNCHANGED <<thc, created, claims, now, changes>>
  BY DEF Restart, Fault
<1>3. TypeOK' BY <1>1, <1>2, OrderFacts DEF ScheduleInv, TypeOK
<1>4. IsFiniteSet(tasks') BY <1>2, FS_EmptySet
<1> QED BY <1>2, <1>3, <1>4 DEF ScheduleInv, InLoop, Admitted

LEMMA OutsideStep ==
  ASSUME ScheduleInv, WatchEvent \/ ScheduleChanges \/ OtherEvent \/ Tick \/ UNCHANGED vars
  PROVE  ScheduleInv'
<1>0. UNCHANGED <<pc, at, started, requeue, persisted, todo, wake, tasks, created, claims>>
  BY DEF WatchEvent, ScheduleChanges, OtherEvent, Tick, local, vars
<1>1. queued' \in BOOLEAN
  BY DEF WatchEvent, ScheduleChanges, OtherEvent, Tick, vars, ScheduleInv, TypeOK
<1>2. thc' \in Stored /\ cache' \in Stored /\ mine' \in Stored
  <2>1. CASE ScheduleChanges
    <3>1. PICK s \in Specs : thc' = [thc EXCEPT !.spec = s] BY <2>1 DEF ScheduleChanges
    <3>2. UNCHANGED <<cache, mine>> BY <2>1 DEF ScheduleChanges, local
    <3> QED BY <3>1, <3>2 DEF ScheduleInv, TypeOK, Stored
  <2>2. CASE WatchEvent BY <2>2 DEF WatchEvent, ScheduleInv, TypeOK, Stored
  <2>3. CASE OtherEvent \/ Tick \/ UNCHANGED vars
    BY <2>3 DEF OtherEvent, Tick, local, vars, ScheduleInv, TypeOK, Stored
  <2> QED BY <2>1, <2>2, <2>3
<1>3. now' \in Nat /\ changes' \in Nat /\ faults' \in Nat
  BY DEF WatchEvent, ScheduleChanges, OtherEvent, Tick, Change, outside, vars, ScheduleInv, TypeOK
<1>4. TypeOK' BY <1>0, <1>1, <1>2, <1>3 DEF ScheduleInv, TypeOK, Stored
<1>5. pc # "idle" => mine' = mine /\ (now' = now \/ pc = "create")
  BY DEF WatchEvent, ScheduleChanges, OtherEvent, Tick, Change, local, outside, vars
<1>6. InLoop' /\ Admitted' BY <1>0, <1>5 DEF ScheduleInv, InLoop, Admitted, ShouldRunCheck
<1> QED BY <1>0, <1>4, <1>6 DEF ScheduleInv

LEMMA ScheduleStep ==
  ASSUME ScheduleInv, [Next]_vars
  PROVE  ScheduleInv'
  BY StartStep, VisitCheckStep, ClaimStep, CreateStep, FinishStep, TaskFiresStep, CallFailsStep, RestartStep,
     OutsideStep
  DEF Next, ReconcileStep

(* The type invariant holds in every reachable state, for any schedules:    *)
(* last run times are never negative, and no delayed run is due before it   *)
(* was scheduled, since only a valid window reaches the creation.           *)
THEOREM TypeCorrect == Spec => []TypeOK
<1>1. ScheduleInv /\ [Next]_vars => ScheduleInv' BY ScheduleStep
<1>2. ScheduleInv => TypeOK BY DEF ScheduleInv
<1> QED BY <1>1, <1>2, ScheduleInit, PTL DEF Spec

-----------------------------------------------------------------------------
(* Claims *)

(* What a step does to the claims: at most one is added, for the check at   *)
(* hand, from a copy that is the stored singleton.                          *)
LEMMA ClaimMoves ==
  ASSUME ScheduleInv, [Next]_vars
  PROVE  \/ claims' = claims
         \/ /\ pc = "claim" /\ mine = thc
            /\ claims' = [claims EXCEPT ![Order[at]] = claims[Order[at]] + 1]
<1>1. CASE Claim BY <1>1 DEF Claim
<1>2. CASE CallFails BY <1>2, CallFailsMoves
<1>3. CASE Start \/ VisitCheck \/ CreateForCluster \/ AllCreated \/ Finish \/ TaskFires \/ Restart
  BY <1>3 DEF Start, VisitCheck, CreateForCluster, AllCreated, Finish, TaskFires, Restart
<1>4. CASE WatchEvent \/ ScheduleChanges \/ OtherEvent \/ Tick \/ UNCHANGED vars
  BY <1>4 DEF WatchEvent, ScheduleChanges, OtherEvent, Tick, vars
<1> QED BY <1>1, <1>2, <1>3, <1>4 DEF Next, ReconcileStep

(* An interval is claimed once: the optimistic lock makes the copy that was *)
(* found due the stored one, and time does not pass before the claim.       *)
THEOREM OneClaimPerInterval == Spec => ClaimedOncePerInterval
<1> DEFINE Once == \A c \in Checks :
                     claims'[c] # claims[c]
                       => thc.lastRun[c] = 0 \/ now - thc.lastRun[c] >= CheckPeriod(thc.spec, c)
<1>1. ScheduleInv /\ [Next]_vars => Once
  <2> SUFFICES ASSUME ScheduleInv, [Next]_vars, NEW c \in Checks, claims'[c] # claims[c]
               PROVE  thc.lastRun[c] = 0 \/ now - thc.lastRun[c] >= CheckPeriod(thc.spec, c)
    OBVIOUS
  <2>1. pc = "claim" /\ mine = thc /\ claims' = [claims EXCEPT ![Order[at]] = claims[Order[at]] + 1]
    BY ClaimMoves
  <2>2. c = Order[at] BY <2>1 DEF ScheduleInv, TypeOK
  <2> QED BY <2>1, <2>2 DEF ScheduleInv, Admitted, ShouldRunCheck
<1>2. ScheduleInv /\ [Next]_vars => ScheduleInv' BY ScheduleStep
<1> QED BY <1>1, <1>2, ScheduleInit, PTL DEF Spec, ClaimedOncePerInterval

(* Runs still to come of a check on a cluster, and the one Reconcile owes. *)
Waiting(c, k) == {t \in tasks : t.check = c /\ t.cluster = k}
Owed(c, k) == IF pc = "create" /\ c = Order[at] /\ k \in todo THEN 1 ELSE 0

LEMMA WaitingFinite ==
  ASSUME IsFiniteSet(tasks), NEW c, NEW k
  PROVE  IsFiniteSet(Waiting(c, k)) /\ Cardinality(Waiting(c, k)) \in Nat
  BY FS_Subset, FS_CardinalityType DEF Waiting

LEMMA BalanceInit == Init => NoRunWithoutClaim
<1> SUFFICES ASSUME Init, NEW c \in Checks, NEW k \in Clusters
             PROVE  created[<<c, k>>] + Cardinality(Waiting(c, k)) + Owed(c, k) <= claims[c]
  BY DEF NoRunWithoutClaim, Waiting, Owed
<1>1. Waiting(c, k) = {} BY DEF Init, Waiting
<1>2. Cardinality(Waiting(c, k)) = 0 BY <1>1, FS_EmptySet
<1> QED BY <1>2 DEF Init, Owed

(* The balance of one check on one cluster. *)
LEMMA BalanceStep ==
  ASSUME ScheduleInv, NoRunWithoutClaim, [Next]_vars, NEW c \in Checks, NEW k \in Clusters
  PROVE  (created[<<c, k>>] + Cardinality(Waiting(c, k)) + Owed(c, k) <= claims[c])'
<1> DEFINE w == Cardinality(Waiting(c, k))
<1>0. /\ created[<<c, k>>] \in Nat /\ claims[c] \in Nat /\ w \in Nat /\ Owed(c, k) \in {0, 1}
      /\ created[<<c, k>>] + w + Owed(c, k) <= claims[c]
  <2>1. w \in Nat BY WaitingFinite DEF ScheduleInv
  <2>2. created[<<c, k>>] + w + Owed(c, k) <= claims[c] BY DEF NoRunWithoutClaim, Waiting, Owed
  <2>3. created[<<c, k>>] \in Nat /\ claims[c] \in Nat BY DEF ScheduleInv, TypeOK
  <2> QED BY <2>1, <2>2, <2>3 DEF Owed
<1>1. ASSUME created' = created, tasks' = tasks, claims'[c] >= claims[c], claims'[c] \in Nat,
             pc' # "create" \/ UNCHANGED <<pc, at, todo>>
      PROVE  (created[<<c, k>>] + Cardinality(Waiting(c, k)) + Owed(c, k) <= claims[c])'
  <2>1. Waiting(c, k)' = Waiting(c, k) BY <1>1 DEF Waiting
  <2>2. Owed(c, k)' \in {0, Owed(c, k)} BY <1>1 DEF Owed
  <2> QED BY <1>0, <1>1, <2>1, <2>2
<1>2. CASE Claim
  <2>1. UNCHANGED <<tasks, created>> /\ pc = "claim" BY <1>2 DEF Claim
  <2>2. CASE mine = thc
    <3>1. pc' = "create" /\ at' = at /\ claims' = [claims EXCEPT ![Order[at]] = claims[Order[at]] + 1]
      BY <1>2, <2>2 DEF Claim
    <3>2. Waiting(c, k)' = Waiting(c, k) BY <2>1 DEF Waiting
    <3>3. Owed(c, k) = 0 BY <2>1 DEF Owed
    <3>4. Owed(c, k)' = 0 \/ (c = Order[at] /\ Owed(c, k)' = 1) BY <3>1 DEF Owed
    <3>5. claims'[c] = IF c = Order[at] THEN claims[c] + 1 ELSE claims[c] BY <3>1 DEF ScheduleInv, TypeOK
    <3> QED BY <1>0, <2>1, <3>2, <3>3, <3>4, <3>5
  <2>3. CASE mine # thc
    <3>1. pc' = "idle" /\ claims' = claims BY <1>2, <2>3 DEF Claim, ReturnError, Done
    <3> QED BY <1>0, <1>1, <2>1, <3>1
  <2> QED BY <2>2, <2>3
<1>3. CASE CallFails
  <2>1. pc' = "idle" /\ UNCHANGED <<tasks, created>> BY <1>3, CallFailsMoves DEF Done
  <2>2. claims'[c] \in {claims[c], claims[c] + 1} BY ClaimMoves DEF ScheduleInv, TypeOK
  <2>3. claims'[c] \in Nat /\ claims'[c] >= claims[c] BY <1>0, <2>2
  <2> QED BY <1>1, <2>1, <2>3
<1>4. CASE Start \/ VisitCheck \/ AllCreated \/ Finish
  <2>1. UNCHANGED <<tasks, created, claims>> BY <1>4 DEF Start, VisitCheck, AllCreated, Finish
  <2>2. pc' # "create"
    BY <1>4 DEF Start, VisitCheck, AllCreated, Finish, NextCheck, ReturnError, Done
  <2> QED BY <1>0, <1>1, <2>1, <2>2
<1>5. CASE WatchEvent \/ ScheduleChanges \/ OtherEvent \/ Tick \/ UNCHANGED vars
  <2>1. UNCHANGED <<tasks, created, claims, pc, at, todo>>
    BY <1>5 DEF WatchEvent, ScheduleChanges, OtherEvent, Tick, local, vars
  <2> QED BY <1>0, <1>1, <2>1
<1>6. CASE Restart
  <2>1. tasks' = {} /\ pc' = "idle" /\ UNCHANGED <<created, claims>> BY <1>6 DEF Restart
  <2>2. Waiting(c, k)' = {} BY <2>1 DEF Waiting
  <2>3. Cardinality(Waiting(c, k)') = 0 BY <2>2, FS_EmptySet
  <2>4. Owed(c, k)' = 0 BY <2>1 DEF Owed
  <2> QED BY <1>0, <2>1, <2>3, <2>4
<1>7. CASE CreateForCluster
  <2>0. UNCHANGED <<pc, at, claims>> /\ pc = "create" BY <1>7 DEF CreateForCluster
  <2>1. PICK k0 \in todo :
          /\ todo' = todo \ {k0}
          /\ \/ tasks' = tasks /\ (Count(Order[at], k0) \/ UNCHANGED created)
             \/ created' = created /\ \E t \in Task : t.check = Order[at] /\ t.cluster = k0 /\ tasks' = tasks \cup {t}
    BY <1>7, CreateMoves
  <2>2. k0 \in Clusters /\ Order[at] \in Checks
    BY <2>0, OrderFacts DEF ScheduleInv, InLoop, TypeOK
  <2>3. CASE c = Order[at] /\ k = k0
    <3>1. Owed(c, k) = 1 /\ Owed(c, k)' = 0 BY <2>0, <2>1, <2>3 DEF Owed
    <3>2. CASE tasks' = tasks /\ (Count(Order[at], k0) \/ UNCHANGED created)
      <4>1. Waiting(c, k)' = Waiting(c, k) BY <3>2 DEF Waiting
      <4>2. created'[<<c, k>>] \in {created[<<c, k>>], created[<<c, k>>] + 1}
        BY <2>3, <3>2 DEF Count, ScheduleInv, TypeOK
      <4> QED BY <1>0, <2>0, <3>1, <4>1, <4>2
    <3>3. CASE created' = created /\ \E t \in Task : t.check = Order[at] /\ t.cluster = k0 /\ tasks' = tasks \cup {t}
      <4>1. PICK t \in Task : t.check = c /\ t.cluster = k /\ tasks' = tasks \cup {t} BY <2>3, <3>3
      <4>2. Waiting(c, k)' = Waiting(c, k) \cup {t} BY <4>1 DEF Waiting
      <4>3. Cardinality(Waiting(c, k)') \in {w, w + 1} BY <4>2, WaitingFinite, FS_AddElement DEF ScheduleInv
      <4> QED BY <1>0, <2>0, <3>1, <3>3, <4>3
    <3> QED BY <2>1, <3>2, <3>3
  <2>4. CASE ~(c = Order[at] /\ k = k0)
    <3>1. Owed(c, k)' = Owed(c, k) BY <2>0, <2>1, <2>4 DEF Owed
    <3>2. created'[<<c, k>>] = created[<<c, k>>] BY <2>1, <2>2, <2>4 DEF Count, ScheduleInv, TypeOK
    <3>3. Waiting(c, k)' = Waiting(c, k) BY <2>1, <2>4 DEF Waiting
    <3> QED BY <1>0, <2>0, <3>1, <3>2, <3>3
  <2> QED BY <2>3, <2>4
<1>8. CASE TaskFires
  <2>0. UNCHANGED <<pc, at, todo, claims>> BY <1>8 DEF TaskFires, local
  <2>1. PICK t \in tasks : tasks' = tasks \ {t} /\ (Count(t.check, t.cluster) \/ UNCHANGED created)
    BY <1>8 DEF TaskFires
  <2>2. t.check \in Checks /\ t.cluster \in Clusters BY DEF ScheduleInv, TypeOK
  <2>3. Owed(c, k)' = Owed(c, k) BY <2>0 DEF Owed
  <2>4. CASE t.check = c /\ t.cluster = k
    <3>1. Waiting(c, k)' = Waiting(c, k) \ {t} /\ t \in Waiting(c, k) BY <2>1, <2>4 DEF Waiting
    <3>2. Cardinality(Waiting(c, k)') = w - 1 BY <3>1, WaitingFinite, FS_RemoveElement DEF ScheduleInv
    <3>3. created'[<<c, k>>] \in {created[<<c, k>>], created[<<c, k>>] + 1}
      BY <2>1, <2>4 DEF Count, ScheduleInv, TypeOK
    <3> QED BY <1>0, <2>0, <2>3, <3>2, <3>3
  <2>5. CASE ~(t.check = c /\ t.cluster = k)
    <3>1. Waiting(c, k)' = Waiting(c, k) BY <2>1, <2>5 DEF Waiting
    <3>2. created'[<<c, k>>] = created[<<c, k>>] BY <2>1, <2>2, <2>5 DEF Count, ScheduleInv, TypeOK
    <3> QED BY <1>0, <2>0, <2>3, <3>1, <3>2
  <2> QED BY <2>4, <2>5
<1> QED BY <1>2, <1>3, <1>4, <1>5, <1>6, <1>7, <1>8 DEF Next, ReconcileStep

(* No run without a claim: for any number of clusters and any schedule, a   *)
(* cluster never gets more runs of a check, created or still to come, than  *)
(* the check has claimed intervals.                                         *)
THEOREM ClaimBeforeRun == Spec => []NoRunWithoutClaim
<1>1. ScheduleInv /\ NoRunWithoutClaim /\ [Next]_vars => (ScheduleInv /\ NoRunWithoutClaim)'
  <2> SUFFICES ASSUME ScheduleInv, NoRunWithoutClaim, [Next]_vars PROVE ScheduleInv' /\ NoRunWithoutClaim' OBVIOUS
  <2>1. ScheduleInv' BY ScheduleStep
  <2>2. NoRunWithoutClaim' BY BalanceStep DEF NoRunWithoutClaim, Waiting, Owed
  <2> QED BY <2>1, <2>2
<1> QED BY <1>1, ScheduleInit, BalanceInit, PTL DEF Spec

-----------------------------------------------------------------------------
(* The timer *)

LEMMA WakeInit == Init => WakeInv
<1> SUFFICES ASSUME Init PROVE WakeInv OBVIOUS
<1>1. pc = "idle" /\ now = 1 /\ queued = TRUE BY DEF Init
<1> QED BY <1>1 DEF WakeInv, Entitled, EventToCome, RequeueInTime, RestInTime

(* After an error or a restart another reconcile is queued. *)
LEMMA QueuedIdle ==
  ASSUME pc' = "idle", queued' = TRUE, now' > 0
  PROVE  WakeInv'
  BY DEF WakeInv, Entitled, EventToCome, RequeueInTime, RestInTime

LEMMA StartWakes ==
  ASSUME PositivePeriods, ScheduleInv, WakeInv, Start
  PROVE  WakeInv'
<1>1. /\ mine' = cache /\ cache' = cache /\ started' = now /\ now' = now /\ at' = 1 /\ persisted' = FALSE
      /\ requeue' = cache.spec.period /\ pc' = IF cache.spec.period = 0 THEN "finish" ELSE "check"
  BY DEF Start, outside
<1>2. cache.spec.period >= 0 /\ cache.spec.period \in Int
  BY SpecsAssumption DEF PositivePeriods, ScheduleInv, TypeOK
<1>3. RequeueInTime' BY <1>1, <1>2, OrderFacts DEF RequeueInTime
<1>4. Unwritten' BY <1>1 DEF Unwritten, Early
<1>5. Entitled' BY <1>1 DEF Entitled
<1> QED BY <1>1, <1>3, <1>4, <1>5 DEF WakeInv, EventToCome, RestInTime

(* One check of the loop: the requeue only gets shorter, and covers it. *)
LEMMA VisitCheckWakes ==
  ASSUME PositivePeriods, ScheduleInv, WakeInv, VisitCheck
  PROVE  WakeInv'
<1> DEFINE c == Order[at]
           period == CheckPeriod(mine.spec, c)
           due == ShouldRunCheck(mine.lastRun[c], period)
           least == IF period > 0 THEN Lower(requeue, period) ELSE requeue
           untilNext == period - (now - mine.lastRun[c])
           on == mine.spec.checks[c].enabled
<1>0. /\ pc = "check" /\ at \in 1 .. Len(Order) /\ c \in Checks /\ mine.spec.period # 0
      /\ UNCHANGED <<thc, cache, wake, tasks, created, claims, now, changes, faults>>
  BY OrderFacts DEF VisitCheck, outside, ScheduleInv, InLoop, WakeInv, Entitled
<1>1. /\ period \in Int /\ requeue \in Int /\ now \in Nat /\ mine.lastRun[c] \in Nat
      /\ on => period > 0
  BY <1>0, SpecTypes DEF ScheduleInv, TypeOK, PositivePeriods
<1>2. CASE ReturnError
  BY <1>0, <1>2, QueuedIdle DEF ReturnError, Done, WakeInv
<1>3. ASSUME pc' \in {"check", "claim", "finish"}, UNCHANGED <<mine, started, persisted, queued>>,
             at' \in {at, at + 1}, pc' = "claim" => at' = at /\ on,
             requeue' \in Int, requeue' <= requeue, requeue > 0 => requeue' > 0,
             at' = at + 1 => Covers(mine, c, now + requeue')
      PROVE  WakeInv'
  <2>1. Entitled' BY <1>0, <1>3 DEF Entitled
  <2>2. EventToCome'
    <3> SUFFICES ASSUME queued = FALSE PROVE Unwritten' \/ Written' BY <1>3 DEF EventToCome
    <3>1. CASE Unwritten BY <1>0, <1>3, <3>1 DEF Unwritten, Early
    <3>2. CASE Written
      <4>1. PICK k \in 1 .. Len(Order) : Handled(k) /\ cache.lastRun[Order[k]] # thc.lastRun[Order[k]]
        BY <3>2 DEF Written
      <4>2. k < at' BY <1>0, <1>3, <4>1, OrderFacts DEF Handled
      <4> QED BY <1>0, <4>1, <4>2 DEF Written, Handled
    <3> QED BY <1>0, <3>1, <3>2 DEF WakeInv, EventToCome
  <2>3. RequeueInTime'
    <3> SUFFICES ASSUME Early', mine.spec.period # 0
                 PROVE  requeue' > 0 /\ \A k \in 1 .. Len(Order) : k < at' => Covers(mine, Order[k], now + requeue')
      BY <1>0, <1>3 DEF RequeueInTime
    <3>1. Early BY <1>0, <1>3 DEF Early
    <3>2. requeue > 0 /\ \A k \in 1 .. Len(Order) : k < at => Covers(mine, Order[k], now + requeue)
      BY <1>0, <3>1 DEF WakeInv, RequeueInTime
    <3>3. ASSUME NEW k \in 1 .. Len(Order), k < at' PROVE Covers(mine, Order[k], now + requeue')
      <4>1. CASE k < at
        <5>1. Covers(mine, Order[k], now + requeue) BY <3>2, <4>1
        <5>0. requeue \in Int /\ requeue' \in Int /\ now \in Int /\ requeue' <= requeue
          BY <1>3 DEF ScheduleInv, TypeOK
        <5>2. now + requeue' <= now + requeue /\ now + requeue \in Int /\ now + requeue' \in Int BY <5>0
        <5>3. mine.lastRun[Order[k]] + CheckPeriod(mine.spec, Order[k]) \in Int
          BY SpecTypes, OrderFacts DEF ScheduleInv, TypeOK
        <5> QED BY <5>1, <5>2, <5>3 DEF Covers
      <4>2. CASE ~(k < at)
        <5>1. k = at /\ at' = at + 1 BY <1>0, <1>3, <3>3, <4>2, OrderFacts
        <5> QED BY <1>3, <5>1
      <4> QED BY <4>1, <4>2
    <3> QED BY <1>3, <3>2, <3>3
  <2> QED BY <1>0, <1>3, <2>1, <2>2, <2>3 DEF WakeInv, RestInTime
<1>4. CASE NextCheck /\ ~on /\ UNCHANGED <<mine, started, requeue, persisted, queued>>
  <2>1. Covers(mine, c, now + requeue') BY <1>4 DEF Covers
  <2> QED BY <1>0, <1>1, <1>3, <1>4, <2>1, OrderFacts DEF NextCheck
<1>5. CASE on /\ due /\ pc' = "claim" /\ requeue' = least /\ UNCHANGED <<at, mine, started, persisted, queued>>
  <2>0. requeue' = least BY <1>5
  <2>1. requeue' \in Int /\ requeue' <= requeue /\ (requeue > 0 => requeue' > 0) BY <1>1, <2>0 DEF Lower
  <2> QED BY <1>0, <1>3, <1>5, <2>1, OrderFacts
<1>6. CASE /\ on /\ ~due /\ NextCheck /\ UNCHANGED <<mine, started, persisted, queued>>
           /\ requeue' = IF untilNext > 0 THEN Lower(least, untilNext) ELSE least
  <2>1. mine.lastRun[c] # 0 /\ untilNext > 0 /\ untilNext \in Int BY <1>1, <1>6 DEF ShouldRunCheck
  <2>2. /\ requeue' \in Int /\ requeue' <= requeue /\ (requeue > 0 => requeue' > 0) /\ requeue' <= untilNext
    BY <1>1, <1>6, <2>1 DEF Lower
  <2>3. now + requeue' <= mine.lastRun[c] + period BY <1>1, <2>1, <2>2
  <2>4. Covers(mine, c, now + requeue') BY <2>1, <2>3 DEF Covers
  <2> QED BY <1>0, <1>3, <1>6, <2>2, <2>4, OrderFacts DEF NextCheck
<1> HIDE DEF least, untilNext, due, on
<1> QED BY <1>2, <1>4, <1>5, <1>6 DEF VisitCheck, least, untilNext, due, on

(* A claim is news to the informer. *)
LEMMA ClaimWakes ==
  ASSUME PositivePeriods, ScheduleInv, WakeInv, Claim
  PROVE  WakeInv'
<1> DEFINE c == Order[at]
<1>0. /\ pc = "claim" /\ at \in 1 .. Len(Order) /\ c \in Checks /\ mine \in Stored /\ started \in Nat
      /\ UNCHANGED <<cache, wake, now>> /\ now > 0
  BY OrderFacts DEF Claim, outside, ScheduleInv, InLoop, TypeOK, Stored, WakeInv
<1>1. CASE mine # thc
  <2>1. pc' = "idle" /\ queued' = TRUE BY <1>1 DEF Claim, ReturnError, Done
  <2> QED BY <1>0, <2>1, QueuedIdle
<1>2. CASE mine = thc
  <2>1. thc' = Claimed /\ mine' = Claimed /\ persisted' = TRUE /\ pc' = "create" /\ UNCHANGED <<at, started, queued>>
    BY <1>2 DEF Claim, Claimed
  <2>2. /\ Claimed.spec = mine.spec /\ Claimed.lastRun[c] = started
        /\ \A d \in Checks : d # c => Claimed.lastRun[d] = mine.lastRun[d]
    BY <1>0, ClaimedFacts
  <2>3. Entitled' BY <1>0, <2>1, <2>2 DEF WakeInv, Entitled
  <2>4. EventToCome'
    <3> SUFFICES ASSUME queued = FALSE PROVE Written' BY <2>1 DEF EventToCome
    <3>1. CASE Unwritten
      <4>1. cache.lastRun[c] = mine.lastRun[c] /\ started = now BY <3>1 DEF Unwritten, Early
      <4>2. CheckPeriod(mine.spec, c) > 0 /\ CheckPeriod(mine.spec, c) \in Int
        BY <1>0, SpecTypes DEF WakeInv, Entitled, PositivePeriods, Stored
      <4>3. mine.lastRun[c] = 0 \/ now - mine.lastRun[c] >= CheckPeriod(mine.spec, c)
        BY <1>0 DEF ScheduleInv, Admitted, ShouldRunCheck
      <4>4. mine.lastRun[c] # now BY <1>0, <4>2, <4>3 DEF Stored, ScheduleInv, TypeOK
      <4>5. cache'.lastRun[Order[at]] # thc'.lastRun[Order[at]] BY <1>0, <2>1, <2>2, <4>1, <4>4
      <4> QED BY <1>0, <2>1, <4>5 DEF Written, Handled
    <3>2. CASE Written
      <4>1. PICK k \in 1 .. Len(Order) : Handled(k) /\ cache.lastRun[Order[k]] # thc.lastRun[Order[k]]
        BY <3>2 DEF Written
      <4>2. k < at BY <1>0, <4>1 DEF Handled
      <4>3. Order[k] # c /\ Order[k] \in Checks BY <1>0, <4>2, OrderFacts
      <4>4. cache'.lastRun[Order[k]] # thc'.lastRun[Order[k]] BY <1>0, <1>2, <2>1, <2>2, <4>1, <4>3
      <4> QED BY <2>1, <4>2, <4>4 DEF Written, Handled
    <3> QED BY <1>0, <3>1, <3>2 DEF WakeInv, EventToCome
  <2> QED BY <1>0, <2>1, <2>3, <2>4 DEF WakeInv, RequeueInTime, RestInTime
<1> QED BY <1>1, <1>2

(* The creation of runs takes time, but follows a claim. *)
LEMMA CreateWakes ==
  ASSUME ScheduleInv, WakeInv, CreateForCluster \/ AllCreated
  PROVE  WakeInv'
<1>0. /\ pc = "create" /\ persisted = TRUE /\ at \in 1 .. Len(Order)
      /\ UNCHANGED <<thc, cache, mine, started, persisted, queued, wake, now>>
  BY DEF CreateForCluster, AllCreated, outside, ScheduleInv, InLoop, WakeInv, Entitled
<1>1. (pc' = pc /\ at' = at) \/ (pc' \in {"check", "finish"} /\ at' = at + 1)
  BY DEF CreateForCluster, AllCreated, NextCheck
<1>2. ~Early' BY <1>0 DEF Early
<1>3. EventToCome'
  <2> SUFFICES ASSUME queued = FALSE PROVE Written' BY <1>0 DEF EventToCome
  <2>1. Written BY <1>0 DEF WakeInv, EventToCome, Unwritten, Early
  <2>2. PICK k \in 1 .. Len(Order) : Handled(k) /\ cache.lastRun[Order[k]] # thc.lastRun[Order[k]]
    BY <2>1 DEF Written
  <2>3. Handled(k)' BY <1>0, <1>1, <2>2, OrderFacts DEF Handled
  <2> QED BY <1>0, <2>2, <2>3 DEF Written
<1>4. Entitled' BY <1>0, <1>1 DEF WakeInv, Entitled
<1> QED BY <1>0, <1>1, <1>2, <1>3, <1>4 DEF WakeInv, RequeueInTime, RestInTime

(* At its end Reconcile sets the timer it computed, or a shorter one. *)
LEMMA FinishWakes ==
  ASSUME ScheduleInv, WakeInv, Finish
  PROVE  WakeInv'
<1>0. pc = "finish" /\ UNCHANGED <<thc, cache, now>> /\ now > 0 /\ now \in Nat /\ requeue \in Int
  BY DEF Finish, outside, WakeInv, ScheduleInv, TypeOK
<1>1. CASE ReturnError
  BY <1>0, <1>1, QueuedIdle DEF ReturnError, Done
<1>2. CASE \E pending \in BOOLEAN :
            LET after == IF pending /\ (requeue = 0 \/ requeue > PendingRequeue) THEN PendingRequeue ELSE requeue
            IN  /\ wake' = IF after > 0 THEN now + after ELSE 0
                /\ Done
                /\ UNCHANGED queued
  <2>1. pc' = "idle" /\ UNCHANGED queued BY <1>2 DEF Done
  <2>2. requeue > 0 => wake' > 0 /\ wake' <= now + requeue /\ wake' \in Int
    BY <1>0, <1>2, ScheduleAssumption
  <2>3. RestInTime'
    <3> SUFFICES ASSUME queued = FALSE, cache.lastRun = thc.lastRun, cache.spec.period # 0, NEW c \in Checks
                 PROVE  Covers(cache, c, wake') /\ wake' # 0
      BY <1>0, <2>1 DEF RestInTime, Covers
    <3>1. ~Written BY DEF Written
    <3>2. mine = cache /\ Early BY <1>0, <3>1 DEF WakeInv, EventToCome, Unwritten
    <3>3. at = Len(Order) + 1 BY <1>0, <3>2 DEF ScheduleInv, InLoop
    <3>4. requeue > 0 /\ \A k \in 1 .. Len(Order) : k < at => Covers(mine, Order[k], now + requeue)
      BY <1>0, <3>2 DEF WakeInv, RequeueInTime
    <3>5. PICK k \in 1 .. Len(Order) : c = Order[k] BY OrderFacts
    <3>6. Covers(cache, c, now + requeue) BY <3>2, <3>3, <3>4, <3>5, OrderFacts
    <3>7. wake' # 0 /\ wake' <= now + requeue /\ wake' \in Int BY <2>2, <3>4
    <3>8. cache.lastRun[c] + CheckPeriod(cache.spec, c) \in Int BY SpecTypes DEF ScheduleInv, TypeOK
    <3>9. Covers(cache, c, wake') BY <1>0, <3>6, <3>7, <3>8 DEF Covers
    <3> QED BY <3>7, <3>9
  <2> QED BY <1>0, <2>1, <2>3 DEF WakeInv, Entitled, EventToCome, RequeueInTime
<1> QED BY <1>1, <1>2 DEF Finish

(* Events queue a reconcile; a change of the schedule leaves the run times. *)
LEMMA OutsideWakes ==
  ASSUME ScheduleInv, WakeInv,
         TaskFires \/ WatchEvent \/ ScheduleChanges \/ OtherEvent \/ Tick \/ UNCHANGED vars
  PROVE  WakeInv'
<1>0. UNCHANGED <<pc, at, started, requeue, persisted, wake>>
  BY DEF TaskFires, WatchEvent, ScheduleChanges, OtherEvent, Tick, local, vars
<1>1. /\ now' > 0 /\ (pc \notin {"idle", "create"} => now' = now) /\ (pc # "idle" => mine' = mine)
  BY DEF TaskFires, WatchEvent, ScheduleChanges, OtherEvent, Tick, Change, local, outside, vars, WakeInv, ScheduleInv, TypeOK
<1>2. queued' = TRUE \/ (UNCHANGED <<queued, cache>> /\ thc'.lastRun = thc.lastRun)
  <2>1. CASE ScheduleChanges
    <3>1. PICK s \in Specs : thc' = [thc EXCEPT !.spec = s] BY <2>1 DEF ScheduleChanges
    <3>2. UNCHANGED <<queued, cache>> BY <2>1 DEF ScheduleChanges
    <3> QED BY <3>1, <3>2 DEF ScheduleInv, TypeOK
  <2>2. CASE WatchEvent \/ OtherEvent BY <2>2 DEF WatchEvent, OtherEvent
  <2>3. CASE TaskFires \/ Tick \/ UNCHANGED vars BY <2>3 DEF TaskFires, Tick, vars
  <2> QED BY <2>1, <2>2, <2>3
<1>3. Entitled' BY <1>0, <1>1 DEF WakeInv, Entitled
<1>4. RequeueInTime' BY <1>0, <1>1 DEF WakeInv, RequeueInTime, Early, Covers
<1>5. EventToCome'
  <2> SUFFICES ASSUME queued' = FALSE, pc # "idle" PROVE Unwritten' \/ Written' BY <1>0 DEF EventToCome
  <2>1. UNCHANGED <<queued, cache, mine>> /\ thc'.lastRun = thc.lastRun BY <1>1, <1>2
  <2>2. CASE Unwritten BY <1>0, <1>1, <2>1, <2>2 DEF Unwritten, Early
  <2>3. CASE Written BY <1>0, <2>1, <2>3 DEF Written, Handled
  <2> QED BY <2>1, <2>2, <2>3 DEF WakeInv, EventToCome
<1>6. RestInTime' BY <1>0, <1>2 DEF WakeInv, RestInTime, Covers
<1> QED BY <1>1, <1>3, <1>4, <1>5, <1>6 DEF WakeInv

LEMMA WakeStep ==
  ASSUME PositivePeriods, ScheduleInv, WakeInv, [Next]_vars
  PROVE  WakeInv'
<1>1. CASE CallFails
  <2>1. pc' = "idle" /\ queued' = TRUE /\ now' > 0 BY <1>1, CallFailsMoves DEF Done, WakeInv
  <2> QED BY <2>1, QueuedIdle
<1>2. CASE Restart
  <2>1. pc' = "idle" /\ queued' = TRUE /\ now' > 0 BY <1>2 DEF Restart, Fault, WakeInv
  <2> QED BY <2>1, QueuedIdle
<1> QED BY <1>1, <1>2, StartWakes, VisitCheckWakes, ClaimWakes, CreateWakes, FinishWakes, OutsideWakes
        DEF Next, ReconcileStep

(* The timer wakes in time: with positive periods, whenever the controller  *)
(* rests with nothing queued and nothing left to be shown by the informer,  *)
(* its timer expires no later than any enabled check becomes due, although  *)
(* time may pass between the computation of the requeue and its use: it     *)
(* passes only after a claim, and the event of the claim queues the next    *)
(* reconcile.                                                               *)
THEOREM TimerInTime == ASSUME PositivePeriods PROVE Spec => []WakesInTime
<1>1. ScheduleInv /\ WakeInv /\ [Next]_vars => (ScheduleInv /\ WakeInv)' BY ScheduleStep, WakeStep
<1>2. ScheduleInv /\ WakeInv => WakesInTime
  <2> SUFFICES ASSUME ScheduleInv, WakeInv, pc = "idle", ~queued, cache = thc, NEW c \in Checks, Enabled(c)
               PROVE  thc.lastRun[c] # 0 /\ wake # 0 /\ wake <= thc.lastRun[c] + CheckPeriod(thc.spec, c)
    BY DEF WakesInTime
  <2>1. queued = FALSE BY DEF ScheduleInv, TypeOK
  <2> QED BY <2>1 DEF WakeInv, RestInTime, Covers, Enabled
<1> QED BY <1>1, <1>2, ScheduleInit, WakeInit, PTL DEF Spec
=============================================================================
