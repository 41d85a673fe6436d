-------------------------- MODULE RunEventsProofs ---------------------------
(***************************************************************************)
(* Proofs about RunEvents, for any condition types and bounds.             *)
(*                                                                         *)
(* LatestIsLatest is about latestCondition alone: for a list of any length *)
(* it returns the condition that IsLatest defines.  OrderInv says that     *)
(* neither the record nor what a reconcile has read is ahead of the run.   *)
(* SyncInv says that whatever the hub has changed since it was read has    *)
(* left an event, a request or a timer behind, and follows what a          *)
(* reconcile has read to the record.                                       *)
(***************************************************************************)
EXTENDS RunEvents, WellFoundedInduction, TLAPS

-----------------------------------------------------------------------------
(* Induction *)

LEMMA Least ==
  ASSUME NEW S, S \subseteq Nat, S # {}
  PROVE  \E x \in S : \A y \in S : x <= y
<1> DEFINE R == OpToRel(<, Nat)
<1>1. IsWellFoundedOn(R, Nat) BY NatLessThanWellFounded
<1> HIDE DEF R
<1>2. PICK x \in S : \A y \in S : ~(<<y, x>> \in R) BY <1>1, WFMin
<1>3. ASSUME NEW y \in S PROVE x <= y
  <2>1. y \in Nat /\ x \in Nat BY <1>2
  <2>2. ~(<<y, x>> \in R) BY <1>2
  <2>3. y < x => <<y, x>> \in R BY <2>1 DEF R, OpToRel
  <2> QED BY <2>1, <2>2, <2>3
<1> QED BY <1>3

LEMMA SetInduction ==
  ASSUME NEW S, 0 \in S, \A n \in Nat : n \in S => n + 1 \in S
  PROVE  Nat \subseteq S
<1> DEFINE T == Nat \ S
<1> SUFFICES ASSUME T # {} PROVE FALSE OBVIOUS
<1>1. T \subseteq Nat OBVIOUS
<1>2. PICK x \in T : \A y \in T : x <= y
  <2> HIDE DEF T
  <2> QED BY <1>1, Least
<1>3. x \in Nat /\ x # 0 BY <1>2
<1>4. x - 1 \in Nat /\ x - 1 \notin T BY <1>2, <1>3
<1> QED BY <1>2, <1>3, <1>4

-----------------------------------------------------------------------------
(* The latest condition *)

Condition == [type : Types, time : 0 .. MaxTime]
Newest == Condition \cup {NoCondition}

LEMMA Stamps == NoCondition.time = 0 /\ NoCondition.time \in Nat /\ NoCondition.type = "" /\ \A c \in Condition : c.time \in Nat
<1>1. MaxTime \in Nat BY BoundsAssumption
<1>2. NoCondition.time = 0 /\ NoCondition.type = "" BY DEF NoCondition
<1>3. \A c \in Condition : c.time \in Nat BY <1>1 DEF Condition
<1>4. NoCondition.time \in Nat BY DEF NoCondition
<1> QED BY <1>2, <1>3, <1>4, Zenon

(* The loop of latestCondition: f[k] is the newest of the first k. *)
Scan(f, list) ==
  /\ f \in [0 .. Len(list) -> Newest]
  /\ f[0] = NoCondition
  /\ \A k \in 1 .. Len(list) :
       f[k] = IF list[k].time # 0 /\ list[k].time >= f[k - 1].time THEN list[k] ELSE f[k - 1]
  /\ LatestCondition(list) = f[Len(list)]

LEMMA ScanExists ==
  ASSUME NEW list \in Seq(Condition)
  PROVE  \E f : Scan(f, list)
<1> DEFINE n == Len(list)
           Step(g, k) == IF list[k].time # 0 /\ list[k].time >= g[k - 1].time THEN list[k] ELSE g[k - 1]
           After(g, k) == IF k = 0 THEN NoCondition ELSE Step(g, k)
           Is(g) == g = [k \in 0 .. Len(list) |->
                           IF k = 0 THEN NoCondition
                           ELSE IF list[k].time # 0 /\ list[k].time >= g[k - 1].time THEN list[k] ELSE g[k - 1]]
           Good(m, g) == g \in [0 .. m -> Newest] /\ g[0] = NoCondition /\ \A k \in 1 .. m : g[k] = Step(g, k)
           Some == {m \in Nat : m <= n => \E g : Good(m, g)}
<1>1. n \in Nat /\ NoCondition \in Newest /\ \A k \in 1 .. n : list[k] \in Newest BY DEF Newest
<1>2. 0 \in Some
  <2> DEFINE h == [k \in 0 .. 0 |-> NoCondition]
  <2>1. Good(0, h) BY <1>1
  <2> QED BY <2>1
<1>3. ASSUME NEW m \in Nat, m \in Some PROVE m + 1 \in Some
  <2> SUFFICES ASSUME m + 1 <= n PROVE \E g : Good(m + 1, g)
    <3> HIDE DEF Good
    <3> QED OBVIOUS
  <2>1. PICK g : Good(m, g) BY <1>3
  <2> DEFINE last == Step(g, m + 1)
             h == [k \in 0 .. m + 1 |-> IF k = m + 1 THEN last ELSE g[k]]
  <2>2. g[m] \in Newest /\ list[m + 1] \in Newest /\ (m + 1) - 1 = m BY <1>1, <2>1
  <2>3. last \in Newest BY <2>2
  <2>4. h \in [0 .. m + 1 -> Newest] BY <2>1, <2>3
  <2>5. h[0] = NoCondition BY <2>1
  <2>6. ASSUME NEW k \in 1 .. m + 1 PROVE h[k] = Step(h, k)
    <3>1. h[k - 1] = g[k - 1] BY <2>6
    <3>2. CASE k = m + 1
      <4>1. h[k] = last BY <3>2
      <4> HIDE DEF h
      <4> QED BY <3>1, <3>2, <4>1
    <3>3. CASE k # m + 1
      <4>1. k \in 1 .. m BY <3>3
      <4>2. h[k] = g[k] BY <3>3
      <4> HIDE DEF h
      <4> QED BY <2>1, <3>1, <4>1, <4>2
    <3> QED BY <3>2, <3>3
  <2> HIDE DEF h
  <2> QED BY <2>4, <2>5, <2>6
<1> HIDE DEF Some
<1>4. Nat \subseteq Some BY <1>2, <1>3, SetInduction
<1>5. PICK f : Good(n, f)
  <2> HIDE DEF Good
  <2> QED BY <1>1, <1>4 DEF Some
<1>6. Is(f)
  <2>1. ASSUME NEW k \in 0 .. n PROVE f[k] = After(f, k)
    <3>1. CASE k = 0 BY <1>5, <3>1
    <3>2. CASE k # 0
      <4>1. k \in 1 .. n BY <1>1, <3>2
      <4> QED BY <1>5, <3>2, <4>1
    <3> QED BY <3>1, <3>2
  <2>2. f = [k \in 0 .. n |-> f[k]] BY <1>5
  <2> QED BY <2>1, <2>2
<1> DEFINE newest[k \in 0 .. Len(list)] ==
             IF k = 0 THEN NoCondition
             ELSE IF list[k].time # 0 /\ list[k].time >= newest[k - 1].time THEN list[k] ELSE newest[k - 1]
<1>7. Is(newest) BY <1>6
<1>8. LatestCondition(list) = newest[n] BY DEF LatestCondition
<1>9. \A k \in 0 .. n : newest[k] = After(newest, k)
  <2> HIDE DEF newest
  <2> QED BY <1>7
<1> HIDE DEF newest
<1> DEFINE S == {k \in Nat : k <= n => newest[k] = f[k]}
<1>10. 0 \in S BY <1>1, <1>5, <1>9
<1>11. ASSUME NEW k \in Nat, k \in S PROVE k + 1 \in S
  <2> SUFFICES ASSUME k + 1 <= n PROVE newest[k + 1] = f[k + 1] OBVIOUS
  <2>1. k + 1 \in 1 .. n /\ k + 1 \in 0 .. n /\ (k + 1) - 1 = k BY <1>1
  <2>2. newest[k] = f[k] BY <1>1, <1>11
  <2>3. newest[k + 1] = After(newest, k + 1) BY <1>9, <2>1
  <2> QED BY <1>5, <2>1, <2>2, <2>3
<1> HIDE DEF S
<1>12. Nat \subseteq S BY <1>10, <1>11, SetInduction
<1>13. newest[n] = f[n] BY <1>1, <1>12 DEF S
<1>14. Scan(f, list) BY <1>5, <1>8, <1>13 DEF Scan
<1> QED BY <1>14

(* What the loop returns: nothing if no stamp parses, and else a condition  *)
(* of the list that no other is later than.                                 *)
Found(c, list, m) ==
  /\ c.time \in Nat /\ \A j \in 1 .. m : list[j].time <= c.time
  /\ c = NoCondition \/ \E k \in 1 .. m : /\ list[k] = c /\ c.time # 0
                                          /\ \A j \in 1 .. m : list[j].time < c.time \/ (list[j].time = c.time /\ j <= k)

LEMMA LatestFound ==
  ASSUME NEW list \in Seq(Condition)
  PROVE  LatestCondition(list) \in Newest /\ Found(LatestCondition(list), list, Len(list))
<1> DEFINE n == Len(list)
<1>1. PICK f : Scan(f, list) BY ScanExists
<1>2. /\ n \in Nat /\ f \in [0 .. n -> Newest] /\ f[0] = NoCondition /\ LatestCondition(list) = f[n]
      /\ \A k \in 1 .. n : f[k] = IF list[k].time # 0 /\ list[k].time >= f[k - 1].time THEN list[k] ELSE f[k - 1]
  BY <1>1 DEF Scan
<1>3. ASSUME NEW k \in 1 .. n PROVE list[k] \in Condition /\ list[k].time \in Nat
  <2>1. list[k] \in Condition OBVIOUS
  <2> QED BY <2>1, Stamps
<1> HIDE DEF n
<1> DEFINE S == {m \in Nat : m <= n => Found(f[m], list, m)}
<1>4. 0 \in S
  <2>1. \A j \in 1 .. 0 : FALSE OBVIOUS
  <2>2. Found(NoCondition, list, 0)
    <3>1. NoCondition.time \in Nat BY Stamps
    <3>2. \A j \in 1 .. 0 : list[j].time <= NoCondition.time BY <2>1
    <3> QED BY <3>1, <3>2 DEF Found
  <2> QED BY <1>2, <2>2
<1>5. ASSUME NEW m \in Nat, m \in S PROVE m + 1 \in S
  <2> SUFFICES ASSUME m + 1 <= n PROVE Found(f[m + 1], list, m + 1) OBVIOUS
  <2> DEFINE old == f[m]
             c == list[m + 1]
  <2>1. Found(old, list, m) BY <1>2, <1>5
  <2>2. m + 1 \in 1 .. n /\ (m + 1) - 1 = m BY <1>2
  <2>3. c.time \in Nat /\ old.time \in Nat BY <1>3, <2>1, <2>2 DEF Found
  <2>4. f[m + 1] = IF c.time # 0 /\ c.time >= old.time THEN c ELSE old BY <1>2, <2>2
  <2>5. \A j \in 1 .. m : list[j].time \in Nat /\ list[j].time <= old.time BY <1>2, <1>3, <2>1, <2>2 DEF Found
  <2>6. \A j \in 1 .. m + 1 : j \in 1 .. m \/ j = m + 1 OBVIOUS
  <2> HIDE DEF old
  <2>7. CASE c.time # 0 /\ c.time >= old.time
    <3>1. f[m + 1] = c BY <2>4, <2>7
    <3>2. \A j \in 1 .. m + 1 : list[j].time <= c.time BY <2>3, <2>5, <2>6, <2>7
    <3>3. \A j \in 1 .. m + 1 : list[j].time < c.time \/ (list[j].time = c.time /\ j <= m + 1)
      BY <2>3, <2>5, <2>6, <2>7
    <3>4. m + 1 \in 1 .. m + 1 /\ list[m + 1] = c OBVIOUS
    <3> HIDE DEF c
    <3> QED BY <2>3, <2>7, <3>1, <3>2, <3>3, <3>4 DEF Found
  <2>8. CASE ~(c.time # 0 /\ c.time >= old.time)
    <3>1. f[m + 1] = old BY <2>4, <2>8
    <3>2. c.time <= old.time /\ (old.time # 0 => c.time < old.time) BY <2>3, <2>8
    <3>3. \A j \in 1 .. m + 1 : list[j].time <= old.time BY <2>5, <2>6, <3>2
    <3>4. CASE old = NoCondition BY <2>3, <3>1, <3>3, <3>4 DEF Found
    <3>5. CASE old # NoCondition
      <4>1. PICK k \in 1 .. m : /\ list[k] = old /\ old.time # 0
                                /\ \A j \in 1 .. m : list[j].time < old.time \/ (list[j].time = old.time /\ j <= k)
        BY <2>1, <3>5 DEF Found
      <4>2. k \in 1 .. m + 1 OBVIOUS
      <4>3. \A j \in 1 .. m + 1 : list[j].time < old.time \/ (list[j].time = old.time /\ j <= k)
        BY <2>6, <3>2, <4>1
      <4> QED BY <2>3, <3>1, <3>3, <4>1, <4>2, <4>3 DEF Found
    <3> QED BY <3>4, <3>5
  <2> QED BY <2>7, <2>8
<1> HIDE DEF S
<1>6. Nat \subseteq S BY <1>4, <1>5, SetInduction
<1>7. Found(f[n], list, n) BY <1>2, <1>6 DEF S
<1>8. f[n] \in Newest BY <1>2
<1> QED BY <1>2, <1>7, <1>8 DEF n

(* latestCondition agrees with the definition of the latest condition for   *)
(* every list: it returns the condition with a parsed stamp that none is    *)
(* later than, the last one in the list of those, whatever the order of the *)
(* list, and nothing exactly when no stamp parses.                          *)
THEOREM LatestIsLatest ==
  \A list \in Seq(Condition) :
    /\ \A c : IsLatest(c, list) => c = LatestCondition(list)
    /\ LatestCondition(list) # NoCondition => IsLatest(LatestCondition(list), list)
    /\ LatestCondition(list) = NoCondition => \A k \in DOMAIN list : list[k].time = 0
<1> SUFFICES ASSUME NEW list \in Seq(Condition)
             PROVE  /\ \A c : IsLatest(c, list) => c = LatestCondition(list)
                    /\ LatestCondition(list) # NoCondition => IsLatest(LatestCondition(list), list)
                    /\ LatestCondition(list) = NoCondition => \A k \in DOMAIN list : list[k].time = 0
  OBVIOUS
<1> DEFINE l == LatestCondition(list)
           n == Len(list)
<1>1. Found(l, list, n) BY LatestFound
<1>2. DOMAIN list = 1 .. n /\ \A k \in 1 .. n : list[k].time \in Nat
  <2>1. ASSUME NEW k \in 1 .. n PROVE list[k].time \in Nat
    <3>1. list[k] \in Condition OBVIOUS
    <3> QED BY <3>1, Stamps
  <2> QED BY <2>1
<1> HIDE DEF l, n
<1>3. l # NoCondition => IsLatest(l, list) BY <1>1, <1>2 DEF Found, IsLatest
<1>4. ASSUME l = NoCondition, NEW k \in DOMAIN list PROVE list[k].time = 0
  <2>1. l.time = 0 BY <1>4, Stamps
  <2>2. list[k].time <= l.time BY <1>1, <1>2 DEF Found
  <2> QED BY <1>2, <2>1, <2>2
<1>5. ASSUME NEW c, IsLatest(c, list) PROVE c = l
  <2>1. PICK k \in 1 .. n : /\ list[k] = c /\ c.time # 0
                            /\ \A j \in 1 .. n : list[j].time < c.time \/ (list[j].time = c.time /\ j <= k)
    BY <1>2, <1>5 DEF IsLatest
  <2>2. l # NoCondition BY <1>2, <1>4, <2>1
  <2>3. PICK i \in 1 .. n : /\ list[i] = l /\ l.time # 0
                            /\ \A j \in 1 .. n : list[j].time < l.time \/ (list[j].time = l.time /\ j <= i)
    BY <1>1, <2>2 DEF Found
  <2>4. c.time \in Nat /\ l.time \in Nat BY <1>2, <2>1, <2>3
  <2>5. (l.time < c.time \/ (l.time = c.time /\ i <= k)) /\ (c.time < l.time \/ (c.time = l.time /\ k <= i))
    BY <2>1, <2>3
  <2>6. i = k BY <2>4, <2>5
  <2> QED BY <2>1, <2>3, <2>6
<1> QED BY <1>3, <1>4, <1>5 DEF l

-----------------------------------------------------------------------------
(* Types *)

RunType == [conditions : Seq(Condition), refers : BOOLEAN]
Record == [type : Types \cup {""}, time : 0 .. MaxTime, action : {"", "True", "False"}, alert : BOOLEAN]

(* TypeOK in parts, with the run and the clock. *)
FlagsOK == queued \in BOOLEAN /\ timer \in BOOLEAN /\ config \in BOOLEAN /\ lost \in BOOLEAN
RecordOK(new) == new \in Record /\ (new.type = "" => new.action = "" /\ new.alert = FALSE)
PassOK == pc \in {"idle", "result", "patch", "deliver"} /\ latest \in Newest /\ action \in {"", "True", "False"}
HubOK ==
  /\ run = Absent \/ run \in RunType
  /\ result \in {Absent, "", "True", "False"}
  /\ now \in 1 .. MaxTime

Shape == FlagsOK /\ RecordOK(record) /\ PassOK /\ HubOK /\ events \subseteq Watched

LEMMA NewestTypes ==
  \A c \in Newest : c.type \in Types \cup {""} /\ c.time \in 0 .. MaxTime
<1>1. \A c \in Condition : c.type \in Types \cup {""} /\ c.time \in 0 .. MaxTime BY DEF Condition
<1>2. MaxTime \in Nat BY BoundsAssumption
<1>3. NoCondition.type \in Types \cup {""} BY DEF NoCondition
<1>4. NoCondition.time \in 0 .. MaxTime BY <1>2 DEF NoCondition
<1> QED BY <1>1, <1>3, <1>4 DEF Newest

LEMMA ShapeTypes == Shape => TypeOK
<1> SUFFICES ASSUME Shape PROVE TypeOK OBVIOUS
<1>1. latest.type \in Types \cup {""} BY NewestTypes DEF Shape, PassOK
<1>2. record.type = "" => record.action = "" /\ ~record.alert BY DEF Shape, RecordOK
<1>3. {queued, timer, config, lost} \subseteq BOOLEAN BY DEF Shape, FlagsOK
<1> QED BY <1>1, <1>2, <1>3 DEF Shape, RecordOK, Record, PassOK, HubOK, TypeOK

LEMMA ShapeInit == Init => Shape
<1> SUFFICES ASSUME Init PROVE Shape OBVIOUS
<1>1. FlagsOK BY DEF Init, FlagsOK
<1>2. RecordOK(record)
  <2>1. MaxTime \in Nat BY BoundsAssumption
  <2>2. record = NewRecord BY DEF Init
  <2>3. NewRecord \in Record /\ NewRecord.action = "" /\ NewRecord.alert = FALSE BY <2>1 DEF NewRecord, Record
  <2> QED BY <2>2, <2>3 DEF RecordOK
<1>3. PassOK BY DEF Init, PassOK, Newest
<1>4. HubOK
  <2>1. <<>> \in Seq(Condition) OBVIOUS
  <2>2. [conditions |-> <<>>, refers |-> FALSE] \in RunType BY <2>1 DEF RunType
  <2>3. MaxTime \in Nat /\ MaxTime > 0 BY BoundsAssumption
  <2>4. now = 1 BY DEF Init
  <2>5. now \in 1 .. MaxTime BY <2>3, <2>4
  <2> QED BY <2>2, <2>5 DEF Init, HubOK
<1>5. events \subseteq Watched BY DEF Init, Watched
<1> QED BY <1>1, <1>2, <1>3, <1>4, <1>5 DEF Shape

(* A status that syncHubRunStatus or the delivery computes is a record. *)
LEMMA SyncedOK ==
  ASSUME RecordOK(record), NEW c \in Newest, NEW act \in {"", "True", "False"}
  PROVE  RecordOK(Synced(record, c, act))
<1> DEFINE new == [record EXCEPT !.type = c.type, !.time = c.time,
                                 !.action = IF c.type = "Analyzed" THEN act ELSE "False"]
<1>1. CASE c.type = "" BY <1>1 DEF Synced
<1>2. CASE c.type # ""
  <2>1. c.type \in Types \cup {""} /\ c.time \in 0 .. MaxTime BY NewestTypes
  <2>2. new \in Record /\ new.type = c.type BY <2>1 DEF RecordOK, Record
  <2>3. Synced(record, c, act) = new BY <1>2 DEF Synced
  <2> QED BY <1>2, <2>2, <2>3 DEF RecordOK
<1> QED BY <1>1, <1>2

LEMMA DeliveredOK ==
  ASSUME RecordOK(record), FlagsOK
  PROVE  RecordOK([record EXCEPT !.alert = Firing])
<1>1. Firing \in BOOLEAN BY DEF Firing, FlagsOK
<1>2. record.type = "" => Firing = FALSE BY DEF Firing, FlagsOK, RecordOK
<1> DEFINE f == Firing
<1> HIDE DEF f
<1>3. [record EXCEPT !.alert = f] \in Record BY <1>1 DEF RecordOK, Record, f
<1>4. /\ [record EXCEPT !.alert = f].type = record.type /\ [record EXCEPT !.alert = f].action = record.action
      /\ [record EXCEPT !.alert = f].alert = f
  BY DEF RecordOK, Record
<1>5. RecordOK([record EXCEPT !.alert = f]) BY <1>2, <1>3, <1>4 DEF RecordOK, f
<1> QED BY <1>5 DEF f

(* What an agentic operator does to the conditions of its run. *)
LEMMA ConditionSet ==
  ASSUME Shape, SetCondition
  PROVE  \E c \in Condition :
           /\ c.time = IF c.type \in Unstamped THEN 0 ELSE now
           /\ run' \in RunType /\ run'.refers = run.refers
           /\ Len(run'.conditions) >= Len(run.conditions)
           /\ \A k \in 1 .. Len(run'.conditions) :
                \/ run'.conditions[k] = c
                \/ k \in 1 .. Len(run.conditions) /\ run'.conditions[k] = run.conditions[k]
           /\ \A k \in 1 .. Len(run.conditions) :
                \/ run'.conditions[k] = run.conditions[k]
                \/ run'.conditions[k] = c /\ run.conditions[k].type = c.type
<1>1. PICK t \in Types :
        LET condition == [type |-> t, time |-> IF t \in Unstamped THEN 0 ELSE now]
            at == SelectInSeq(run.conditions, LAMBDA c : c.type = t)
        IN  run' = [run EXCEPT !.conditions = IF at = 0 THEN Append(@, condition) ELSE [@ EXCEPT ![at] = condition]]
  BY DEF SetCondition
<1> DEFINE c == [type |-> t, time |-> IF t \in Unstamped THEN 0 ELSE now]
           list == run.conditions
           I == {k \in 1 .. Len(list) : list[k].type = t}
           at == IF I # {} THEN Min(I) ELSE 0
           new == IF at = 0 THEN Append(list, c) ELSE [list EXCEPT ![at] = c]
<1>2. now \in 1 .. MaxTime /\ MaxTime \in Nat /\ run \in RunType BY BoundsAssumption DEF Shape, HubOK, SetCondition
<1>3. c \in Condition /\ c.type = t /\ c.time = IF t \in Unstamped THEN 0 ELSE now BY <1>2 DEF Condition
<1>4. list \in Seq(Condition) /\ Len(list) \in Nat BY <1>2 DEF RunType
<1>5. run' = [run EXCEPT !.conditions = new] BY <1>1 DEF SelectInSeq
<1>6. at = 0 \/ (at \in 1 .. Len(list) /\ list[at].type = t)
  <2>1. I \subseteq Nat OBVIOUS
  <2>2. CASE I # {}
    <3>1. Min(I) \in I
      <4> HIDE DEF I
      <4>1. PICK x \in I : \A y \in I : x <= y BY <2>1, <2>2, Least
      <4> QED BY <4>1 DEF Min
    <3> QED BY <2>2, <3>1
  <2> QED BY <2>2
<1> HIDE DEF c, list, at
<1>7. /\ new \in Seq(Condition) /\ Len(new) >= Len(list)
      /\ \A k \in 1 .. Len(new) : new[k] = c \/ (k \in 1 .. Len(list) /\ new[k] = list[k])
      /\ \A k \in 1 .. Len(list) : new[k] = list[k] \/ (new[k] = c /\ list[k].type = t)
  <2>1. CASE at = 0
    <3>1. new = Append(list, c) BY <2>1
    <3> QED BY <1>3, <1>4, <3>1
  <2>2. CASE at # 0
    <3>1. new = [list EXCEPT ![at] = c] BY <2>2
    <3>2. new \in Seq(Condition) /\ Len(new) = Len(list) BY <1>3, <1>4, <1>6, <2>2, <3>1
    <3>3. \A k \in 1 .. Len(list) : new[k] = IF k = at THEN c ELSE list[k] BY <1>4, <3>1
    <3> HIDE DEF new
    <3> QED BY <1>4, <1>6, <2>2, <3>2, <3>3
  <2> QED BY <2>1, <2>2
<1> HIDE DEF new
<1>8. run' \in RunType /\ run'.refers = run.refers /\ run'.conditions = new BY <1>2, <1>5, <1>7 DEF RunType
<1> QED BY <1>3, <1>7, <1>8 DEF list

(* Every action keeps the shapes. *)
LEMMA ShapeStep == Shape /\ [Next]_vars => Shape'
<1> SUFFICES ASSUME Shape, [Next]_vars PROVE Shape' OBVIOUS
<1> USE DEF Shape
<1>1. CASE UNCHANGED vars BY <1>1 DEF vars, FlagsOK, RecordOK, PassOK, HubOK
<1>2. CASE ReadRun
  <2>1. latest' \in Newest
    <3>1. CASE run = Absent BY <1>2, <3>1 DEF ReadRun, Newest
    <3>2. CASE run # Absent
      <4>1. run.conditions \in Seq(Condition) BY <3>2 DEF HubOK, RunType
      <4>2. LatestCondition(run.conditions) \in Newest BY <4>1, LatestFound
      <4> QED BY <1>2, <3>2, <4>2 DEF ReadRun
    <3> QED BY <3>1, <3>2
  <2>2. PassOK'
    <3>1. pc' \in {"idle", "result", "patch", "deliver"} /\ action' = "" BY <1>2 DEF ReadRun
    <3> QED BY <2>1, <3>1 DEF PassOK
  <2> QED BY <1>2, <2>2 DEF ReadRun, hub, FlagsOK, RecordOK, HubOK
<1>3. ASSUME SyncFails, UNCHANGED <<record, events, timer, lost>>, UNCHANGED hub PROVE Shape'
  <2>1. PassOK' BY <1>3 DEF SyncFails, Idle, PassOK, Newest
  <2> QED BY <1>3, <2>1 DEF SyncFails, hub, FlagsOK, RecordOK, HubOK
<1>4. CASE ReadResult
  <2>1. CASE result = Absent BY <1>3, <1>4, <2>1 DEF ReadResult
  <2>2. CASE result # Absent
    <3>1. PassOK' BY <1>4, <2>2 DEF ReadResult, PassOK, HubOK
    <3> QED BY <1>4, <2>2, <3>1 DEF ReadResult, hub, FlagsOK, RecordOK, HubOK
  <2> QED BY <2>1, <2>2
<1>5. CASE PatchStatus
  <2>1. record' = Synced(record, latest, action) BY <1>5 DEF PatchStatus, PutRecord
  <2>2. RecordOK(record') BY <2>1, SyncedOK DEF PassOK
  <2>3. events' \subseteq Watched BY <1>5 DEF PatchStatus, PutRecord, Watched
  <2>4. PassOK' BY <1>5 DEF PatchStatus, PassOK
  <2>5. FlagsOK' /\ HubOK' BY <1>5 DEF PatchStatus, hub, FlagsOK, HubOK
  <2> QED BY <2>2, <2>3, <2>4, <2>5
<1>6. CASE Deliver
  <2>1. record' = [record EXCEPT !.alert = Firing] BY <1>6 DEF Deliver, PutRecord
  <2>2. RecordOK(record') BY <2>1, DeliveredOK
  <2>3. events' \subseteq Watched BY <1>6 DEF Deliver, PutRecord, Watched
  <2>4. PassOK' BY <1>6 DEF Deliver, Idle, PassOK, Newest
  <2>5. FlagsOK' /\ HubOK' BY <1>6 DEF Deliver, Firing, hub, FlagsOK, HubOK
  <2> QED BY <2>2, <2>3, <2>4, <2>5
<1>7. CASE EventStep
  <2>1. queued' \in BOOLEAN /\ timer' \in BOOLEAN
    BY <1>7 DEF EventStep, RecordEvent, ListedEvent, ResultEvent, TimerExpires, FlagsOK
  <2>2. events' \subseteq Watched
    BY <1>7 DEF EventStep, RecordEvent, ListedEvent, ResultEvent, TimerExpires, Handled
  <2>3. UNCHANGED <<record, pc, latest, action, lost>> /\ UNCHANGED hub
    BY <1>7 DEF EventStep, RecordEvent, ListedEvent, ResultEvent, TimerExpires
  <2> QED BY <2>1, <2>2, <2>3 DEF hub, FlagsOK, RecordOK, PassOK, HubOK
<1>8. CASE Resync BY <1>8 DEF Resync, Watched, hub, FlagsOK, RecordOK, PassOK, HubOK
<1>9. CASE MappingFails BY <1>9 DEF MappingFails, Fault, Handled, hub, FlagsOK, RecordOK, PassOK, HubOK
<1>10. CASE CallFails
  <2>1. UNCHANGED <<record, events, timer, lost>> /\ UNCHANGED hub BY <1>10 DEF CallFails, Fault
  <2>2. CASE pc # "deliver" BY <1>3, <1>10, <2>1, <2>2 DEF CallFails
  <2>3. CASE pc = "deliver"
    <3>1. PassOK' /\ queued' = TRUE BY <1>10, <2>3 DEF CallFails, Idle, PassOK, Newest
    <3> QED BY <2>1, <3>1 DEF hub, FlagsOK, RecordOK, HubOK
  <2> QED BY <2>2, <2>3
<1>11. CASE Restart BY <1>11 DEF Restart, Fault, Idle, Newest, hub, FlagsOK, RecordOK, PassOK, HubOK
<1>12. ASSUME NEW o \in Watched, Change(o) PROVE RecordOK(record)' /\ PassOK' /\ events' \subseteq Watched /\ now' = now
                                                /\ UNCHANGED <<queued, timer, lost>>
  BY <1>12 DEF Change, RecordOK, PassOK
<1>13. "run" \in Watched /\ "result" \in Watched /\ "config" \in Watched BY DEF Watched
<1>14. CASE SetCondition
  <2>1. run' \in RunType BY <1>14, ConditionSet
  <2>2. UNCHANGED <<result, config>> /\ Change("run") BY <1>14 DEF SetCondition
  <2> QED BY <1>12, <1>13, <2>1, <2>2 DEF FlagsOK, HubOK
<1>15. CASE ReferResult
  <2>1. run' \in RunType BY <1>15 DEF ReferResult, HubOK, RunType
  <2>2. UNCHANGED <<result, config>> /\ Change("run") BY <1>15 DEF ReferResult
  <2> QED BY <1>12, <1>13, <2>1, <2>2 DEF FlagsOK, HubOK
<1>16. CASE WriteResult
  <2>1. result' \in {"", "True", "False"} /\ UNCHANGED <<run, config>> /\ Change("result") BY <1>16 DEF WriteResult
  <2> QED BY <1>12, <1>13, <2>1 DEF FlagsOK, HubOK
<1>17. CASE RunExpires
  <2>1. run' = Absent /\ UNCHANGED <<result, config>> /\ Change("run") BY <1>17 DEF RunExpires
  <2> QED BY <1>12, <1>13, <2>1 DEF FlagsOK, HubOK
<1>18. CASE ConfigChanges
  <2>1. config' \in BOOLEAN /\ UNCHANGED <<run, result>> /\ Change("config") BY <1>18 DEF ConfigChanges
  <2> QED BY <1>12, <1>13, <2>1 DEF FlagsOK, HubOK
<1>19. CASE Tick
  <2>1. now' \in 1 .. MaxTime
    <3>1. now \in 1 .. MaxTime /\ MaxTime \in Nat BY BoundsAssumption DEF HubOK
    <3>2. now < MaxTime /\ now' = now + 1 BY <1>19 DEF Tick
    <3> QED BY <3>1, <3>2
  <2> QED BY <1>19, <2>1 DEF Tick, FlagsOK, RecordOK, PassOK, HubOK
<1> QED
  BY <1>1, <1>2, <1>4, <1>5, <1>6, <1>7, <1>8, <1>9, <1>10, <1>11, <1>14, <1>15, <1>16, <1>17, <1>18, <1>19
  DEF Next, ReconcileStep

(* Every variable keeps its shape, and no record has an action or an alert  *)
(* before it has a condition (syncHubRunStatus returns early without one).  *)
THEOREM TypeCorrect == Spec => []TypeOK
<1>1. Init => Shape BY ShapeInit
<1>2. Shape /\ [Next]_vars => Shape' BY ShapeStep
<1>3. Shape => TypeOK BY ShapeTypes
<1> QED BY <1>1, <1>2, <1>3, PTL DEF Spec

-----------------------------------------------------------------------------
(* Order of the conditions *)

(* Stamps lie in the past, and a type always has one or never has. *)
Stamped(list, t) ==
  \A k \in 1 .. Len(list) : list[k].time <= t /\ (list[k].time = 0 <=> list[k].type \in Unstamped)

(* The list has a stamp that is not before t. *)
Reaches(list, t) == t = 0 \/ \E k \in 1 .. Len(list) : list[k].time >= t

(* The record, and what a reconcile has read, are not ahead of the run; and *)
(* the record is not ahead of what the reconcile that runs has read.        *)
RunOrdered == run # Absent => Stamped(run.conditions, now) /\ Reaches(run.conditions, record.time)
ReadOrdered ==
  pc \in {"result", "patch"} =>
    record.time <= latest.time /\ (run # Absent => Reaches(run.conditions, latest.time))
OrderInv == RunOrdered /\ ReadOrdered

(* What the types say about times. *)
LEMMA Times ==
  ASSUME Shape
  PROVE  record.time \in Nat /\ latest.time \in Nat /\ now \in Nat /\ now > 0
<1>1. MaxTime \in Nat BY BoundsAssumption
<1>2. record.time \in 0 .. MaxTime BY DEF Shape, RecordOK, Record
<1>3. latest.time \in 0 .. MaxTime BY NewestTypes DEF Shape, PassOK
<1>4. now \in 1 .. MaxTime BY DEF Shape, HubOK
<1> QED BY <1>1, <1>2, <1>3, <1>4

(* A transition of a condition leaves the list with a stamp as late. *)
LEMMA TransitionReaches ==
  ASSUME Shape, SetCondition, Stamped(run.conditions, now)
  PROVE  /\ Stamped(run'.conditions, now)
         /\ \A t \in Nat : Reaches(run.conditions, t) => Reaches(run'.conditions, t)
<1> DEFINE list == run.conditions
           new == run'.conditions
<1>1. PICK c \in Condition :
        /\ c.time = IF c.type \in Unstamped THEN 0 ELSE now
        /\ run' \in RunType /\ run'.refers = run.refers
        /\ Len(new) >= Len(list)
        /\ \A k \in 1 .. Len(new) : new[k] = c \/ (k \in 1 .. Len(list) /\ new[k] = list[k])
        /\ \A k \in 1 .. Len(list) : new[k] = list[k] \/ (new[k] = c /\ list[k].type = c.type)
  BY ConditionSet
<1>2. now \in Nat /\ now > 0 /\ run \in RunType
  <2>1. run \in RunType BY DEF Shape, HubOK, SetCondition
  <2> QED BY <2>1, Times
<1>3. list \in Seq(Condition) /\ new \in Seq(Condition) BY <1>1, <1>2 DEF RunType
<1>4. Stamped(list, now) OBVIOUS
<1> HIDE DEF list, new
<1>5. \A k \in 1 .. Len(list) : list[k] \in Condition BY <1>3
<1>6. \A k \in 1 .. Len(list) : list[k].time \in Nat BY <1>5, Stamps
<1>7. c.time \in Nat /\ c.time <= now /\ (c.time = 0 <=> c.type \in Unstamped) BY <1>1, <1>2
<1>8. Stamped(new, now) BY <1>1, <1>4, <1>7 DEF Stamped
<1>9. ASSUME NEW t \in Nat, Reaches(list, t) PROVE Reaches(new, t)
  <2>1. CASE t = 0 BY <2>1 DEF Reaches
  <2>2. CASE t # 0
    <3>1. PICK k \in 1 .. Len(list) : list[k].time >= t BY <1>9, <2>2 DEF Reaches
    <3>2. k \in 1 .. Len(new) BY <1>1, <1>3
    <3>3. list[k].time # 0 /\ list[k].time <= now /\ list[k].type \notin Unstamped
      BY <1>4, <1>6, <2>2, <3>1 DEF Stamped
    <3>4. new[k].time >= t
      <4>1. CASE new[k] = list[k] BY <3>1, <4>1
      <4>2. CASE new[k] = c /\ list[k].type = c.type
        <5>1. c.time = now BY <1>1, <3>3, <4>2
        <5> QED BY <1>2, <1>6, <3>1, <3>3, <4>2, <5>1
      <4> QED BY <1>1, <4>1, <4>2
    <3> QED BY <3>2, <3>4 DEF Reaches
  <2> QED BY <2>1, <2>2
<1> QED BY <1>2, <1>8, <1>9 DEF list, new

(* The latest condition is not before any stamp, and the list reaches it. *)
LEMMA LatestReaches ==
  ASSUME NEW list \in Seq(Condition), NEW t \in Nat, Reaches(list, t)
  PROVE  t <= LatestCondition(list).time /\ Reaches(list, LatestCondition(list).time)
<1> DEFINE l == LatestCondition(list)
<1>1. Found(l, list, Len(list)) BY LatestFound
<1>2. \A k \in 1 .. Len(list) : list[k] \in Condition OBVIOUS
<1>3. \A k \in 1 .. Len(list) : list[k].time \in Nat BY <1>2, Stamps
<1> HIDE DEF l
<1>4. l.time \in Nat BY <1>1 DEF Found
<1>5. t <= l.time BY <1>1, <1>3, <1>4 DEF Found, Reaches
<1>6. Reaches(list, l.time)
  <2>1. CASE l = NoCondition BY <2>1, Stamps DEF Reaches
  <2>2. CASE l # NoCondition
    <3>1. PICK k \in 1 .. Len(list) : list[k] = l BY <1>1, <2>2 DEF Found
    <3>2. list[k].time >= l.time BY <1>4, <3>1
    <3> QED BY <3>2 DEF Reaches
  <2> QED BY <2>1, <2>2
<1> QED BY <1>5, <1>6 DEF l

LEMMA OrderInit == Init => OrderInv
<1> SUFFICES ASSUME Init PROVE OrderInv OBVIOUS
<1>1. run.conditions = <<>> /\ record.time = 0 /\ pc = "idle" BY DEF Init, NewRecord
<1>2. Len(<<>>) = 0 /\ \A k \in 1 .. 0 : FALSE OBVIOUS
<1>3. Stamped(run.conditions, now) BY <1>1, <1>2 DEF Stamped
<1> QED BY <1>1, <1>3 DEF OrderInv, RunOrdered, ReadOrdered, Reaches

(* The only change of a record's time is that of PatchStatus. *)
LEMMA TimeChange ==
  ASSUME Shape, [Next]_vars
  PROVE  record'.time = record.time \/ (PatchStatus /\ record'.time = latest.time)
<1>1. CASE PatchStatus
  <2>1. record' = Synced(record, latest, action) BY <1>1 DEF PatchStatus, PutRecord
  <2> QED BY <1>1, <2>1 DEF Synced, Shape, RecordOK, Record
<1>2. CASE Deliver
  <2>1. record' = [record EXCEPT !.alert = Firing] BY <1>2 DEF Deliver, PutRecord
  <2> QED BY <2>1 DEF Shape, RecordOK, Record
<1>3. CASE ~PatchStatus /\ ~Deliver
  <2>1. record' = record
    BY <1>3 DEF Next, vars, ReconcileStep, EventStep, ReadRun, ReadResult, RecordEvent, ListedEvent, ResultEvent,
       TimerExpires, Resync, MappingFails, CallFails, Restart, Fault, SetCondition, ReferResult, WriteResult,
       RunExpires, ConfigChanges, Change, Tick
  <2> QED BY <2>1
<1> QED BY <1>1, <1>2, <1>3

LEMMA OrderStep == Shape /\ OrderInv /\ [Next]_vars => OrderInv'
<1> SUFFICES ASSUME Shape, OrderInv, [Next]_vars PROVE OrderInv' OBVIOUS
<1> USE DEF OrderInv
<1>t. record.time \in Nat /\ latest.time \in Nat /\ now \in Nat BY Times
<1>1. CASE ReadRun
  <2>1. record' = record /\ run' = run /\ now' = now BY <1>1 DEF ReadRun, hub
  <2>2. RunOrdered' BY <2>1 DEF RunOrdered
  <2>3. ReadOrdered'
    <3>1. CASE run = Absent BY <1>1, <3>1 DEF ReadRun, ReadOrdered
    <3>2. CASE run # Absent
      <4>1. run.conditions \in Seq(Condition) BY <3>2 DEF Shape, HubOK, RunType
      <4>2. Reaches(run.conditions, record.time) BY <3>2 DEF RunOrdered
      <4>3. latest' = LatestCondition(run.conditions) BY <1>1, <3>2 DEF ReadRun
      <4>4. record.time <= latest'.time /\ Reaches(run.conditions, latest'.time) BY <1>t, <4>1, <4>2, <4>3, LatestReaches
      <4> QED BY <2>1, <4>4 DEF ReadOrdered
    <3> QED BY <3>1, <3>2
  <2> QED BY <2>2, <2>3
<1>2. CASE PatchStatus
  <2>1. run' = run /\ now' = now /\ pc' = "deliver" /\ pc = "patch" BY <1>2 DEF PatchStatus, hub
  <2>2. record'.time = record.time \/ record'.time = latest.time BY TimeChange
  <2>3. RunOrdered' BY <2>1, <2>2 DEF RunOrdered, ReadOrdered
  <2> QED BY <2>1, <2>3 DEF ReadOrdered
<1>3. CASE SetCondition
  <2>1. run # Absent /\ UNCHANGED <<record, pc, latest, now>> BY <1>3 DEF SetCondition, Change
  <2>2. Stamped(run.conditions, now) BY <2>1 DEF RunOrdered
  <2>3. Stamped(run'.conditions, now) /\ \A t \in Nat : Reaches(run.conditions, t) => Reaches(run'.conditions, t)
    BY <1>3, <2>2, TransitionReaches
  <2> QED BY <1>t, <2>1, <2>3 DEF RunOrdered, ReadOrdered
<1>4. CASE RunExpires
  <2>1. run' = Absent /\ UNCHANGED <<record, pc, latest>> BY <1>4 DEF RunExpires, Change
  <2> QED BY <2>1 DEF RunOrdered, ReadOrdered
<1>5. CASE ReferResult
  <2>1. run # Absent /\ run \in RunType BY <1>5 DEF ReferResult, Shape, HubOK
  <2>2. run'.conditions = run.conditions /\ UNCHANGED <<record, pc, latest, now>>
    BY <1>5, <2>1 DEF ReferResult, Change, RunType
  <2> QED BY <2>1, <2>2 DEF RunOrdered, ReadOrdered
<1>6. CASE Tick
  <2>1. now' = now + 1 /\ UNCHANGED <<run, record, pc, latest>> BY <1>6 DEF Tick
  <2>2. ASSUME run # Absent PROVE Stamped(run.conditions, now')
    <3> DEFINE list == run.conditions
    <3>1. \A k \in 1 .. Len(list) : list[k] \in Condition
      <4>1. list \in Seq(Condition) BY <2>2 DEF Shape, HubOK, RunType
      <4> HIDE DEF list
      <4> QED BY <4>1
    <3>2. \A k \in 1 .. Len(list) : list[k].time \in Nat BY <3>1, Stamps
    <3>3. Stamped(run.conditions, now) BY <2>2 DEF RunOrdered
    <3> QED BY <1>t, <2>1, <3>2, <3>3 DEF Stamped
  <2> QED BY <2>1, <2>2 DEF RunOrdered, ReadOrdered
<1>7. CASE ~ReadRun /\ ~PatchStatus /\ ~SetCondition /\ ~RunExpires /\ ~ReferResult /\ ~Tick
  <2>1. run' = run /\ now' = now
    BY <1>7 DEF Next, vars, ReconcileStep, EventStep, ReadResult, Deliver, RecordEvent, ListedEvent, ResultEvent,
       TimerExpires, Resync, MappingFails, CallFails, Restart, Fault, WriteResult, ConfigChanges, Change, hub
  <2>2. record'.time = record.time BY <1>7, TimeChange
  <2>3. pc' \in {"result", "patch"} => pc \in {"result", "patch"} /\ latest' = latest
    BY <1>7 DEF Next, vars, ReconcileStep, EventStep, ReadResult, SyncFails, Deliver, Idle, RecordEvent, ListedEvent,
       ResultEvent, TimerExpires, Resync, MappingFails, CallFails, Restart, WriteResult, ConfigChanges, Change
  <2> QED BY <2>1, <2>2, <2>3 DEF RunOrdered, ReadOrdered
<1> QED BY <1>1, <1>2, <1>3, <1>4, <1>5, <1>6, <1>7

(* latestCondition, run on a list that was read before a later transition,  *)
(* never takes the record back: a record's condition is replaced only by    *)
(* one that is not older, whatever happens between the read of the run and  *)
(* the patch of the status.                                                 *)
THEOREM ConditionsInOrder == Spec => ConditionNeverOlder
<1> DEFINE Inv == Shape /\ OrderInv
<1>1. Init => Inv BY ShapeInit, OrderInit
<1>2. Inv /\ [Next]_vars => Inv' BY ShapeStep, OrderStep
<1>3. Inv /\ [Next]_vars => [record'.time >= record.time]_vars
  <2> SUFFICES ASSUME Inv, [Next]_vars PROVE record'.time >= record.time OBVIOUS
  <2>1. record.time \in Nat /\ latest.time \in Nat BY Times
  <2>2. CASE record'.time = record.time BY <2>1, <2>2
  <2>3. CASE PatchStatus /\ record'.time = latest.time
    <3>1. record.time <= latest.time BY <2>3 DEF PatchStatus, OrderInv, ReadOrdered
    <3> QED BY <2>1, <2>3, <3>1
  <2> QED BY <2>2, <2>3, TimeChange
<1> QED BY <1>1, <1>2, <1>3, PTL DEF Spec, ConditionNeverOlder

-----------------------------------------------------------------------------
(* At rest the record agrees with the hub *)

(* Something is left that will reconcile the record (or a map function has *)
(* dropped it): for its alert, an event on a result does not count.        *)
Busy == lost = TRUE \/ queued = TRUE \/ timer = TRUE \/ events # {}
AlertBusy == lost = TRUE \/ queued = TRUE \/ timer = TRUE \/ \E o \in {"record", "run", "config"} : o \in events

(* The action the latest condition c of the run asks for. *)
ActionOf(c) == IF c.type # "Analyzed" THEN "False" ELSE IF run.refers THEN result ELSE ""

Shows ==
  \A c \in ToSet(run.conditions) :
    IsLatest(c, run.conditions) => record.type = c.type /\ record.action = ActionOf(c)

(* What the reconcile has read is what the hub has. *)
ReadIsCurrent ==
  /\ latest = LatestCondition(run.conditions)
  /\ pc = "result" => run.refers = TRUE
  /\ pc = "patch" => action = IF run.refers THEN result ELSE ""

(* The renewal timer is reset when a reconcile starts. *)
TimerOff == pc # "idle" => timer = FALSE
AlertFollows == pc = "idle" => AlertBusy \/ record.alert = Firing
Current ==
  run # Absent =>
    /\ pc \in {"idle", "deliver"} => Busy \/ Shows
    /\ pc \in {"result", "patch"} => Busy \/ ReadIsCurrent

SyncInv == TimerOff /\ AlertFollows /\ Current

LEMMA SyncInit == Init => SyncInv
BY DEF Init, SyncInv, TimerOff, AlertFollows, AlertBusy, Current, Busy

LEMMA TimerStep == Shape /\ TimerOff /\ [Next]_vars => TimerOff'
<1> SUFFICES ASSUME Shape, TimerOff, [Next]_vars PROVE TimerOff' OBVIOUS
<1> USE DEF TimerOff
<1>1. CASE ReconcileStep
  BY <1>1 DEF ReconcileStep, ReadRun, ReadResult, SyncFails, Idle, PatchStatus, Deliver
<1>2. CASE ~ReconcileStep
  BY <1>2 DEF Next, vars, EventStep, RecordEvent, ListedEvent, ResultEvent, TimerExpires, Resync, MappingFails,
     CallFails, SyncFails, Idle, Restart, SetCondition, ReferResult, WriteResult, RunExpires, ConfigChanges, Change, Tick
<1> QED BY <1>1, <1>2

(* Whatever ends a reconcile early leaves a request, and every event that   *)
(* is handled with a run in place does, too.                                *)
LEMMA Requests ==
  ASSUME [Next]_vars
  PROVE  \/ UNCHANGED <<run, result, config, record, events, queued, timer, pc, latest, action, lost>>
         \/ ReadRun \/ PatchStatus \/ Deliver
         \/ ReadResult /\ result # Absent
         \/ ResultEvent
         \/ queued' = TRUE \/ lost' = TRUE \/ \E o \in {"record", "run", "config"} : o \in events'
         \/ WriteResult
<1>1. CASE ReconcileStep BY <1>1 DEF ReconcileStep, ReadResult, SyncFails
<1>2. CASE EventStep BY <1>2 DEF EventStep, RecordEvent, ListedEvent, TimerExpires
<1>3. CASE Resync \/ MappingFails \/ CallFails \/ Restart
  BY <1>3 DEF Resync, MappingFails, CallFails, SyncFails, Restart, Watched
<1>4. CASE SetCondition \/ ReferResult \/ RunExpires \/ ConfigChanges
  BY <1>4 DEF SetCondition, ReferResult, RunExpires, ConfigChanges, Change
<1>5. CASE Tick \/ UNCHANGED vars BY <1>5 DEF Tick, vars
<1> QED BY <1>1, <1>2, <1>3, <1>4, <1>5 DEF Next

LEMMA AlertStep == Shape /\ AlertFollows /\ [Next]_vars => AlertFollows'
<1> SUFFICES ASSUME Shape, AlertFollows, [Next]_vars PROVE AlertFollows' OBVIOUS
<1>1. CASE UNCHANGED <<run, result, config, record, events, queued, timer, pc, latest, action, lost>>
  BY <1>1 DEF AlertFollows, AlertBusy, Firing
<1>2. CASE ReadRun \/ PatchStatus \/ (ReadResult /\ result # Absent)
  <2>1. pc' # "idle" BY <1>2 DEF ReadRun, PatchStatus, ReadResult
  <2> QED BY <2>1 DEF AlertFollows
<1>3. CASE Deliver
  <2>1. record' = [record EXCEPT !.alert = Firing] /\ config' = config BY <1>3 DEF Deliver, PutRecord, hub
  <2>2. record'.alert = Firing /\ record'.action = record.action
    <3> DEFINE f == Firing
    <3> HIDE DEF f
    <3>1. record' = [record EXCEPT !.alert = f] BY <2>1 DEF f
    <3>2. record'.alert = f /\ record'.action = record.action BY <3>1 DEF Shape, RecordOK, Record
    <3> QED BY <3>2 DEF f
  <2>3. Firing' = Firing BY <2>1, <2>2 DEF Firing
  <2> QED BY <2>2, <2>3, Zenon DEF AlertFollows
<1>4. CASE ResultEvent
  <2>1. UNCHANGED <<record, config, timer, pc, lost>> BY <1>4 DEF ResultEvent, hub
  <2>2. queued = TRUE => queued' = TRUE BY <1>4 DEF ResultEvent
  <2>3. \A o \in {"record", "run", "config"} : o \in events => o \in events' BY <1>4 DEF ResultEvent, Handled
  <2>4. AlertBusy => AlertBusy' BY <2>1, <2>2, <2>3 DEF AlertBusy
  <2> QED BY <2>1, <2>4 DEF AlertFollows, Firing
<1>5. CASE WriteResult
  <2>1. UNCHANGED <<record, config, queued, timer, pc, lost>> /\ events \subseteq events'
    BY <1>5 DEF WriteResult, Change
  <2>2. AlertBusy => AlertBusy' BY <2>1 DEF AlertBusy
  <2> QED BY <2>1, <2>2 DEF AlertFollows, Firing
<1>6. CASE queued' = TRUE \/ lost' = TRUE \/ \E o \in {"record", "run", "config"} : o \in events'
  BY <1>6 DEF AlertFollows, AlertBusy
<1> QED BY <1>1, <1>2, <1>3, <1>4, <1>5, <1>6, Requests

(* The patch writes what the hub has, if that is what was read. *)
LEMMA PatchShows ==
  ASSUME Shape, PatchStatus, run # Absent, ReadIsCurrent
  PROVE  Shows'
<1>1. run' = run /\ result' = result /\ record' = Synced(record, latest, action) /\ pc = "patch"
  BY DEF PatchStatus, PutRecord, hub
<1> DEFINE list == run.conditions
<1>2. list \in Seq(Condition) BY DEF Shape, HubOK, RunType
<1>3. latest = LatestCondition(list) /\ action = IF run.refers THEN result ELSE "" BY <1>1 DEF ReadIsCurrent
<1>4. ASSUME NEW c \in ToSet(list), IsLatest(c, list)
      PROVE  record'.type = c.type /\ record'.action = ActionOf(c)
  <2>1. c = latest BY <1>2, <1>3, <1>4, LatestIsLatest
  <2>2. c \in Condition
    <3> HIDE DEF list
    <3> QED BY <1>2 DEF ToSet
  <2>3. c.type # "" BY <2>2, TypesAssumption DEF Condition
  <2>4. record' = [record EXCEPT !.type = c.type, !.time = c.time,
                                 !.action = IF c.type = "Analyzed" THEN action ELSE "False"]
    BY <1>1, <2>1, <2>3 DEF Synced
  <2>5. record'.type = c.type /\ record'.action = IF c.type = "Analyzed" THEN action ELSE "False"
    BY <2>4 DEF Shape, RecordOK, Record
  <2> QED BY <1>3, <2>5 DEF ActionOf
<1> QED BY <1>1, <1>4 DEF Shows, ActionOf

LEMMA CurrentStep == Shape /\ TimerOff /\ Current /\ [Next]_vars => Current'
<1> SUFFICES ASSUME Shape, TimerOff, Current, [Next]_vars, (run # Absent)'
             PROVE  /\ pc' \in {"idle", "deliver"} => Busy' \/ Shows'
                    /\ pc' \in {"result", "patch"} => Busy' \/ ReadIsCurrent'
  BY DEF Current
<1>1. CASE UNCHANGED <<run, result, config, record, events, queued, timer, pc, latest, action, lost>>
  BY <1>1 DEF Current, Busy, Shows, ActionOf, ReadIsCurrent
<1>2. CASE ReadRun
  <2>1. run' = run /\ result' = result /\ run # Absent BY <1>2 DEF ReadRun, hub
  <2>2. /\ latest' = LatestCondition(run.conditions) /\ action' = ""
        /\ pc' = IF run.refers THEN "result" ELSE "patch"
    BY <1>2, <2>1 DEF ReadRun
  <2>3. run.refers \in BOOLEAN BY <2>1 DEF Shape, HubOK, RunType
  <2>4. ReadIsCurrent'
    <3>1. CASE run.refers = TRUE BY <2>1, <2>2, <3>1 DEF ReadIsCurrent
    <3>2. CASE run.refers = FALSE BY <2>1, <2>2, <3>2 DEF ReadIsCurrent
    <3> QED BY <2>3, <3>1, <3>2
  <2> QED BY <2>2, <2>4
<1>3. CASE ReadResult /\ result # Absent
  <2>1. /\ UNCHANGED <<run, result, events, queued, timer, lost, latest>>
        /\ pc = "result" /\ pc' = "patch" /\ action' = result
    BY <1>3 DEF ReadResult, hub
  <2>2. Busy => Busy' BY <2>1 DEF Busy
  <2>3. ReadIsCurrent => ReadIsCurrent' BY <2>1 DEF ReadIsCurrent
  <2> QED BY <2>1, <2>2, <2>3 DEF Current
<1>4. CASE PatchStatus
  <2>1. run # Absent /\ pc = "patch" /\ pc' = "deliver" /\ UNCHANGED <<queued, timer, lost>> /\ events \subseteq events'
    BY <1>4 DEF PatchStatus, PutRecord, hub
  <2>2. Busy => Busy' BY <2>1 DEF Busy
  <2>3. ReadIsCurrent => Shows' BY <1>4, <2>1, PatchShows
  <2> QED BY <2>1, <2>2, <2>3 DEF Current
<1>5. CASE Deliver
  <2>1. /\ pc = "deliver" /\ pc' = "idle" /\ UNCHANGED <<run, result, queued, lost>>
        /\ events \subseteq events' /\ timer = FALSE
    BY <1>5 DEF Deliver, PutRecord, Idle, hub, TimerOff
  <2>2. Busy => Busy' BY <2>1 DEF Busy
  <2>3. record'.type = record.type /\ record'.action = record.action
    <3>1. record' = [record EXCEPT !.alert = Firing] BY <1>5 DEF Deliver, PutRecord
    <3> QED BY <3>1 DEF Shape, RecordOK, Record
  <2>4. Shows => Shows' BY <2>1, <2>3 DEF Shows, ActionOf
  <2> QED BY <2>1, <2>2, <2>4 DEF Current
<1>6. CASE ResultEvent
  <2>1. queued' = TRUE BY <1>6 DEF ResultEvent, hub
  <2> QED BY <2>1 DEF Busy
<1>7. CASE WriteResult
  <2>1. "result" \in events' BY <1>7 DEF WriteResult, Change
  <2> QED BY <2>1 DEF Busy
<1>8. CASE queued' = TRUE \/ lost' = TRUE \/ \E o \in {"record", "run", "config"} : o \in events'
  BY <1>8 DEF Busy
<1> QED BY <1>1, <1>2, <1>3, <1>4, <1>5, <1>6, <1>7, <1>8, Requests

(* When no event, request or timer is left and no map function has dropped  *)
(* an event, the record shows the latest condition of the run, the action   *)
(* its result requires, and an alert exactly when one is due: no change of  *)
(* the hub between the reads of a reconcile and its patch is missed.        *)
THEOREM SyncedAtRest == Spec => []RestIsSynced
<1> DEFINE Inv == Shape /\ SyncInv
<1>1. Init => Inv BY ShapeInit, SyncInit
<1>2. Inv /\ [Next]_vars => Inv' BY ShapeStep, TimerStep, AlertStep, CurrentStep DEF SyncInv
<1>3. Inv => RestIsSynced
  <2> SUFFICES ASSUME Inv, events = {}, ~queued, ~timer, pc = "idle", ~lost PROVE Agrees BY DEF RestIsSynced
  <2>1. ~Busy BY DEF Busy
  <2>2. ~AlertBusy BY DEF AlertBusy
  <2>3. record.alert = Firing BY <2>2 DEF SyncInv, AlertFollows
  <2>4. run # Absent => Shows BY <2>1 DEF SyncInv, Current
  <2> QED BY <2>3, <2>4, Zenon DEF Agrees, Shows, ActionOf
<1> QED BY <1>1, <1>2, <1>3, PTL DEF Spec
=============================================================================
