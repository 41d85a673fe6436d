---------------------- MODULE AlertmanagerConfigProofs ----------------------
(***************************************************************************)
(* Proofs about AlertmanagerConfig, for lists of any length.               *)
(*                                                                         *)
(* What the filtering loop of removeReceiver and removeRoute computes is   *)
(* shown once, in KeptSame: the entries to keep, in their order.  It is    *)
(* by induction on the length of the list, which SetInduction reduces to   *)
(* the well-foundedness of the natural numbers.  All properties of the     *)
(* removal follow from it.                                                 *)
(***************************************************************************)
EXTENDS AlertmanagerConfig, SequenceTheorems, WellFoundedInduction, TLAPS

-----------------------------------------------------------------------------
(* Induction and recursion over a list *)

LEMMA Least ==
  ASSUME NEW S, S \subseteq Nat, S # {}
  PROVE  \E x \in S : \A y \in S : x <= y
<1> DEFINE R == OpToRel(<, Nat)
<1>1. IsWellFoundedOn(R, Nat) BY NatLessThanWellFounded
<1> HIDE DEF R
<1>2. PICK x \in S : \A y \in S : ~(<<y, x>> \in R) BY <1>1, WFMin
<1>3. ASSUME NEW y \in S PROVE x <= y
  <2>1. y \in Nat /\ x \in Nat BY <1>2
  <2>2. ~(<<y, x>> \in R) BY <1>2
  <2>3. y < x => <<y, x>> \in R BY <2>1 DEF R, OpToRel
  <2> QED BY <2>1, <2>2, <2>3
<1> QED BY <1>3

LEMMA SetInduction ==
  ASSUME NEW S, 0 \in S, \A n \in Nat : n \in S => n + 1 \in S
  PROVE  Nat \subseteq S
<1> DEFINE T == Nat \ S
<1> SUFFICES ASSUME T # {} PROVE FALSE OBVIOUS
<1>1. T \subseteq Nat OBVIOUS
<1>2. PICK x \in T : \A y \in T : x <= y
  <2> HIDE DEF T
  <2> QED BY <1>1, Least
<1>3. x \in Nat /\ x # 0 BY <1>2
<1>4. x - 1 \in Nat /\ x - 1 \notin T BY <1>2, <1>3
<1> QED BY <1>2, <1>3, <1>4

(* The loop: f[k] is the copy after k entries of a list over A. *)
Loop(f, A, list, entries) ==
  /\ f \in [0 .. Len(list) -> Seq(A)]
  /\ f[0] = <<>>
  /\ \A k \in 1 .. Len(list) : f[k] = IF list[k] \in entries THEN Append(f[k - 1], list[k]) ELSE f[k - 1]
  /\ Kept(list, entries) = f[Len(list)]

LEMMA KeptLoop ==
  ASSUME NEW A, NEW list \in Seq(A), NEW entries
  PROVE  \E f : Loop(f, A, list, entries)
<1> DEFINE n == Len(list)
           After(g, k) == IF k = 0 THEN <<>> ELSE IF list[k] \in entries THEN Append(g[k - 1], list[k]) ELSE g[k - 1]
           Is(g) == g = [k \in 0 .. Len(list) |->
                           IF k = 0 THEN <<>> ELSE IF list[k] \in entries THEN Append(g[k - 1], list[k]) ELSE g[k - 1]]
           Good(m, g) == /\ g \in [0 .. m -> Seq(A)] /\ g[0] = <<>>
                         /\ \A k \in 1 .. m : g[k] = IF list[k] \in entries THEN Append(g[k - 1], list[k]) ELSE g[k - 1]
           Some == {m \in Nat : m <= n => \E g : Good(m, g)}
<1>1. n \in Nat /\ <<>> \in Seq(A) /\ \A k \in 1 .. n : list[k] \in A OBVIOUS
<1>2. 0 \in Some
  <2> DEFINE e == <<>>
             h == [k \in 0 .. 0 |-> e]
  <2>1. e \in Seq(A) BY <1>1
  <2>2. h \in [0 .. 0 -> Seq(A)] /\ h[0] = e
    <3> HIDE DEF e
    <3> QED BY <2>1
  <2> HIDE DEF h
  <2>3. Good(0, h) BY <2>2
  <2> QED BY <2>3
<1>3. ASSUME NEW m \in Nat, m \in Some PROVE m + 1 \in Some
  <2> SUFFICES ASSUME m + 1 <= n PROVE \E g : Good(m + 1, g)
    <3> HIDE DEF Good
    <3> QED OBVIOUS
  <2>1. PICK g : Good(m, g) BY <1>3
  <2> DEFINE last == IF list[m + 1] \in entries THEN Append(g[m], list[m + 1]) ELSE g[m]
             h == [k \in 0 .. m + 1 |-> IF k = m + 1 THEN last ELSE g[k]]
  <2>2. g[m] \in Seq(A) /\ list[m + 1] \in A BY <1>1, <2>1
  <2>3. last \in Seq(A) BY <2>2
  <2>4. h \in [0 .. m + 1 -> Seq(A)] BY <2>1, <2>3
  <2>5. h[0] = <<>> BY <2>1
  <2>6. ASSUME NEW k \in 1 .. m + 1
        PROVE  h[k] = IF list[k] \in entries THEN Append(h[k - 1], list[k]) ELSE h[k - 1]
    <3>1. h[k - 1] = g[k - 1] BY <2>6
    <3> HIDE DEF h
    <3>2. CASE k = m + 1
      <4>1. h[k] = last BY <3>2 DEF h
      <4>2. k - 1 = m BY <3>2
      <4> QED BY <3>1, <3>2, <4>1, <4>2
    <3>3. CASE k # m + 1
      <4>1. k \in 1 .. m BY <3>3
      <4>2. h[k] = g[k] BY <3>3 DEF h
      <4> QED BY <2>1, <3>1, <4>1, <4>2
    <3> QED BY <3>2, <3>3
  <2> HIDE DEF h
  <2> QED BY <2>4, <2>5, <2>6
<1> HIDE DEF Some
<1>4. Nat \subseteq Some BY <1>2, <1>3, SetInduction
<1>5. PICK f : Good(n, f) BY <1>1, <1>4 DEF Some
<1>6. Is(f)
  <2>1. ASSUME NEW k \in 0 .. n PROVE f[k] = After(f, k)
    <3>1. CASE k = 0 BY <1>5, <3>1
    <3>2. CASE k # 0
      <4>1. k \in 1 .. n BY <1>1, <3>2
      <4> QED BY <1>5, <3>2, <4>1
    <3> QED BY <3>1, <3>2
  <2>2. f = [k \in 0 .. n |-> f[k]] BY <1>5
  <2> QED BY <2>1, <2>2
<1> DEFINE kept[k \in 0 .. Len(list)] ==
             IF k = 0 THEN <<>> ELSE IF list[k] \in entries THEN Append(kept[k - 1], list[k]) ELSE kept[k - 1]
<1>7. Is(kept) BY <1>6
<1>8. Kept(list, entries) = kept[n] BY DEF Kept
<1>9. \A k \in 0 .. n : kept[k] = After(kept, k)
  <2> HIDE DEF kept
  <2> QED BY <1>7
<1> HIDE DEF kept
<1> DEFINE S == {k \in Nat : k <= n => kept[k] = f[k]}
<1>10. 0 \in S BY <1>1, <1>5, <1>9
<1>11. ASSUME NEW k \in Nat, k \in S PROVE k + 1 \in S
  <2> SUFFICES ASSUME k + 1 <= n PROVE kept[k + 1] = f[k + 1] OBVIOUS
  <2>1. k + 1 \in 1 .. n /\ k + 1 \in 0 .. n /\ (k + 1) - 1 = k BY <1>1
  <2>2. kept[k] = f[k] BY <1>1, <1>11
  <2>3. kept[k + 1] = After(kept, k + 1) BY <1>9, <2>1
  <2> QED BY <1>5, <2>1, <2>2, <2>3
<1> HIDE DEF S
<1>12. Nat \subseteq S BY <1>10, <1>11, SetInduction
<1>13. kept[n] = f[n] BY <1>1, <1>12 DEF S
<1>14. Loop(f, A, list, entries) BY <1>5, <1>8, <1>13 DEF Loop
<1> QED BY <1>14

(* What the loop computes: the entries to keep, all of them, in their       *)
(* order.  The entry at k is copied to the place Len(f[k]).                 *)
LEMMA KeptSame ==
  ASSUME NEW A, NEW list \in Seq(A), NEW entries
  PROVE  /\ Kept(list, entries) \in Seq(A)
         /\ \A i \in 1 .. Len(Kept(list, entries)) : Kept(list, entries)[i] \in entries
         /\ SameEntries(list, Kept(list, entries), entries)
<1> DEFINE n == Len(list)
           P == Positions(list, entries)
<1>0. PICK f : Loop(f, A, list, entries) BY KeptLoop
<1>1. /\ f \in [0 .. n -> Seq(A)] /\ f[0] = <<>>
      /\ \A k \in 1 .. n : f[k] = IF list[k] \in entries THEN Append(f[k - 1], list[k]) ELSE f[k - 1]
      /\ Kept(list, entries) = f[n]
  BY <1>0 DEF Loop
<1>2. n \in Nat /\ P = {k \in 1 .. n : list[k] \in entries} BY DEF Positions
<1> DEFINE Copied(m) ==
             /\ \A k \in P : k <= m => Len(f[k]) \in 1 .. Len(f[m]) /\ f[m][Len(f[k])] = list[k]
             /\ \A j, k \in P : j < k /\ k <= m => Len(f[j]) < Len(f[k])
             /\ \A i \in 1 .. Len(f[m]) : \E k \in P : k <= m /\ Len(f[k]) = i
           S == {m \in Nat : m <= n => Copied(m)}
<1> HIDE DEF n, P
<1>3. 0 \in S BY <1>1, <1>2
<1>4. ASSUME NEW m \in Nat, m \in S PROVE m + 1 \in S
  <2> SUFFICES ASSUME m + 1 <= n PROVE Copied(m + 1)
    <3> HIDE DEF Copied
    <3> QED OBVIOUS
  <2>1. Copied(m)
    <3> HIDE DEF Copied
    <3> QED BY <1>2, <1>4
  <2>2. f[m] \in Seq(A) /\ f[m + 1] \in Seq(A) /\ m + 1 \in 1 .. n /\ (m + 1) - 1 = m BY <1>1, <1>2
  <2>3. CASE list[m + 1] \notin entries
    <3>1. f[m + 1] = f[m] BY <1>1, <2>2, <2>3
    <3>2. ASSUME NEW k \in P, k <= m + 1 PROVE k <= m
      <4>1. k \in Nat /\ k # m + 1 BY <1>2, <2>3
      <4> QED BY <3>2, <4>1
    <3> QED BY <1>2, <2>1, <3>1, <3>2
  <2>4. CASE list[m + 1] \in entries
    <3>1. f[m + 1] = Append(f[m], list[m + 1]) BY <1>1, <2>2, <2>4
    <3>2. /\ Len(f[m + 1]) = Len(f[m]) + 1 /\ f[m + 1][Len(f[m]) + 1] = list[m + 1]
          /\ \A i \in 1 .. Len(f[m]) : f[m + 1][i] = f[m][i]
      BY <2>2, <3>1
    <3>3. m + 1 \in P /\ \A k \in P : k \in Nat /\ (k <= m + 1 => k <= m \/ k = m + 1) BY <1>2, <2>2, <2>4
    <3>4. Len(f[m]) \in Nat BY <2>2
    <3>5. ASSUME NEW k \in P, k <= m + 1
          PROVE  Len(f[k]) \in 1 .. Len(f[m + 1]) /\ f[m + 1][Len(f[k])] = list[k]
      <4>1. CASE k = m + 1 BY <3>2, <3>4, <4>1
      <4>2. CASE k <= m
        <5>1. Len(f[k]) \in 1 .. Len(f[m]) /\ f[m][Len(f[k])] = list[k] BY <2>1, <4>2
        <5> QED BY <3>2, <3>4, <5>1
      <4> QED BY <3>3, <3>5, <4>1, <4>2
    <3>6. \A j, k \in P : j < k /\ k <= m + 1 => Len(f[j]) < Len(f[k])
      BY <2>1, <3>2, <3>3, <3>4
    <3>7. \A i \in 1 .. Len(f[m + 1]) : \E k \in P : k <= m + 1 /\ Len(f[k]) = i
      <4> SUFFICES ASSUME NEW i \in 1 .. Len(f[m + 1]) PROVE \E k \in P : k <= m + 1 /\ Len(f[k]) = i OBVIOUS
      <4>1. CASE i = Len(f[m]) + 1 BY <3>2, <3>3, <4>1
      <4>2. CASE i # Len(f[m]) + 1
        <5>1. i \in 1 .. Len(f[m]) BY <3>2, <3>4, <4>2
        <5>2. PICK k \in P : k <= m /\ Len(f[k]) = i BY <2>1, <5>1
        <5> QED BY <3>3, <5>2
      <4> QED BY <4>1, <4>2
    <3> QED BY <3>5, <3>6, <3>7
  <2> QED BY <2>3, <2>4
<1> HIDE DEF S
<1>5. Nat \subseteq S BY <1>3, <1>4, SetInduction
<1>6. Copied(n) BY <1>2, <1>5 DEF S
<1> DEFINE new == f[n]
           to == [k \in P |-> Len(f[k])]
<1>7. new \in Seq(A) /\ new = Kept(list, entries) /\ DOMAIN new = 1 .. Len(new) BY <1>1, <1>2
<1>8. \A i \in 1 .. Len(new) : new[i] \in entries BY <1>2, <1>6
<1>9. Positions(new, entries) = 1 .. Len(new)
  <2> HIDE DEF new
  <2> QED BY <1>7, <1>8 DEF Positions
<1>10. SameEntries(list, new, entries)
  <2>1. to \in [P -> Positions(new, entries)] BY <1>2, <1>6, <1>9
  <2>2. /\ \A k \in P : new[to[k]] = list[k]
        /\ \A j, k \in P : j < k => to[j] < to[k]
        /\ \A i \in Positions(new, entries) : \E k \in P : to[k] = i
    BY <1>2, <1>6, <1>9
  <2> HIDE DEF new, to
  <2> QED BY <2>1, <2>2 DEF SameEntries, P
<1> HIDE DEF new
<1> QED BY <1>7, <1>8, <1>10

-----------------------------------------------------------------------------
(* The edits *)

LEMMA MinFact ==
  ASSUME NEW S, S \subseteq Nat, S # {}
  PROVE  Min(S) \in S
  BY Least DEF Min

(* An upsert appends the entry, or puts it in the place of one of its name. *)
LEMMA UpsertedReceiver ==
  ASSUME NEW list \in Seq(Receiver)
  PROVE  \/ /\ \A k \in 1 .. Len(list) : list[k].name # Ours
            /\ UpsertReceiver(list) = Append(list, WebhookReceiver)
         \/ \E at \in 1 .. Len(list) : /\ list[at].name = Ours
                                       /\ UpsertReceiver(list) = [list EXCEPT ![at] = WebhookReceiver]
<1> DEFINE I == {k \in 1 .. Len(list) : list[k].name = Ours}
           at == IF I # {} THEN Min(I) ELSE 0
<1>1. UpsertReceiver(list) = IF at = 0 THEN Append(list, WebhookReceiver) ELSE [list EXCEPT ![at] = WebhookReceiver]
  BY DEF UpsertReceiver, SelectInSeq
<1>2. I \subseteq Nat /\ 0 \notin I OBVIOUS
<1>3. CASE I = {} BY <1>1, <1>3
<1>4. CASE I # {}
  <2>1. Min(I) \in I
    <3> HIDE DEF I
    <3> QED BY <1>2, <1>4, MinFact
  <2>2. at \in I BY <1>4, <2>1
  <2> HIDE DEF at
  <2> QED BY <1>1, <1>2, <2>2
<1> QED BY <1>3, <1>4

LEMMA UpsertedRoute ==
  ASSUME NEW list \in Seq(Route)
  PROVE  \/ UpsertRoute(list) = Append(list, ContinueRoute)
         \/ \E at \in 1 .. Len(list) : /\ list[at].receiver = Ours
                                       /\ UpsertRoute(list) = [list EXCEPT ![at] = ContinueRoute]
<1> DEFINE I == {k \in 1 .. Len(list) : list[k].receiver = Ours}
           at == IF I # {} THEN Min(I) ELSE 0
<1>1. UpsertRoute(list) = IF at = 0 THEN Append(list, ContinueRoute) ELSE [list EXCEPT ![at] = ContinueRoute]
  BY DEF UpsertRoute, SelectInSeq
<1>2. I \subseteq Nat /\ 0 \notin I OBVIOUS
<1>3. CASE I = {} BY <1>1, <1>3
<1>4. CASE I # {}
  <2>1. Min(I) \in I
    <3> HIDE DEF I
    <3> QED BY <1>2, <1>4, MinFact
  <2>2. at \in I BY <1>4, <2>1
  <2> HIDE DEF at
  <2> QED BY <1>1, <1>2, <2>2
<1> QED BY <1>3, <1>4

(* Where the other entries keep their places they are the same. *)
LEMMA SamePlaces ==
  ASSUME NEW A, NEW list \in Seq(A), NEW other \in Seq(A), NEW entries,
         Positions(list, entries) = Positions(other, entries),
         \A k \in Positions(list, entries) : other[k] = list[k]
  PROVE  SameEntries(list, other, entries)
<1> DEFINE P == Positions(list, entries)
           to == [k \in P |-> k]
<1>1. to \in [P -> Positions(other, entries)] OBVIOUS
<1>2. /\ \A k \in P : other[to[k]] = list[k]
      /\ \A j, k \in P : j < k => to[j] < to[k]
      /\ \A i \in Positions(other, entries) : \E k \in P : to[k] = i
  OBVIOUS
<1> HIDE DEF to
<1> QED BY <1>1, <1>2 DEF SameEntries

(* Appending or replacing entries outside the set keeps the set's places. *)
LEMMA EditedSame ==
  ASSUME NEW A, NEW list \in Seq(A), NEW entries, NEW e \in A, e \notin entries
  PROVE  /\ SameEntries(list, Append(list, e), entries)
         /\ \A at \in 1 .. Len(list) :
              list[at] \notin entries => SameEntries(list, [list EXCEPT ![at] = e], entries)
<1>1. SameEntries(list, Append(list, e), entries)
  <2> DEFINE other == Append(list, e)
  <2>1. /\ other \in Seq(A) /\ Len(other) = Len(list) + 1 /\ Len(list) \in Nat
        /\ \A k \in 1 .. Len(list) : other[k] = list[k]
        /\ other[Len(list) + 1] = e
    OBVIOUS
  <2> HIDE DEF other
  <2>2. DOMAIN other = 1 .. Len(list) + 1 /\ DOMAIN list = 1 .. Len(list) BY <2>1
  <2>3. Positions(list, entries) = Positions(other, entries)
    <3>1. ASSUME NEW k \in Positions(other, entries) PROVE k \in Positions(list, entries)
      <4>1. k # Len(list) + 1 BY <2>1 DEF Positions
      <4> QED BY <2>1, <2>2, <4>1 DEF Positions
    <3> QED BY <2>1, <2>2, <3>1 DEF Positions
  <2>4. \A k \in Positions(list, entries) : other[k] = list[k] BY <2>1, <2>2 DEF Positions
  <2> QED BY <2>1, <2>3, <2>4, SamePlaces DEF other
<1>2. ASSUME NEW at \in 1 .. Len(list), list[at] \notin entries
      PROVE  SameEntries(list, [list EXCEPT ![at] = e], entries)
  <2> DEFINE other == [list EXCEPT ![at] = e]
  <2>1. /\ other \in Seq(A) /\ DOMAIN other = DOMAIN list
        /\ \A k \in DOMAIN list : k # at => other[k] = list[k]
        /\ other[at] = e
    OBVIOUS
  <2> HIDE DEF other
  <2>2. Positions(list, entries) = Positions(other, entries) BY <1>2, <2>1 DEF Positions
  <2>3. \A k \in Positions(list, entries) : other[k] = list[k] BY <1>2, <2>1 DEF Positions
  <2> QED BY <2>1, <2>2, <2>3, SamePlaces DEF other
<1> QED BY <1>1, <1>2

(* Both edits of the operator leave the entries of the administrators. *)
LEMMA TheirsSame ==
  ASSUME NEW list \in Seq(Receiver), NEW branches \in Seq(Route)
  PROVE  /\ SameEntries(list, UpsertReceiver(list), TheirReceivers)
         /\ SameEntries(list, RemoveReceiver(list), TheirReceivers)
         /\ SameEntries(branches, UpsertRoute(branches), TheirRoutes)
         /\ SameEntries(branches, RemoveRoute(branches), TheirRoutes)
<1>1. WebhookReceiver \in Receiver /\ WebhookReceiver \notin TheirReceivers
  BY DEF WebhookReceiver, Receiver, TheirReceivers
<1>2. ContinueRoute \in Route /\ ContinueRoute \notin TheirRoutes
  BY DEF ContinueRoute, Route, TheirRoutes
<1>3. SameEntries(list, UpsertReceiver(list), TheirReceivers)
  <2>1. CASE UpsertReceiver(list) = Append(list, WebhookReceiver) BY <1>1, <2>1, EditedSame
  <2>2. ASSUME NEW at \in 1 .. Len(list), list[at].name = Ours,
               UpsertReceiver(list) = [list EXCEPT ![at] = WebhookReceiver]
        PROVE  SameEntries(list, UpsertReceiver(list), TheirReceivers)
    <3>1. list[at] \notin TheirReceivers BY <2>2 DEF TheirReceivers
    <3>2. SameEntries(list, [list EXCEPT ![at] = WebhookReceiver], TheirReceivers)
      <4> DEFINE e == WebhookReceiver
      <4> HIDE DEF e
      <4>1. e \in Receiver /\ e \notin TheirReceivers BY <1>1 DEF e
      <4>2. SameEntries(list, [list EXCEPT ![at] = e], TheirReceivers) BY <2>2, <3>1, <4>1, EditedSame
      <4> QED BY <4>2 DEF e
    <3> QED BY <2>2, <3>2
  <2> QED BY <2>1, <2>2, UpsertedReceiver
<1>4. SameEntries(branches, UpsertRoute(branches), TheirRoutes)
  <2>1. CASE UpsertRoute(branches) = Append(branches, ContinueRoute) BY <1>2, <2>1, EditedSame
  <2>2. ASSUME NEW at \in 1 .. Len(branches), branches[at].receiver = Ours,
               UpsertRoute(branches) = [branches EXCEPT ![at] = ContinueRoute]
        PROVE  SameEntries(branches, UpsertRoute(branches), TheirRoutes)
    <3>1. branches[at] \notin TheirRoutes BY <2>2 DEF TheirRoutes
    <3>2. SameEntries(branches, [branches EXCEPT ![at] = ContinueRoute], TheirRoutes)
      <4> DEFINE e == ContinueRoute
      <4> HIDE DEF e
      <4>1. e \in Route /\ e \notin TheirRoutes BY <1>2 DEF e
      <4>2. SameEntries(branches, [branches EXCEPT ![at] = e], TheirRoutes) BY <2>2, <3>1, <4>1, EditedSame
      <4> QED BY <4>2 DEF e
    <3> QED BY <2>2, <3>2
  <2> QED BY <2>1, <2>2, UpsertedRoute
<1>5. /\ SameEntries(list, RemoveReceiver(list), TheirReceivers)
      /\ SameEntries(branches, RemoveRoute(branches), TheirRoutes)
  BY KeptSame DEF RemoveReceiver, RemoveRoute
<1> QED BY <1>3, <1>4, <1>5

-----------------------------------------------------------------------------
(* The configuration stays valid *)

Insertion(new, A, list, at, e) ==
  /\ new \in Seq(A) /\ Len(new) = Len(list) + 1
  /\ \A i \in 1 .. Len(list) + 1 : new[i] = IF i < at THEN list[i] ELSE IF i = at THEN e ELSE list[i - 1]

LEMMA Inserted ==
  ASSUME NEW A, NEW list \in Seq(A), NEW at \in 1 .. Len(list) + 1, NEW e \in A
  PROVE  Insertion(InsertAt(list, at, e), A, list, at, e)
<1> DEFINE left == SubSeq(list, 1, at - 1)
           right == SubSeq(list, at, Len(list))
           n == Len(list)
<1>1. n \in Nat /\ at \in Nat /\ at >= 1 /\ at <= n + 1 OBVIOUS
<1>2. left \in Seq(A) /\ Len(left) = at - 1 /\ \A i \in 1 .. at - 1 : left[i] = list[i] OBVIOUS
<1>3. right \in Seq(A) /\ Len(right) = n - at + 1 /\ \A i \in 1 .. n - at + 1 : right[i] = list[i + at - 1] OBVIOUS
<1> HIDE DEF left, right, n
<1>4. left \o <<e>> \in Seq(A) /\ Len(left \o <<e>>) = at
      /\ \A i \in 1 .. at : (left \o <<e>>)[i] = IF i < at THEN left[i] ELSE e
  BY <1>1, <1>2
<1> DEFINE mid == left \o <<e>>
<1> HIDE DEF mid
<1>5. /\ mid \o right \in Seq(A) /\ Len(mid \o right) = n + 1
      /\ \A i \in 1 .. at : (mid \o right)[i] = mid[i]
      /\ \A i \in at + 1 .. n + 1 : (mid \o right)[i] = right[i - at]
  <2>1. mid \in Seq(A) /\ Len(mid) = at BY <1>4 DEF mid
  <2>2. mid \o right \in Seq(A) /\ Len(mid \o right) = Len(mid) + Len(right)
    BY <1>3, <2>1, ConcatProperties
  <2>3. \A i \in 1 .. Len(mid) + Len(right) :
          (mid \o right)[i] = IF i <= Len(mid) THEN mid[i] ELSE right[i - Len(mid)]
    BY <1>3, <2>1, ConcatProperties
  <2>4. at + (n - at + 1) = n + 1 /\ Len(mid) + Len(right) = n + 1 BY <1>1, <1>3, <2>1
  <2> QED BY <1>1, <2>1, <2>2, <2>3, <2>4
<1>6. InsertAt(list, at, e) = mid \o right BY DEF InsertAt, mid, left, right
<1>7. ASSUME NEW i \in 1 .. n + 1
      PROVE  (mid \o right)[i] = IF i < at THEN list[i] ELSE IF i = at THEN e ELSE list[i - 1]
  <2>1. CASE i <= at BY <1>1, <1>2, <1>4, <1>5, <2>1 DEF mid
  <2>2. CASE i > at
    <3>1. (mid \o right)[i] = right[i - at] /\ i - at \in 1 .. n - at + 1 /\ (i - at) + at - 1 = i - 1
      BY <1>1, <1>5, <2>2
    <3>2. right[i - at] = list[i - 1] BY <1>3, <3>1
    <3> QED BY <1>1, <2>2, <3>1, <3>2
  <2>3. i <= at \/ i > at BY <1>1
  <2> QED BY <2>1, <2>2, <2>3, Zenon
<1> QED BY <1>5, <1>6, <1>7 DEF Insertion, n

LEMMA Removed ==
  ASSUME NEW A, NEW list \in Seq(A), NEW at \in 1 .. Len(list)
  PROVE  /\ RemoveAt(list, at) \in Seq(A)
         /\ \A i \in 1 .. Len(RemoveAt(list, at)) : \E k \in 1 .. Len(list) : RemoveAt(list, at)[i] = list[k]
<1> DEFINE left == SubSeq(list, 1, at - 1)
           right == SubSeq(list, at + 1, Len(list))
           n == Len(list)
<1>1. n \in Nat /\ at \in 1 .. n OBVIOUS
<1>2. left \in Seq(A) /\ Len(left) = at - 1 /\ \A i \in 1 .. at - 1 : left[i] = list[i] OBVIOUS
<1>3. right \in Seq(A) /\ Len(right) = n - at /\ \A i \in 1 .. n - at : right[i] = list[i + at] OBVIOUS
<1> HIDE DEF left, right, n
<1>4. /\ left \o right \in Seq(A) /\ Len(left \o right) = n - 1
      /\ \A i \in 1 .. n - 1 : (left \o right)[i] = IF i < at THEN left[i] ELSE right[i - (at - 1)]
  <2>1. left \o right \in Seq(A) /\ Len(left \o right) = Len(left) + Len(right)
    BY <1>2, <1>3, ConcatProperties
  <2>2. \A i \in 1 .. Len(left) + Len(right) :
          (left \o right)[i] = IF i <= Len(left) THEN left[i] ELSE right[i - Len(left)]
    BY <1>2, <1>3, ConcatProperties
  <2>3. Len(left) + Len(right) = n - 1 BY <1>1, <1>2, <1>3
  <2> QED BY <1>1, <1>2, <2>1, <2>2, <2>3
<1>5. RemoveAt(list, at) = left \o right BY DEF RemoveAt, left, right
<1>6. ASSUME NEW i \in 1 .. n - 1 PROVE \E k \in 1 .. n : (left \o right)[i] = list[k]
  <2>1. CASE i < at BY <1>1, <1>2, <1>4, <2>1
  <2>2. CASE i >= at
    <3>1. (left \o right)[i] = right[i - (at - 1)] /\ i - (at - 1) \in 1 .. n - at /\ i - (at - 1) + at = i + 1
          /\ i + 1 \in 1 .. n
      BY <1>1, <1>4, <2>2
    <3> QED BY <1>3, <3>1
  <2>3. i < at \/ i >= at BY <1>1
  <2> QED BY <2>1, <2>2, <2>3, Zenon
<1> QED BY <1>4, <1>5, <1>6 DEF n

(* The entries after a removal are entries before it, each from a place of  *)
(* its own, and no entry to keep is lost.                                   *)
Origin(from, new, list, entries) ==
  /\ from \in [1 .. Len(new) -> 1 .. Len(list)]
  /\ \A i \in 1 .. Len(new) : new[i] = list[from[i]]
  /\ \A i, j \in 1 .. Len(new) : i < j => from[i] < from[j]
  /\ \A k \in 1 .. Len(list) : list[k] \in entries => \E i \in 1 .. Len(new) : from[i] = k

LEMMA KeptFrom ==
  ASSUME NEW A, NEW list \in Seq(A), NEW entries
  PROVE  \E from : Origin(from, Kept(list, entries), list, entries)
<1> DEFINE new == Kept(list, entries)
           P == Positions(list, entries)
           I == 1 .. Len(new)
<1>1. new \in Seq(A) /\ (\A i \in I : new[i] \in entries) /\ SameEntries(list, new, entries)
  BY KeptSame
<1> HIDE DEF new
<1>2. Positions(new, entries) = I BY <1>1 DEF Positions
<1>3. P = {k \in 1 .. Len(list) : list[k] \in entries} BY DEF Positions
<1>4. PICK to \in [P -> I] :
        /\ \A k \in P : new[to[k]] = list[k]
        /\ \A j, k \in P : j < k => to[j] < to[k]
        /\ \A i \in I : \E k \in P : to[k] = i
  BY <1>1, <1>2 DEF SameEntries
<1> HIDE DEF P
<1> DEFINE from == [i \in I |-> CHOOSE k \in P : to[k] = i]
<1>5. ASSUME NEW i \in I PROVE from[i] \in P /\ to[from[i]] = i
  BY <1>4, <1>5
<1>6. from \in [I -> 1 .. Len(list)] BY <1>3, <1>5
<1> HIDE DEF from
<1>7. \A i \in I : new[i] = list[from[i]] BY <1>4, <1>5
<1>8. ASSUME NEW i \in I, NEW j \in I, i < j PROVE from[i] < from[j]
  <2>1. from[i] \in Nat /\ from[j] \in Nat /\ i \in Nat /\ j \in Nat BY <1>6
  <2>2. from[j] < from[i] => j < i BY <1>4, <1>5
  <2>3. from[i] # from[j] BY <1>5, <1>8, <2>1
  <2> QED BY <1>8, <2>1, <2>2, <2>3
<1>9. ASSUME NEW k \in P PROVE to[k] \in I /\ from[to[k]] = k
  <2>1. to[k] \in I BY <1>4
  <2>2. from[to[k]] \in P /\ to[from[to[k]]] = to[k] BY <1>5, <2>1
  <2>3. k \in Nat /\ from[to[k]] \in Nat /\ to[k] \in Nat BY <1>3, <2>1, <2>2
  <2>4. ~(k < from[to[k]]) BY <1>4, <2>2, <2>3
  <2>5. ~(from[to[k]] < k) BY <1>4, <2>2, <2>3
  <2> QED BY <2>1, <2>3, <2>4, <2>5
<1>10. \A k \in 1 .. Len(list) : list[k] \in entries => \E i \in I : from[i] = k BY <1>3, <1>9
<1>11. Origin(from, new, list, entries) BY <1>6, <1>7, <1>8, <1>10 DEF Origin
<1> QED BY <1>11 DEF new

Unique(list) == \A j, k \in 1 .. Len(list) : list[j].name = list[k].name => j = k
Leads(branches, list) ==
  \A k \in 1 .. Len(branches) : \E j \in 1 .. Len(list) : list[j].name = branches[k].receiver

Names(name, list) == \E j \in 1 .. Len(list) : list[j].name = name

(* The shapes, what the operator keeps in order, and the receivers that are *)
(* there: the root's if it is an administrator's, the operator's while it   *)
(* is installed.                                                            *)
ConfigInv ==
  /\ receivers \in Seq(Receiver) /\ routes \in Seq(Route)
  /\ root \in Others \cup {Ours, NoReceiver, NoRoute}
  /\ installed \in BOOLEAN /\ author \in {"operator", "administrator"}
  /\ Unique(receivers) /\ Leads(routes, receivers)
  /\ root \in Others => Names(root, receivers)
  /\ installed => Names(Ours, receivers)

LEMMA EntryTypes ==
  WebhookReceiver \in Receiver /\ ContinueRoute \in Route /\ WebhookReceiver.name = Ours /\ ContinueRoute.receiver = Ours
  BY DEF WebhookReceiver, ContinueRoute, Receiver, Route

LEMMA UpsertValid ==
  ASSUME NEW list \in Seq(Receiver), NEW branches \in Seq(Route), Unique(list), Leads(branches, list)
  PROVE  /\ UpsertReceiver(list) \in Seq(Receiver) /\ UpsertRoute(branches) \in Seq(Route)
         /\ Unique(UpsertReceiver(list)) /\ Leads(UpsertRoute(branches), UpsertReceiver(list))
         /\ \E k \in 1 .. Len(UpsertReceiver(list)) : UpsertReceiver(list)[k] = WebhookReceiver
         /\ \A name : Names(name, list) \/ name = Ours => Names(name, UpsertReceiver(list))
<1> DEFINE new == UpsertReceiver(list)
           news == UpsertRoute(branches)
           e == WebhookReceiver
           c == ContinueRoute
<1>0. e \in Receiver /\ c \in Route /\ e.name = Ours /\ c.receiver = Ours BY EntryTypes
<1>1. /\ new \in Seq(Receiver) /\ Unique(new)
      /\ \E k \in 1 .. Len(new) : new[k] = e
      /\ \A j \in 1 .. Len(list) : \E k \in 1 .. Len(new) : new[k].name = list[j].name
  <2>1. CASE new = Append(list, e) /\ \A k \in 1 .. Len(list) : list[k].name # Ours
    <3> HIDE DEF new, e
    <3>1. /\ new \in Seq(Receiver) /\ Len(new) = Len(list) + 1 /\ Len(list) \in Nat
          /\ new[Len(list) + 1] = e /\ \A k \in 1 .. Len(list) : new[k] = list[k]
      BY <1>0, <2>1
    <3>2. Unique(new) BY <1>0, <2>1, <3>1 DEF Unique
    <3> QED BY <3>1, <3>2
  <2>2. ASSUME NEW at \in 1 .. Len(list), list[at].name = Ours, new = [list EXCEPT ![at] = e]
        PROVE  /\ new \in Seq(Receiver) /\ Unique(new)
               /\ \E k \in 1 .. Len(new) : new[k] = e
               /\ \A j \in 1 .. Len(list) : \E k \in 1 .. Len(new) : new[k].name = list[j].name
    <3> HIDE DEF new, e
    <3>1. /\ new \in Seq(Receiver) /\ Len(new) = Len(list)
          /\ new[at] = e /\ \A k \in 1 .. Len(list) : k # at => new[k] = list[k]
      BY <1>0, <2>2
    <3>2. \A k \in 1 .. Len(list) : new[k].name = list[k].name BY <1>0, <2>2, <3>1
    <3>3. Unique(new) BY <3>1, <3>2 DEF Unique
    <3> QED BY <3>1, <3>2, <3>3
  <2> QED BY <2>1, <2>2, UpsertedReceiver
<1> HIDE DEF new
<1>2. /\ news \in Seq(Route)
      /\ \A i \in 1 .. Len(news) : news[i] = c \/ \E k \in 1 .. Len(branches) : news[i] = branches[k]
  <2>1. CASE news = Append(branches, c)
    <3> HIDE DEF news, c
    <3>1. /\ news \in Seq(Route) /\ Len(news) = Len(branches) + 1 /\ Len(branches) \in Nat
          /\ news[Len(branches) + 1] = c /\ \A k \in 1 .. Len(branches) : news[k] = branches[k]
      BY <1>0, <2>1
    <3> QED BY <3>1
  <2>2. ASSUME NEW at \in 1 .. Len(branches), news = [branches EXCEPT ![at] = c]
        PROVE  /\ news \in Seq(Route)
               /\ \A i \in 1 .. Len(news) : news[i] = c \/ \E k \in 1 .. Len(branches) : news[i] = branches[k]
    <3> HIDE DEF news, c
    <3>1. /\ news \in Seq(Route) /\ Len(news) = Len(branches)
          /\ news[at] = c /\ \A k \in 1 .. Len(branches) : k # at => news[k] = branches[k]
      BY <1>0, <2>2
    <3> QED BY <3>1
  <2> QED BY <2>1, <2>2, UpsertedRoute
<1> HIDE DEF news, e, c
<1>3. Leads(news, new)
  <2> SUFFICES ASSUME NEW i \in 1 .. Len(news)
               PROVE  \E j \in 1 .. Len(new) : new[j].name = news[i].receiver
    BY DEF Leads
  <2>1. CASE news[i] = c BY <1>0, <1>1, <2>1
  <2>2. ASSUME NEW k \in 1 .. Len(branches), news[i] = branches[k]
        PROVE  \E j \in 1 .. Len(new) : new[j].name = news[i].receiver
    <3>1. PICK l \in 1 .. Len(list) : list[l].name = branches[k].receiver BY DEF Leads
    <3> QED BY <1>1, <2>2, <3>1
  <2> QED BY <1>2, <2>1, <2>2
<1>4. \A name : Names(name, list) \/ name = Ours => Names(name, new) BY <1>0, <1>1 DEF Names
<1> QED BY <1>1, <1>2, <1>3, <1>4 DEF new, news, e

LEMMA DeleteValid ==
  ASSUME NEW list \in Seq(Receiver), NEW branches \in Seq(Route), Unique(list), Leads(branches, list)
  PROVE  /\ RemoveReceiver(list) \in Seq(Receiver) /\ RemoveRoute(branches) \in Seq(Route)
         /\ Unique(RemoveReceiver(list)) /\ Leads(RemoveRoute(branches), RemoveReceiver(list))
         /\ \A name : Names(name, list) /\ name # Ours => Names(name, RemoveReceiver(list))
<1> DEFINE new == RemoveReceiver(list)
           news == RemoveRoute(branches)
           kl == Kept(list, TheirReceivers)
           kb == Kept(branches, TheirRoutes)
<1>0. new = kl /\ news = kb BY DEF RemoveReceiver, RemoveRoute
<1>1. kl \in Seq(Receiver) /\ kb \in Seq(Route) /\ \A i \in 1 .. Len(kb) : kb[i] \in TheirRoutes BY KeptSame
<1>2. PICK from : Origin(from, kl, list, TheirReceivers) BY KeptFrom
<1>3. PICK source : Origin(source, kb, branches, TheirRoutes) BY KeptFrom
<1> HIDE DEF kl, kb
<1>4. Unique(kl)
  <2> SUFFICES ASSUME NEW j \in 1 .. Len(kl), NEW k \in 1 .. Len(kl), kl[j].name = kl[k].name PROVE j = k
    BY DEF Unique
  <2>1. from[j] \in 1 .. Len(list) /\ from[k] \in 1 .. Len(list) BY <1>2 DEF Origin
  <2>2. from[j] = from[k] BY <1>2, <2>1 DEF Unique, Origin
  <2>3. ~(j < k) /\ ~(k < j) BY <1>2, <2>1, <2>2 DEF Origin
  <2>4. j \in Nat /\ k \in Nat BY <1>1
  <2> QED BY <2>3, <2>4
<1>5. Leads(kb, kl)
  <2> SUFFICES ASSUME NEW i \in 1 .. Len(kb) PROVE \E j \in 1 .. Len(kl) : kl[j].name = kb[i].receiver
    BY DEF Leads
  <2>1. source[i] \in 1 .. Len(branches) /\ kb[i] = branches[source[i]] BY <1>3 DEF Origin
  <2>2. PICK l \in 1 .. Len(list) : list[l].name = branches[source[i]].receiver BY <2>1 DEF Leads
  <2>3. kb[i].receiver # Ours BY <1>1 DEF TheirRoutes
  <2>4. list[l] \in TheirReceivers BY <2>1, <2>2, <2>3 DEF TheirReceivers
  <2>5. PICK j \in 1 .. Len(kl) : from[j] = l BY <1>2, <2>4 DEF Origin
  <2> QED BY <1>2, <2>1, <2>2, <2>5 DEF Origin
<1>6. ASSUME NEW name, Names(name, list), name # Ours PROVE Names(name, kl)
  <2>1. PICK l \in 1 .. Len(list) : list[l].name = name BY <1>6 DEF Names
  <2>2. list[l] \in TheirReceivers BY <1>6, <2>1 DEF TheirReceivers
  <2>3. PICK j \in 1 .. Len(kl) : from[j] = l BY <1>2, <2>2 DEF Origin
  <2> QED BY <1>2, <2>1, <2>3 DEF Origin, Names
<1> QED BY <1>0, <1>1, <1>4, <1>5, <1>6

LEMMA ConfigInit == Init => ConfigInv
<1> SUFFICES ASSUME Init PROVE ConfigInv OBVIOUS
<1> DEFINE e == [name |-> Default, url |-> "other"]
<1>1. e \in Receiver /\ e.name = Default BY NamesAssumption DEF Receiver
<1>2. /\ routes = <<>> /\ installed = FALSE /\ author = "administrator"
      /\ (receivers = <<e>> /\ root = Default) \/ (receivers = <<>> /\ root = NoRoute)
  BY DEF Init
<1> HIDE DEF e
<1>3. routes \in Seq(Route) /\ Len(routes) = 0 BY <1>2
<1>4. CASE receivers = <<e>> /\ root = Default
  <2>1. receivers \in Seq(Receiver) /\ Len(receivers) = 1 /\ receivers[1] = e BY <1>1, <1>4
  <2>2. Unique(receivers) /\ Leads(routes, receivers) /\ Names(root, receivers)
    BY <1>1, <1>3, <1>4, <2>1 DEF Unique, Leads, Names
  <2> QED BY <1>2, <1>3, <1>4, <2>1, <2>2, NamesAssumption DEF ConfigInv
<1>5. CASE receivers = <<>> /\ root = NoRoute
  <2>1. receivers \in Seq(Receiver) /\ Len(receivers) = 0 BY <1>5
  <2>2. Unique(receivers) /\ Leads(routes, receivers) /\ root \notin Others
    BY <1>3, <1>5, <2>1, NamesAssumption DEF Unique, Leads
  <2> QED BY <1>2, <1>3, <1>5, <2>1, <2>2 DEF ConfigInv
<1> QED BY <1>2, <1>4, <1>5

(* What an administrator edits. *)
LEMMA AdministratorStep ==
  ASSUME ConfigInv, Administrator
  PROVE  ConfigInv' /\ author' = "administrator"
<1>0. /\ receivers \in Seq(Receiver) /\ routes \in Seq(Route) /\ installed \in BOOLEAN
      /\ Unique(receivers) /\ Leads(routes, receivers) /\ root \in Others \cup {Ours, NoReceiver, NoRoute}
      /\ (root \in Others => Names(root, receivers)) /\ (installed => Names(Ours, receivers))
      /\ DOMAIN receivers = 1 .. Len(receivers) /\ DOMAIN routes = 1 .. Len(routes)
  BY DEF ConfigInv
<1>1. CASE AddRoute
  <2>1. PICK r \in Route, at \in 1 .. Len(routes) + 1 : Defined(r.receiver) /\ routes' = InsertAt(routes, at, r)
    BY <1>1 DEF AddRoute
  <2>2. UNCHANGED <<receivers, root, installed>> /\ author' = "administrator" BY <1>1 DEF AddRoute
  <2>3. /\ routes' \in Seq(Route) /\ Len(routes') = Len(routes) + 1
        /\ \A i \in 1 .. Len(routes) + 1 :
             routes'[i] = IF i < at THEN routes[i] ELSE IF i = at THEN r ELSE routes[i - 1]
    <3>1. Insertion(routes', Route, routes, at, r) BY <1>0, <2>1, Inserted
    <3> QED BY <3>1 DEF Insertion
  <2>4. ASSUME NEW i \in 1 .. Len(routes) + 1
        PROVE  \E j \in 1 .. Len(receivers) : receivers[j].name = routes'[i].receiver
    <3>1. Len(routes) \in Nat BY <1>0
    <3>2. CASE i = at BY <1>0, <2>1, <2>3, <3>2 DEF Defined
    <3>3. CASE i < at
      <4>1. i \in 1 .. Len(routes) BY <3>1, <3>3
      <4>2. routes'[i] = routes[i] BY <2>3, <3>3
      <4> QED BY <1>0, <4>1, <4>2 DEF Leads
    <3>4. CASE i > at
      <4>1. i - 1 \in 1 .. Len(routes) BY <3>1, <3>4
      <4>2. routes'[i] = routes[i - 1] BY <2>3, <3>4
      <4> QED BY <1>0, <4>1, <4>2 DEF Leads
    <3>5. i = at \/ i < at \/ i > at OBVIOUS
    <3> QED BY <3>2, <3>3, <3>4, <3>5
  <2> QED BY <1>0, <2>2, <2>3, <2>4 DEF ConfigInv, Unique, Leads, Names
<1>2. CASE DropRoute
  <2>1. PICK at \in 1 .. Len(routes) : routes' = RemoveAt(routes, at) BY <1>0, <1>2 DEF DropRoute
  <2>2. UNCHANGED <<receivers, root, installed>> /\ author' = "administrator" BY <1>2 DEF DropRoute
  <2>3. /\ routes' \in Seq(Route)
        /\ \A i \in 1 .. Len(routes') : \E k \in 1 .. Len(routes) : routes'[i] = routes[k]
    BY <1>0, <2>1, Removed
  <2>4. Leads(routes', receivers) BY <1>0, <2>3 DEF Leads
  <2> QED BY <1>0, <2>2, <2>3, <2>4 DEF ConfigInv, Unique, Leads, Names
<1>3. CASE AddReceiver
  <2>1. PICK name \in Others, at \in 1 .. Len(receivers) + 1 :
          ~Defined(name) /\ receivers' = InsertAt(receivers, at, [name |-> name, url |-> "other"])
    BY <1>3 DEF AddReceiver
  <2>2. UNCHANGED <<root, routes, installed>> /\ author' = "administrator" BY <1>3 DEF AddReceiver
  <2> DEFINE e == [name |-> name, url |-> "other"]
             n == Len(receivers)
  <2>3. e \in Receiver /\ e.name = name BY DEF Receiver
  <2> HIDE DEF e
  <2>4. /\ receivers' \in Seq(Receiver) /\ Len(receivers') = n + 1
        /\ \A i \in 1 .. n + 1 :
             receivers'[i] = IF i < at THEN receivers[i] ELSE IF i = at THEN e ELSE receivers[i - 1]
    <3>1. receivers' = InsertAt(receivers, at, e) BY <2>1 DEF e
    <3>2. Insertion(receivers', Receiver, receivers, at, e) BY <1>0, <2>3, <3>1, Inserted
    <3> QED BY <3>2 DEF Insertion
  <2>5. n \in Nat /\ at \in 1 .. n + 1 /\ \A k \in 1 .. n : receivers[k].name # name BY <1>0, <2>1 DEF Defined
  <2> HIDE DEF n
  <2> DEFINE old(i) == IF i < at THEN i ELSE i - 1
  <2>6. ASSUME NEW i \in 1 .. n + 1, i # at PROVE old(i) \in 1 .. n /\ receivers'[i] = receivers[old(i)]
    <3>1. CASE i < at BY <2>4, <2>5, <3>1
    <3>2. CASE i > at BY <2>4, <2>5, <3>2
    <3>3. i < at \/ i > at BY <2>5, <2>6
    <3> QED BY <3>1, <3>2, <3>3
  <2>7. receivers'[at].name = name BY <2>3, <2>4, <2>5
  <2>8. Unique(receivers')
    <3> SUFFICES ASSUME NEW j \in 1 .. n + 1, NEW k \in 1 .. n + 1, receivers'[j].name = receivers'[k].name
                 PROVE  j = k
      BY <2>4 DEF Unique
    <3>1. CASE j = at
      <4>1. k # at => receivers'[k].name # name BY <2>5, <2>6
      <4> QED BY <2>7, <3>1, <4>1
    <3>2. CASE k = at
      <4>1. j # at => receivers'[j].name # name BY <2>5, <2>6
      <4> QED BY <2>7, <3>2, <4>1
    <3>3. CASE j # at /\ k # at
      <4>1. old(j) = old(k) BY <1>0, <2>6, <3>3 DEF Unique, n
      <4> QED BY <2>5, <3>3, <4>1
    <3> QED BY <3>1, <3>2, <3>3
  <2>9. ASSUME NEW k \in 1 .. n PROVE \E j \in 1 .. n + 1 : receivers'[j] = receivers[k]
    <3>1. CASE k < at BY <2>4, <2>5, <3>1
    <3>2. CASE k >= at
      <4>1. k + 1 \in 1 .. n + 1 /\ k + 1 > at /\ (k + 1) - 1 = k BY <2>5, <3>2
      <4>2. receivers'[k + 1] = receivers[k] BY <2>4, <2>5, <4>1
      <4> QED BY <4>1, <4>2
    <3>3. k < at \/ k >= at BY <2>5
    <3> QED BY <3>1, <3>2, <3>3
  <2>10. ASSUME NEW k \in 1 .. Len(routes)
         PROVE  \E j \in 1 .. Len(receivers') : receivers'[j].name = routes[k].receiver
    <3>1. PICK l \in 1 .. n : receivers[l].name = routes[k].receiver BY <1>0 DEF Leads, n
    <3>2. PICK j \in 1 .. n + 1 : receivers'[j] = receivers[l] BY <2>9
    <3> QED BY <2>4, <3>1, <3>2
  <2>11. \A x : Names(x, receivers) => Names(x, receivers')
    <3>1. ASSUME NEW x, NEW l \in 1 .. n, receivers[l].name = x PROVE \E j \in 1 .. n + 1 : receivers'[j].name = x
      BY <2>9, <3>1
    <3> QED BY <2>4, <3>1 DEF Names, n
  <2> QED BY <1>0, <2>2, <2>4, <2>8, <2>10, <2>11 DEF ConfigInv, Leads
<1>4. CASE RetargetReceiver
  <2>1. PICK at \in 1 .. Len(receivers) : receivers' = [receivers EXCEPT ![at].url = "other"]
    BY <1>0, <1>4 DEF RetargetReceiver
  <2>2. UNCHANGED <<root, routes, installed>> /\ author' = "administrator" BY <1>4 DEF RetargetReceiver
  <2> DEFINE e == [receivers[at] EXCEPT !.url = "other"]
  <2>3. e \in Receiver /\ e.name = receivers[at].name
    <3>1. receivers[at] \in Receiver BY <1>0
    <3> QED BY <3>1 DEF Receiver
  <2>4. receivers' = [receivers EXCEPT ![at] = e] BY <2>1
  <2> HIDE DEF e
  <2>5. receivers' \in Seq(Receiver) /\ Len(receivers') = Len(receivers)
        /\ \A k \in 1 .. Len(receivers) : receivers'[k].name = receivers[k].name
    BY <1>0, <2>3, <2>4
  <2> QED BY <1>0, <2>2, <2>5 DEF ConfigInv, Unique, Leads, Names
<1>5. CASE SetRoot
  <2>1. PICK name \in Others \cup {Ours} : Defined(name) /\ root' = name BY <1>5 DEF SetRoot
  <2>2. UNCHANGED <<receivers, routes, installed>> /\ author' = "administrator" BY <1>5 DEF SetRoot
  <2>3. Names(name, receivers) BY <1>0, <2>1 DEF Defined, Names
  <2> QED BY <1>0, <2>1, <2>2, <2>3 DEF ConfigInv, Unique, Leads, Names
<1> QED BY <1>1, <1>2, <1>3, <1>4, <1>5 DEF Administrator

LEMMA OperatorStep ==
  ASSUME ConfigInv, UpsertWebhookReceiver \/ DeleteWebhookReceiver
  PROVE  ConfigInv'
<1>0. /\ receivers \in Seq(Receiver) /\ routes \in Seq(Route) /\ Unique(receivers) /\ Leads(routes, receivers)
      /\ root \in Others \cup {Ours, NoReceiver, NoRoute} /\ (root \in Others => Names(root, receivers))
  BY DEF ConfigInv
<1>1. CASE UpsertWebhookReceiver
  <2>1. /\ receivers' = UpsertReceiver(receivers) /\ routes' = UpsertRoute(routes)
        /\ root' = IF root = NoRoute THEN NoReceiver ELSE root
        /\ installed' \in BOOLEAN /\ author' = "operator"
    BY <1>1 DEF UpsertWebhookReceiver
  <2>2. /\ receivers' \in Seq(Receiver) /\ routes' \in Seq(Route) /\ Unique(receivers') /\ Leads(routes', receivers')
        /\ \A name : Names(name, receivers) \/ name = Ours => Names(name, receivers')
    BY <1>0, <2>1, UpsertValid
  <2>3. root' \in Others \cup {Ours, NoReceiver, NoRoute} /\ (root' \in Others => Names(root', receivers'))
    BY <1>0, <2>1, <2>2, NamesAssumption
  <2> QED BY <2>1, <2>2, <2>3 DEF ConfigInv
<1>2. CASE DeleteWebhookReceiver
  <2>1. /\ receivers' = RemoveReceiver(receivers) /\ routes' = RemoveRoute(routes)
        /\ root' = root /\ installed' = FALSE /\ author' = "operator"
    BY <1>2 DEF DeleteWebhookReceiver
  <2>2. /\ receivers' \in Seq(Receiver) /\ routes' \in Seq(Route) /\ Unique(receivers') /\ Leads(routes', receivers')
        /\ \A name : Names(name, receivers) /\ name # Ours => Names(name, receivers')
    BY <1>0, <2>1, DeleteValid
  <2>3. root' \in Others => Names(root', receivers')
    BY <1>0, <2>1, <2>2, NamesAssumption
  <2> QED BY <1>0, <2>1, <2>2, <2>3 DEF ConfigInv
<1> QED BY <1>1, <1>2

LEMMA ConfigStep ==
  ASSUME ConfigInv, [Next]_vars
  PROVE  ConfigInv'
<1>1. CASE UNCHANGED vars BY <1>1 DEF vars, ConfigInv, Unique, Leads, Names
<1> QED BY <1>1, OperatorStep, AdministratorStep DEF Next

(* The lists keep their shapes, of any length, and each receiver of the     *)
(* operator's has a URL.                                                    *)
THEOREM TypeCorrect == Spec => []TypeOK
<1>1. ConfigInv /\ [Next]_vars => ConfigInv' BY ConfigStep
<1>2. ConfigInv => TypeOK BY DEF ConfigInv, TypeOK
<1> QED BY <1>1, <1>2, ConfigInit, PTL DEF Spec

(* The Alertmanager accepts the configuration, for any number of receivers  *)
(* and routes of the administrators and whatever they edit in between, as   *)
(* long as the root route has a receiver and the operator's own one, while  *)
(* it is removed, is named neither by the root nor by a nested route: a     *)
(* removal takes every top-level route to the receiver with it, no edit     *)
(* makes a name occur twice, and what refers to the operator's receiver     *)
(* elsewhere holds while it is installed.                                   *)
THEOREM AlwaysValid == Spec => []ConfigurationValid
<1>1. ConfigInv /\ [Next]_vars => ConfigInv' BY ConfigStep
<1>2. ConfigInv => ConfigurationValid
  <2> SUFFICES ASSUME ConfigInv, root \notin {NoRoute, NoReceiver}, installed \/ ~Relied PROVE Accepted
    BY DEF ConfigurationValid
  <2>1. DOMAIN receivers = 1 .. Len(receivers) /\ DOMAIN routes = 1 .. Len(routes) BY DEF ConfigInv
  <2>2. \A name : Defined(name) <=> Names(name, receivers) BY <2>1 DEF Defined, Names
  <2>3. \A k \in DOMAIN routes : Defined(routes[k].receiver) BY <2>1 DEF ConfigInv, Leads, Defined
  <2>4. \A k \in DOMAIN routes : routes[k].nested => Defined(Ours) BY <2>2 DEF ConfigInv, Relied
  <2>5. Defined(root) BY <2>2 DEF ConfigInv, Relied
  <2>6. \A j, k \in DOMAIN receivers : receivers[j].name = receivers[k].name => j = k BY <2>1 DEF ConfigInv, Unique
  <2> QED BY <2>3, <2>4, <2>5, <2>6 DEF Accepted
<1> QED BY <1>1, <1>2, ConfigInit, PTL DEF Spec

-----------------------------------------------------------------------------
(* What the administrators keep *)

LEMMA OnlyOperator ==
  ASSUME ConfigInv, Next, author' = "operator"
  PROVE  UpsertWebhookReceiver \/ DeleteWebhookReceiver
<1>1. CASE Administrator BY <1>1, AdministratorStep
<1> QED BY <1>1 DEF Next

(* All other configuration is preserved: each edit of the operator leaves   *)
(* the root's receiver and the administrators' receivers and routes, of any *)
(* number, as they are and in their order, and an installation puts the     *)
(* operator's receiver back.                                                *)
THEOREM OthersKept == Spec => OthersPreserved
<1> DEFINE Same == author' = "operator" =>
              /\ SameEntries(receivers, receivers', TheirReceivers)
              /\ SameEntries(routes, routes', TheirRoutes)
              /\ root # NoRoute => root' = root
              /\ installed' => \E k \in DOMAIN receivers' : receivers'[k] = WebhookReceiver
<1>1. ASSUME ConfigInv, Next PROVE Same
  <2> SUFFICES ASSUME author' = "operator"
               PROVE  /\ SameEntries(receivers, receivers', TheirReceivers)
                      /\ SameEntries(routes, routes', TheirRoutes)
                      /\ root # NoRoute => root' = root
                      /\ installed' => \E k \in DOMAIN receivers' : receivers'[k] = WebhookReceiver
    OBVIOUS
  <2>0. receivers \in Seq(Receiver) /\ routes \in Seq(Route) /\ Unique(receivers) /\ Leads(routes, receivers)
    BY <1>1 DEF ConfigInv
  <2>1. CASE UpsertWebhookReceiver
    <3>1. receivers' = UpsertReceiver(receivers) /\ routes' = UpsertRoute(routes) BY <2>1 DEF UpsertWebhookReceiver
    <3>2. /\ SameEntries(receivers, receivers', TheirReceivers) /\ SameEntries(routes, routes', TheirRoutes)
      BY <2>0, <3>1, TheirsSame
    <3>3. receivers' \in Seq(Receiver) /\ \E k \in 1 .. Len(receivers') : receivers'[k] = WebhookReceiver
      BY <2>0, <3>1, UpsertValid
    <3>4. DOMAIN receivers' = 1 .. Len(receivers') BY <3>3
    <3>5. root # NoRoute => root' = root BY <2>1 DEF UpsertWebhookReceiver
    <3> QED BY <3>2, <3>3, <3>4, <3>5
  <2>2. CASE DeleteWebhookReceiver
    <3>1. receivers' = RemoveReceiver(receivers) /\ routes' = RemoveRoute(routes) /\ installed' = FALSE /\ root' = root
      BY <2>2 DEF DeleteWebhookReceiver
    <3>2. /\ SameEntries(receivers, receivers', TheirReceivers) /\ SameEntries(routes, routes', TheirRoutes)
      BY <2>0, <3>1, TheirsSame
    <3> QED BY <3>1, <3>2
  <2> QED BY <1>1, <2>1, <2>2, OnlyOperator
<1>2. ConfigInv /\ [Next]_vars => [Same]_vars BY <1>1
<1>3. ConfigInv /\ [Next]_vars => ConfigInv' BY ConfigStep
<1> HIDE DEF Same
<1>4. Spec => [][Same]_vars BY <1>2, <1>3, ConfigInit, PTL DEF Spec
<1> QED BY <1>4 DEF Same, OthersPreserved

(* A route that was taken is still taken where only routes that it had      *)
(* before it, or that continue, come before it.                             *)
LEMMA StillTaken ==
  ASSUME NEW list \in Seq(Route), NEW new \in Seq(Route), NEW a,
         NEW k \in Taken(list, a), NEW m \in 1 .. Len(new), new[m] = list[k],
         \A i \in 1 .. m - 1 : new[i].continue \/ \E j \in 1 .. k - 1 : new[i] = list[j]
  PROVE  list[k] \in TakenRoutes(new, a)
<1>1. /\ k \in 1 .. Len(list) /\ a \in list[k].matches
      /\ \A j \in 1 .. k - 1 : a \in list[j].matches => list[j].continue
  BY DEF Taken
<1>2. ASSUME NEW i \in 1 .. m - 1, a \in new[i].matches PROVE new[i].continue
  <2>1. ASSUME NEW j \in 1 .. k - 1, new[i] = list[j] PROVE new[i].continue
    <3>1. a \in list[j].matches BY <1>2, <2>1
    <3>2. list[j].continue BY <1>1, <3>1
    <3> QED BY <2>1, <3>2
  <2> QED BY <2>1
<1>3. m \in Taken(new, a) BY <1>1, <1>2 DEF Taken
<1> QED BY <1>3 DEF TakenRoutes

(* Existing routing is not disrupted: an alert that took a route to another *)
(* receiver before an edit of the operator takes it after the edit, for any *)
(* routes of the administrators and wherever the operator's are among them. *)
THEOREM RoutesStillTaken == Spec => RoutingKept
<1> DEFINE Still == author' = "operator" =>
              \A a \in Alerts : TakenRoutes(routes, a) \cap TheirRoutes \subseteq TakenRoutes(routes', a)
<1>1. ASSUME ConfigInv, Next PROVE Still
  <2> SUFFICES ASSUME author' = "operator", NEW a \in Alerts, NEW k \in Taken(routes, a), routes[k] \in TheirRoutes
               PROVE  routes[k] \in TakenRoutes(routes', a)
    BY DEF TakenRoutes
  <2>0. routes \in Seq(Route) /\ k \in 1 .. Len(routes) /\ Len(routes) \in Nat /\ routes' \in Seq(Route)
    <3>1. ConfigInv' BY <1>1, ConfigStep
    <3> QED BY <1>1, <3>1 DEF ConfigInv, Taken
  <2> DEFINE c == ContinueRoute
             list == routes
             new == routes'
  <2>1. c \in Route /\ c.continue BY EntryTypes DEF ContinueRoute
  <2> HIDE DEF c
  <2>2. CASE new = Append(list, c)
    <3>1. Len(new) = Len(list) + 1 /\ \A i \in 1 .. Len(list) : new[i] = list[i] BY <2>0, <2>1, <2>2
    <3>2. k \in 1 .. Len(new) /\ new[k] = list[k] BY <2>0, <3>1
    <3>3. \A i \in 1 .. k - 1 : new[i].continue \/ \E j \in 1 .. k - 1 : new[i] = list[j] BY <2>0, <3>1
    <3> HIDE DEF list, new
    <3>4. list \in Seq(Route) /\ new \in Seq(Route) /\ k \in Taken(list, a) BY <2>0 DEF list, new
    <3> QED BY <3>2, <3>3, <3>4, StillTaken DEF list, new
  <2>3. ASSUME NEW at \in 1 .. Len(list), list[at].receiver = Ours, new = [list EXCEPT ![at] = c]
        PROVE  list[k] \in TakenRoutes(new, a)
    <3>1. /\ Len(new) = Len(list) /\ new[at] = c
          /\ \A i \in 1 .. Len(list) : i # at => new[i] = list[i]
      BY <2>0, <2>1, <2>3
    <3>2. k \in 1 .. Len(new) /\ new[k] = list[k] BY <2>0, <2>3, <3>1 DEF TheirRoutes
    <3>3. ASSUME NEW i \in 1 .. k - 1 PROVE new[i].continue \/ \E j \in 1 .. k - 1 : new[i] = list[j]
      <4>1. CASE i = at BY <2>1, <3>1, <4>1
      <4>2. CASE i # at
        <5>1. i \in 1 .. Len(list) BY <2>0
        <5> QED BY <3>1, <4>2, <5>1
      <4> QED BY <4>1, <4>2
    <3> HIDE DEF list, new
    <3>4. list \in Seq(Route) /\ new \in Seq(Route) /\ k \in Taken(list, a) BY <2>0 DEF list, new
    <3> QED BY <3>2, <3>3, <3>4, StillTaken
  <2>4. CASE new = Kept(list, TheirRoutes)
    <3>1. PICK from : Origin(from, new, list, TheirRoutes) BY <2>0, <2>4, KeptFrom
    <3>2. list[k] \in TheirRoutes OBVIOUS
    <3>3. PICK m \in 1 .. Len(new) : from[m] = k BY <2>0, <3>1, <3>2 DEF Origin
    <3>4. new[m] = list[k] BY <3>1, <3>3 DEF Origin
    <3>5. ASSUME NEW i \in 1 .. m - 1 PROVE \E j \in 1 .. k - 1 : new[i] = list[j]
      <4>1. i \in 1 .. Len(new) /\ i < m BY <2>0
      <4>2. from[i] \in 1 .. Len(list) /\ new[i] = list[from[i]] /\ from[i] < k BY <3>1, <3>3, <4>1 DEF Origin
      <4>3. from[i] \in 1 .. k - 1 BY <2>0, <4>2
      <4> QED BY <4>2, <4>3
    <3> HIDE DEF list, new
    <3>6. list \in Seq(Route) /\ new \in Seq(Route) /\ k \in Taken(list, a) BY <2>0 DEF list, new
    <3> QED BY <3>4, <3>5, <3>6, StillTaken DEF list, new
  <2>5. CASE UpsertWebhookReceiver
    <3>1. new = UpsertRoute(list) BY <2>5 DEF UpsertWebhookReceiver
    <3> QED BY <2>0, <2>2, <2>3, <3>1, UpsertedRoute DEF c
  <2>6. CASE DeleteWebhookReceiver
    <3>1. new = Kept(list, TheirRoutes) BY <2>6 DEF DeleteWebhookReceiver, RemoveRoute
    <3> QED BY <2>4, <3>1
  <2> QED BY <1>1, <2>5, <2>6, OnlyOperator
<1>2. ConfigInv /\ [Next]_vars => [Still]_vars BY <1>1
<1>3. ConfigInv /\ [Next]_vars => ConfigInv' BY ConfigStep
<1> HIDE DEF Still
<1>4. Spec => [][Still]_vars BY <1>2, <1>3, ConfigInit, PTL DEF Spec
<1> QED BY <1>4 DEF Still, RoutingKept
=============================================================================
