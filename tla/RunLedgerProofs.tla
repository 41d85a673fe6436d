-------------------------- MODULE RunLedgerProofs --------------------------
(* RunCreation implements RunLedger, and what its records say of outcomes,  *)
(* for any attempts, names, clusters and conditions.                        *)
EXTENDS RunCreationProofs

(* Conditions whose reason is not one of the two phases Begin writes.       *)
(* finishCreation tells an open outcome from a reported one by the phase    *)
(* alone, see OutcomeOpen.                                                  *)
TellingConditions == \A c \in Conditions : c.phase \notin {"", "Pending"}

-----------------------------------------------------------------------------
(* The invariant of the refinement, beyond SafetyInv: whether a run has     *)
(* ever been created, and what attempts, recovery, synchronization and      *)
(* records know of it.                                                      *)

(* Whoever has seen the run knows that it was created. *)
SeenLanded ==
  \A n \in Names :
    /\ runs[n] # NoRun \/ syncing[n] # NoRun => n \in landed
    /\ recovery[n].pc = "confirm" => n \in landed
ConfirmsLanded == \A a \in Attempts : creator[a] = "confirm" => NameOf[a] \in landed

(* A create that is out, or was rejected, is the first of its name. *)
NotLandedYet ==
  \A a \in Attempts :
    NameOf[a] \notin removed /\ (creator[a] \in {"create", "fail"} \/ a \in inflight) => NameOf[a] \notin landed

(* From the create on, the record keeps its identity, also after the run is gone. *)
LandedHasRecord ==
  \A n \in landed \ removed : records[n] # Absent /\ records[n].cluster # ""

(* Before it, the record claims neither a run nor a condition. *)
UnlandedUnclaimed ==
  \A n \in Names \ (landed \cup removed) :
    records[n] # Absent => records[n].type = "" /\ records[n].phase # "Created"

LedgerInv ==
  /\ SafetyInv
  /\ SeenLanded
  /\ ConfirmsLanded
  /\ NotLandedYet
  /\ LandedHasRecord
  /\ UnlandedUnclaimed

(* The invariant behind OutcomeBeforeAnnotation: the cache shows an earlier *)
(* state of the same record, and whoever removes the annotation has seen    *)
(* its outcome.                                                             *)
CacheBehind ==
  \A n \in Names \ removed :
    cache[n] # Absent =>
      /\ records[n] = Absent => Quiet(n)
      /\ records[n] # Absent => /\ cache[n].creator = records[n].creator
                                /\ Closed(cache[n]) => Closed(records[n])
      /\ ~cache[n].pending => Closed(cache[n])
AnnotateClosed ==
  /\ \A a \in Attempts : NameOf[a] \notin removed /\ creator[a] = "annotate" => Closed(records[NameOf[a]])
  /\ \A n \in Names \ removed : recovery[n].pc = "annotate" /\ records[n] # Absent => Closed(records[n])

OutcomeInv ==
  /\ SafetyInv
  /\ CacheBehind
  /\ AnnotateClosed
  /\ OutcomeBeforeAnnotation

-----------------------------------------------------------------------------
(* What a step can do to what synchronization read and to landed. *)

(* syncHubRunStatus keeps the run it read, drops it or reads the stored one. *)
LEMMA SyncMoves ==
  ASSUME TypeOK, [Next]_vars, NEW n \in Names
  PROVE  syncing'[n] \in {syncing[n], NoRun, runs[n]}
<1>1. ASSUME NEW m \in Names, SyncStep(m) PROVE syncing'[n] \in {syncing[n], NoRun, runs[n]}
  BY <1>1 DEF SyncStep, SyncRead, SyncWrite, SyncStops, TypeOK
<1>2. ASSUME NEW a \in Attempts, AttemptStep(a) PROVE syncing' = syncing
  BY <1>2 DEF AttemptStep, BeginRecord, BeginIdentity, CreateAccepted, CreateRejected, CreateAmbiguous,
              AttemptStatus, AttemptAnnotation, AttemptStops
<1>3. ASSUME NEW m \in Names, RecoveryStep(m) PROVE syncing' = syncing
  BY <1>3 DEF RecoveryStep, RecoverList, RecoverDelete, RecoverCheck, RecoverStatus, RecoverAnnotation, RecoverStops
<1>4. ASSUME Environment PROVE syncing' = syncing
  BY <1>4 DEF Environment, RequestLands, RequestLost, Age, CacheSync, RunReports, RunExpires, RecordRemoved
<1>5. ASSUME UNCHANGED vars PROVE syncing' = syncing
  BY <1>5 DEF vars
<1> QED BY <1>1, <1>2, <1>3, <1>4, <1>5 DEF Next

(* Only the hub's acceptance of a create makes a name landed. *)
LEMMA LandedStep ==
  ASSUME TypeOK, LateRequests, [Next]_vars, NEW n \in Names
  PROVE  (n \in landed => n \in landed') /\ (n \in landed' => n \in landed \/ Landed(n))
<1> DEFINE Goal == (n \in landed => n \in landed') /\ (n \in landed' => n \in landed \/ Landed(n))
<1>1. ASSUME NEW a \in Attempts, CreateAccepted(a) \/ RequestLands(a) PROVE Goal
  <2>1. NameOf[a] \in Names BY NamesAssumption
  <2>2. /\ creator[a] = "create" \/ a \in inflight
        /\ runs[NameOf[a]] = NoRun /\ records' = records
        /\ runs' = [runs EXCEPT ![NameOf[a]] = [cluster |-> ClusterOf[a], cond |-> NoCondition]]
        /\ landed' = landed \cup {NameOf[a]}
    BY <1>1 DEF CreateAccepted, RequestLands, StoreRun
  <2>3. creator'[a] \notin {"create", "fail"} /\ a \notin inflight'
    BY <1>1 DEF CreateAccepted, RequestLands, LateRequests, TypeOK
  <2>4. n = NameOf[a] => runs'[n] # NoRun /\ runs'[n].cluster = ClusterOf[a]
    <3>1. [cluster |-> ClusterOf[a], cond |-> NoCondition] \in Run BY NamesAssumption DEF Run
    <3> QED BY <2>1, <2>2, <3>1, AbsentAssumption DEF TypeOK
  <2> QED BY <2>2, <2>3, <2>4 DEF Landed
<1>2. ASSUME landed' = landed PROVE Goal
  BY <1>2
<1>3. ASSUME NEW a \in Attempts,
             \/ BeginRecord(a) \/ BeginIdentity(a) \/ CreateRejected(a) \/ CreateAmbiguous(a)
             \/ AttemptStatus(a) \/ AttemptAnnotation(a) \/ AttemptStops(a) \/ RequestLost(a) \/ Age(a)
      PROVE  landed' = landed
  BY <1>3 DEF BeginRecord, BeginIdentity, CreateRejected, CreateAmbiguous, AttemptStatus, AttemptAnnotation,
              AttemptStops, RequestLost, Age
<1>4. ASSUME NEW m \in Names, RecoveryStep(m) \/ SyncStep(m) PROVE landed' = landed
  BY <1>4 DEF RecoveryStep, RecoverList, RecoverDelete, RecoverCheck, RecoverStatus, RecoverAnnotation, RecoverStops,
              SyncStep, SyncRead, SyncWrite, SyncStops
<1>5. ASSUME NEW m \in Names, CacheSync(m) \/ RunReports(m) \/ RunExpires(m) \/ RecordRemoved(m) PROVE landed' = landed
  BY <1>5 DEF CacheSync, RunReports, RunExpires, RecordRemoved
<1>6. ASSUME UNCHANGED vars PROVE landed' = landed
  BY <1>6 DEF vars
<1> HIDE DEF Goal
<1>7. Goal BY <1>1, <1>2, <1>3, <1>4, <1>5, <1>6 DEF Next, AttemptStep, Environment
<1> QED BY <1>7 DEF Goal

(* A step of Next satisfies all of the step predicates at once. *)
LEMMA Moves ==
  ASSUME SafetyInv, [Next]_vars, NEW n \in Names
  PROVE  /\ TypeOK /\ RecordMoves(n) /\ RunMoves(n) /\ CopyMoves(n)
         /\ syncing'[n] \in {syncing[n], NoRun, runs[n]}
         /\ (n \in landed => n \in landed') /\ (n \in landed' => n \in landed \/ Landed(n))
         /\ n \in removed => n \in removed'
<1>1. TypeOK /\ LateRequests BY DEF SafetyInv
<1> QED BY <1>1, RecordStep, RunStep, CopyStep, SyncMoves, LandedStep

(* Begin's two writes: a pending record that says nothing of a run, and the *)
(* identity of a record that had none.                                      *)
LEMMA BeginMoves ==
  ASSUME NEW n \in Names, Begun(n) \/ Identified(n)
  PROVE  /\ records'[n] # Absent /\ records'[n].pending
         /\ records'[n].type = "" /\ records'[n].phase \in {"", "Pending"}
<1>1. PICK a \in Attempts : records'[n] = PendingRecord(a) \/ records'[n] = IdentifiedRecord(a)
  BY DEF Begun, Identified
<1>2. /\ PendingRecord(a) # Absent /\ PendingRecord(a).phase = ""
      /\ IdentifiedRecord(a) # Absent /\ IdentifiedRecord(a).phase = "Pending"
  BY PendingTypes
<1>3. /\ PendingRecord(a).type = "" /\ PendingRecord(a).pending
      /\ IdentifiedRecord(a).type = "" /\ IdentifiedRecord(a).pending
  BY PendingStatus
<1> QED BY <1>1, <1>2, <1>3

LEMMA IdentityMoves ==
  ASSUME NEW n \in Names, Identified(n)
  PROVE  /\ records[n] # Absent /\ records[n].cluster = "" /\ records[n].pending
         /\ records[n].type = "" /\ records[n].phase = ""
         /\ records'[n].creator = records[n].creator
<1>1. PICK a \in Attempts : records[n] = PendingRecord(a) /\ records'[n] = IdentifiedRecord(a)
  BY DEF Identified
<1>2. PendingRecord(a) # Absent /\ PendingRecord(a).cluster = "" /\ PendingRecord(a).phase = ""
  BY PendingTypes
<1>3. PendingRecord(a).creator = a /\ IdentifiedRecord(a).creator = a
  BY PendingTypes
<1>4. PendingRecord(a).type = "" /\ PendingRecord(a).pending
  BY PendingStatus
<1> QED BY <1>1, <1>2, <1>3, <1>4

-----------------------------------------------------------------------------
(* Each part of LedgerInv is kept. *)

LEMMA SeenLandedStep ==
  ASSUME LedgerInv, [Next]_vars
  PROVE  SeenLanded' /\ ConfirmsLanded'
<1>1. ASSUME NEW n \in Names
      PROVE  /\ runs'[n] # NoRun \/ syncing'[n] # NoRun => n \in landed'
             /\ recovery'[n].pc = "confirm" => n \in landed'
  <2>1. RunMoves(n) /\ CopyMoves(n) /\ syncing'[n] \in {syncing[n], NoRun, runs[n]} /\ (n \in landed => n \in landed')
    BY Moves DEF LedgerInv
  <2>2. runs'[n] # NoRun => n \in landed' BY <2>1 DEF RunMoves, Landed, LedgerInv, SeenLanded
  <2>3. syncing'[n] # NoRun => n \in landed' BY <2>1 DEF LedgerInv, SeenLanded
  <2>4. recovery'[n].pc = "confirm" => n \in landed' BY <2>1 DEF CopyMoves, IdleRecovery, LedgerInv, SeenLanded
  <2> QED BY <2>2, <2>3, <2>4
<1>2. ASSUME NEW a \in Attempts, creator'[a] = "confirm" PROVE NameOf[a] \in landed'
  <2>1. NameOf[a] \in Names BY NamesAssumption
  <2>2. TypeOK /\ (NameOf[a] \in landed => NameOf[a] \in landed') BY <2>1, Moves DEF LedgerInv
  <2>3. CreatorMoves(a) BY <2>2, AttemptMoves
  <2> QED BY <1>2, <2>2, <2>3 DEF CreatorMoves, LedgerInv, ConfirmsLanded
<1> QED BY <1>1, <1>2 DEF SeenLanded, ConfirmsLanded

(* recoverPendingRuns deletes no record that names its cluster. *)
LEMMA IdentityStays ==
  ASSUME SafetyInv, [Next]_vars, NEW n \in Names, n \notin removed', records[n] # Absent, records[n].cluster # ""
  PROVE  records'[n] # Absent /\ SameIdentity(records'[n], records[n])
<1>1. RecordMoves(n) /\ n \notin removed /\ TypeOK BY Moves
<1>2. ~Begun(n) BY DEF Begun
<1>3. ~Identified(n) BY IdentityMoves
<1>4. ~Deleted(n)
  <2> SUFFICES ASSUME Deleted(n) PROVE FALSE OBVIOUS
  <2>1. recovery[n].seen # Absent BY <1>1 DEF Deleted, TypeOK
  <2>2. SameIdentity(recovery[n].seen, records[n])
    BY <1>1, <2>1 DEF Deleted, SafetyInv, AgedCopiesFresh
  <2> QED BY <2>2 DEF Deleted, SameIdentity
<1> QED BY <1>1, <1>2, <1>3, <1>4 DEF RecordMoves, Settled, Synced, SameIdentity

(* A create lands on the identified record of its attempt. *)
LEMMA LandsOnItsRecord ==
  ASSUME SafetyInv, NEW n \in Names, n \notin removed, Landed(n)
  PROVE  /\ records[n] # Absent /\ records[n].cluster # ""
         /\ records'[n] = records[n] /\ runs[n] = NoRun /\ runs'[n] # NoRun /\ n \in landed'
         /\ runs'[n].cluster = records[n].cluster
         /\ \E a \in Attempts : NameOf[a] = n /\ (creator[a] = "create" \/ a \in inflight)
<1>1. PICK a \in Attempts : /\ NameOf[a] = n
                            /\ creator[a] = "create" \/ a \in inflight
                            /\ runs[n] = NoRun /\ runs'[n] # NoRun /\ runs'[n].cluster = ClusterOf[a]
                            /\ records'[n] = records[n] /\ n \in landed'
  BY DEF Landed
<1>2. records[n] # Absent /\ records[n].cluster = ClusterOf[a] BY <1>1 DEF SafetyInv, Owned
<1>3. ClusterOf[a] # "" BY NamesAssumption
<1> QED BY <1>1, <1>2, <1>3

LEMMA LandedHasRecordStep ==
  ASSUME LedgerInv, [Next]_vars
  PROVE  LandedHasRecord'
<1> SUFFICES ASSUME NEW n \in landed', n \notin removed'
             PROVE  records'[n] # Absent /\ records'[n].cluster # ""
  BY DEF LandedHasRecord
<1>1. SafetyInv /\ TypeOK /\ TypeOK' BY TypeStep DEF LedgerInv, SafetyInv
<1>2. n \in Names BY <1>1 DEF TypeOK
<1>3. n \notin removed /\ (n \in landed \/ Landed(n)) BY <1>1, <1>2, Moves
<1>4. CASE n \in landed
  <2>1. records[n] # Absent /\ records[n].cluster # "" BY <1>3, <1>4 DEF LedgerInv, LandedHasRecord
  <2> QED BY <1>1, <1>2, <2>1, IdentityStays DEF SameIdentity
<1>5. CASE Landed(n) BY <1>1, <1>2, <1>3, <1>5, LandsOnItsRecord
<1> QED BY <1>3, <1>4, <1>5

LEMMA NotLandedYetStep ==
  ASSUME LedgerInv, [Next]_vars
  PROVE  NotLandedYet'
<1> SUFFICES ASSUME NEW a \in Attempts, NameOf[a] \notin removed',
                    creator'[a] \in {"create", "fail"} \/ a \in inflight'
             PROVE  NameOf[a] \notin landed'
  BY DEF NotLandedYet
<1> DEFINE n == NameOf[a]
<1>1. SafetyInv /\ n \in Names BY NamesAssumption DEF LedgerInv
<1>2. TypeOK /\ n \notin removed /\ (n \in landed' => n \in landed \/ Landed(n)) BY <1>1, Moves
<1>3. CreatorMoves(a) /\ RequestMoves(a) BY <1>2, AttemptMoves
<1>4. CASE creator[a] = "identity" /\ a \notin inflight
  <2>1. records[n] = PendingRecord(a) /\ runs'[n] = runs[n] BY <1>3, <1>4 DEF CreatorMoves, RequestMoves
  <2>2. records[n].cluster = "" BY <2>1, PendingTypes
  <2>3. n \notin landed BY <1>2, <2>2 DEF LedgerInv, LandedHasRecord
  <2>4. ~Landed(n) BY <2>1 DEF Landed
  <2> QED BY <1>2, <2>3, <2>4
<1>5. CASE creator[a] # "identity" \/ a \in inflight
  <2>1. creator[a] \in {"create", "fail"} \/ a \in inflight BY <1>3, <1>5 DEF CreatorMoves, RequestMoves
  <2>2. n \notin landed BY <1>2, <2>1 DEF LedgerInv, NotLandedYet
  <2>3. ~Landed(n)
    <3>1. ASSUME NEW b \in Attempts, NameOf[b] = n, creator[b] = "create" \/ b \in inflight PROVE b = a
      BY <1>1, <1>2, <2>1, <3>1, OneOwner
    <3> QED BY <3>1 DEF Landed
  <2> QED BY <1>2, <2>2, <2>3
<1> QED BY <1>4, <1>5

(* Only a confirmation writes Created, and only a read run a condition. *)
LEMMA ClaimsAreLanded ==
  ASSUME LedgerInv, NEW n \in Names,
         (Settled(n) /\ records'[n].phase = "Created" /\ records[n].phase # "Created") \/ Synced(n)
  PROVE  n \in landed
<1>1. CASE Settled(n)
  BY <1>1 DEF Settled, Finishes, Synced, LedgerInv, ConfirmsLanded, SeenLanded
<1>2. CASE Synced(n)
  BY <1>2 DEF Synced, LedgerInv, SeenLanded
<1> QED BY <1>1, <1>2

LEMMA UnclaimedStep ==
  ASSUME LedgerInv, [Next]_vars
  PROVE  UnlandedUnclaimed'
<1> SUFFICES ASSUME NEW n \in Names, n \notin landed', n \notin removed', records'[n] # Absent
             PROVE  records'[n].type = "" /\ records'[n].phase # "Created"
  BY DEF UnlandedUnclaimed
<1>1. RecordMoves(n) /\ n \notin landed /\ n \notin removed BY Moves DEF LedgerInv
<1>2. CASE Begun(n) \/ Identified(n) BY <1>2, BeginMoves
<1>3. ~Synced(n) BY <1>1, ClaimsAreLanded
<1>4. records[n] # Absent => records[n].type = "" /\ records[n].phase # "Created"
  BY <1>1 DEF LedgerInv, UnlandedUnclaimed
<1>5. CASE Settled(n)
  <2>1. records'[n].type = records[n].type /\ records[n] # Absent BY <1>5 DEF Settled
  <2> QED BY <1>1, <1>4, <1>5, <2>1, ClaimsAreLanded
<1> QED BY <1>1, <1>2, <1>3, <1>4, <1>5 DEF RecordMoves, Deleted

(* The refinement's invariant holds of every behaviour of the protocol. *)
THEOREM LedgerSafety == ASSUME Timely PROVE Spec => []LedgerInv
<1>1. Init /\ SafetyInv => LedgerInv
  <2> SUFFICES ASSUME Init, SafetyInv PROVE LedgerInv OBVIOUS
  <2>1. /\ \A n \in Names : records[n] = Absent /\ runs[n] = NoRun /\ syncing[n] = NoRun /\ recovery[n].pc = "idle"
        /\ \A a \in Attempts : creator[a] = "begin"
        /\ inflight = {} /\ landed = {}
    BY DEF Init, IdleRecovery
  <2> QED BY <2>1 DEF LedgerInv, SeenLanded, ConfirmsLanded, NotLandedYet, LandedHasRecord, UnlandedUnclaimed
<1>2. LedgerInv /\ [Next]_vars /\ SafetyInv' => LedgerInv'
  BY SeenLandedStep, NotLandedYetStep, LandedHasRecordStep, UnclaimedStep DEF LedgerInv
<1> QED BY <1>1, <1>2, Safety, PTL DEF Spec

(* A name gets one run at most: no late request, no recovery and no second  *)
(* attempt of the same name creates a run where one was created before.     *)
THEOREM OneRunPerName == ASSUME Timely PROVE Spec => NoSecondRun
<1>1. ASSUME LedgerInv, [Next]_vars, NEW n \in landed \ removed, runs[n] = NoRun PROVE runs'[n] = NoRun
  <2>1. SafetyInv /\ n \in Names BY <1>1 DEF LedgerInv, SafetyInv, TypeOK
  <2>2. RunMoves(n) BY <1>1, <2>1, Moves
  <2>3. ~Landed(n) BY <1>1 DEF Landed, LedgerInv, NotLandedYet
  <2> QED BY <1>1, <2>2, <2>3 DEF RunMoves
<1>2. LedgerInv /\ [Next]_vars => [\A n \in landed \ removed : runs[n] = NoRun => runs'[n] = NoRun]_vars
  BY <1>1
<1> QED BY <1>2, LedgerSafety, PTL DEF Spec, NoSecondRun

-----------------------------------------------------------------------------
(* Outcomes: what the phase, the type and the annotation of a record say.   *)

(* No writer reopens an outcome. *)
LEMMA ClosedStays ==
  ASSUME TypeOK, [Next]_vars, NEW n \in Names,
         records[n] # Absent, records'[n] # Absent, Closed(records[n])
  PROVE  Closed(records'[n])
<1>1. RecordMoves(n) BY RecordStep
<1>2. ~Begun(n) BY DEF Begun
<1>3. ~Identified(n) BY IdentityMoves DEF Closed
<1> QED BY <1>1, <1>2, <1>3 DEF RecordMoves, Settled, Finishes, Synced, Deleted, Closed

LEMMA CacheBehindStep ==
  ASSUME OutcomeInv, [Next]_vars
  PROVE  CacheBehind'
<1> SUFFICES ASSUME NEW n \in Names, n \notin removed', cache'[n] # Absent
             PROVE  /\ records'[n] = Absent => Quiet(n)'
                    /\ records'[n] # Absent => /\ cache'[n].creator = records'[n].creator
                                               /\ Closed(cache'[n]) => Closed(records'[n])
                    /\ ~cache'[n].pending => Closed(cache'[n])
  BY DEF CacheBehind, Closed
<1>1. TypeOK /\ RecordMoves(n) /\ CopyMoves(n) /\ n \notin removed BY Moves DEF OutcomeInv
<1>2. CASE cache'[n] = records[n] /\ records'[n] = records[n]
  BY <1>1, <1>2 DEF OutcomeInv, OutcomeBeforeAnnotation, Closed
<1>3. CASE cache'[n] = cache[n]
  <2>1. /\ records[n] = Absent => Quiet(n)
        /\ records[n] # Absent => cache[n].creator = records[n].creator /\ (Closed(cache[n]) => Closed(records[n]))
        /\ ~cache[n].pending => Closed(cache[n])
    BY <1>1, <1>3 DEF OutcomeInv, CacheBehind
  <2>2. ASSUME records'[n] = Absent PROVE Quiet(n)'
    <3>1. Deleted(n) => Quiet(n)
      <4>1. Deleted(n) => recovery[n].seen # Absent /\ recovery[n].seen.creator \in aged
        BY <1>1 DEF Deleted, TypeOK
      <4> QED BY <4>1 DEF OutcomeInv, SafetyInv, CopiesNamed, AgedQuiet
    <3>2. records[n] = Absent \/ Deleted(n)
      BY <1>1, <2>2, BeginMoves DEF RecordMoves, Settled, Synced
    <3> QED BY <1>1, <2>1, <3>1, <3>2, QuietStays
  <2>3. ASSUME records'[n] # Absent
        PROVE  cache[n].creator = records'[n].creator /\ (Closed(cache[n]) => Closed(records'[n]))
    <3>1. ~Begun(n) BY <2>1 DEF Begun, Quiet
    <3>2. records[n] # Absent /\ records'[n].creator = records[n].creator
      BY <1>1, <2>3, <3>1, IdentityMoves DEF RecordMoves, Settled, Synced, Deleted, SameIdentity
    <3> QED BY <1>1, <2>1, <2>3, <3>2, ClosedStays
  <2> QED BY <1>3, <2>1, <2>2, <2>3
<1> QED BY <1>1, <1>2, <1>3 DEF CopyMoves

(* Whichever copy finishCreation's first loop read, the stored outcome is closed. *)
LEMMA ClosesStored ==
  ASSUME OutcomeInv, NEW n \in Names, n \notin removed, records[n] # Absent,
         NEW copy, copy = cache[n] \/ copy = records[n], Closes(n, copy)
  PROVE  Closed(records'[n])
<1>1. copy # Absent /\ ~OutcomeOpen(copy) => Closed(copy)
  BY DEF OutcomeOpen, Closed, OutcomeInv, CacheBehind, OutcomeBeforeAnnotation
<1> QED BY <1>1 DEF Closes, OutcomeInv, CacheBehind

LEMMA AnnotateClosedStep ==
  ASSUME OutcomeInv, [Next]_vars
  PROVE  AnnotateClosed'
<1>1. ASSUME NEW a \in Attempts, NameOf[a] \notin removed', creator'[a] = "annotate"
      PROVE  Closed(records'[NameOf[a]])
  <2> DEFINE n == NameOf[a]
  <2>1. n \in Names /\ SafetyInv BY NamesAssumption DEF OutcomeInv
  <2>2. TypeOK /\ n \notin removed BY <1>1, <2>1, Moves
  <2>3. CreatorMoves(a) BY <2>2, AttemptMoves
  <2>4. creator[a] = "annotate" \/ (creator[a] \in {"confirm", "fail"} /\ Closes(n, CopyFor(a)))
    BY <1>1, <2>3 DEF CreatorMoves
  <2>5. records[n] # Absent BY <2>1, <2>2, <2>4 DEF SafetyInv, Owned
  <2>6. CASE creator[a] = "annotate"
    <3>1. Closed(records[n]) BY <2>2, <2>6 DEF OutcomeInv, AnnotateClosed
    <3>2. records'[n] # Absent BY <1>1, <2>1, OwnedStep DEF Owned
    <3> QED BY <2>1, <2>2, <2>5, <3>1, <3>2, ClosedStays
  <2>7. CASE Closes(n, CopyFor(a))
    <3>1. CopyFor(a) = cache[n] \/ CopyFor(a) = records[n] BY DEF CopyFor
    <3> QED BY <2>1, <2>2, <2>5, <2>7, <3>1, ClosesStored
  <2> QED BY <2>4, <2>6, <2>7
<1>2. ASSUME NEW n \in Names, n \notin removed', recovery'[n].pc = "annotate", records'[n] # Absent
      PROVE  Closed(records'[n])
  <2>1. TypeOK /\ RecordMoves(n) /\ CopyMoves(n) /\ n \notin removed BY <1>2, Moves DEF OutcomeInv
  <2>2. recovery[n].pc \in {"confirm", "fail", "annotate"} BY <1>2, <2>1 DEF CopyMoves, IdleRecovery
  <2>3. ~Begun(n) BY <2>2 DEF OutcomeInv, SafetyInv, RecoveryQuiet, Quiet, Begun
  <2>4. records[n] # Absent
    BY <1>2, <2>1, <2>3, IdentityMoves DEF RecordMoves, Settled, Synced, Deleted
  <2>5. recovery[n].pc = "annotate" \/ Closes(n, cache[n]) BY <1>2, <2>1 DEF CopyMoves, IdleRecovery
  <2>6. CASE recovery[n].pc = "annotate"
    <3>1. Closed(records[n]) BY <2>1, <2>4, <2>6 DEF OutcomeInv, AnnotateClosed
    <3> QED BY <1>2, <2>1, <2>4, <3>1, ClosedStays
  <2>7. CASE Closes(n, cache[n]) BY <2>1, <2>4, <2>7, ClosesStored
  <2> QED BY <2>5, <2>6, <2>7
<1> QED BY <1>1, <1>2 DEF AnnotateClosed, Closed

LEMMA AnnotationStep ==
  ASSUME OutcomeInv, [Next]_vars
  PROVE  OutcomeBeforeAnnotation'
<1> SUFFICES ASSUME NEW n \in Names, n \notin removed', records'[n] # Absent, ~records'[n].pending
             PROVE  Closed(records'[n])
  BY DEF OutcomeBeforeAnnotation, Closed
<1>1. TypeOK /\ RecordMoves(n) /\ n \notin removed BY Moves DEF OutcomeInv
<1>2. ~Begun(n) /\ ~Identified(n) BY BeginMoves
<1>3. ASSUME records'[n] = records[n] PROVE Closed(records'[n])
  BY <1>1, <1>3 DEF OutcomeInv, OutcomeBeforeAnnotation, Closed
<1>4. ASSUME Settled(n) PROVE Closed(records'[n])
  <2>1. records[n] # Absent BY <1>4 DEF Settled
  <2>2. \/ records'[n].phase \in {"Created", "Failed"}
        \/ \E a \in Attempts : NameOf[a] = n /\ creator[a] = "annotate"
        \/ recovery[n].pc = "annotate"
    BY <1>4 DEF Settled, Finishes
  <2>3. CASE records'[n].phase \in {"Created", "Failed"} BY <2>3 DEF Closed
  <2>4. CASE (\E a \in Attempts : NameOf[a] = n /\ creator[a] = "annotate") \/ recovery[n].pc = "annotate"
    <3>1. Closed(records[n]) BY <1>1, <2>1, <2>4 DEF OutcomeInv, AnnotateClosed
    <3> QED BY <1>1, <2>1, <3>1, ClosedStays
  <2> QED BY <2>2, <2>3, <2>4
<1>5. ASSUME Synced(n) PROVE Closed(records'[n])
  BY <1>5 DEF Synced, Closed
<1> QED BY <1>1, <1>2, <1>3, <1>4, <1>5 DEF RecordMoves, Deleted

(* finishCreation never takes a record from recovery's attention before its *)
(* outcome is stored, whether an attempt or recoverPendingRuns calls it,    *)
(* and however stale the cached copy it decides on.                         *)
THEOREM AnnotationAfterOutcome == ASSUME Timely PROVE Spec => []OutcomeBeforeAnnotation
<1>1. Init /\ SafetyInv => OutcomeInv
  <2> SUFFICES ASSUME Init, SafetyInv PROVE OutcomeInv OBVIOUS
  <2>1. /\ \A n \in Names : records[n] = Absent /\ cache[n] = Absent /\ recovery[n].pc = "idle"
        /\ \A a \in Attempts : creator[a] = "begin"
    BY DEF Init, IdleRecovery
  <2> QED BY <2>1 DEF OutcomeInv, CacheBehind, AnnotateClosed, OutcomeBeforeAnnotation
<1>2. OutcomeInv /\ [Next]_vars /\ SafetyInv' => OutcomeInv'
  BY CacheBehindStep, AnnotateClosedStep, AnnotationStep DEF OutcomeInv
<1>3. OutcomeInv => OutcomeBeforeAnnotation BY DEF OutcomeInv
<1> QED BY <1>1, <1>2, <1>3, Safety, PTL DEF Spec

(* syncHubRunStatus and finishCreation do not mix what they write: where    *)
(* conditions can be told from Begin's phases, a record shows type and      *)
(* phase of one condition, under any grace period.                          *)
THEOREM OneCondition == ASSUME TellingConditions PROVE Spec => []TypeAndPhaseFromOneCondition
<1>1. Init => TypeAndPhaseFromOneCondition BY DEF Init, TypeAndPhaseFromOneCondition
<1>2. TypeOK /\ TypeAndPhaseFromOneCondition /\ [Next]_vars => TypeAndPhaseFromOneCondition'
  <2> SUFFICES ASSUME TypeOK, TypeAndPhaseFromOneCondition, [Next]_vars,
                      NEW n \in Names, records'[n] # Absent, records'[n].type # ""
               PROVE  [type |-> records'[n].type, phase |-> records'[n].phase] \in Conditions
    BY DEF TypeAndPhaseFromOneCondition
  <2>1. RecordMoves(n) BY RecordStep
  <2>2. ~Begun(n) /\ ~Identified(n) BY BeginMoves
  <2>3. records[n] # Absent /\ records[n].type # ""
          => /\ [type |-> records[n].type, phase |-> records[n].phase] \in Conditions
             /\ records[n].phase \notin {"", "Pending"}
    BY DEF TypeAndPhaseFromOneCondition, TellingConditions
  <2>4. CASE Settled(n)
    <3>1. records[n] # Absent /\ records'[n].type = records[n].type BY <2>4 DEF Settled
    <3>2. records'[n].phase = records[n].phase BY <2>3, <2>4, <3>1 DEF Settled, Finishes
    <3> QED BY <2>3, <3>1, <3>2
  <2>5. CASE Synced(n) BY <2>5 DEF Synced
  <2> QED BY <2>1, <2>2, <2>3, <2>4, <2>5 DEF RecordMoves, Deleted
<1> QED BY <1>1, <1>2, TypeCorrect, PTL DEF Spec

(* No writer of a record undoes another, whatever copy it computed its      *)
(* update from: identity, annotation, outcome and condition only advance.   *)
THEOREM WritersOnlyAdvance == ASSUME TellingConditions PROVE Spec => NothingUndone
<1>1. ASSUME TypeOK, [Next]_vars, NEW n \in Names,
             records[n] # Absent, records'[n] # Absent, records'[n].creator = records[n].creator
      PROVE  /\ records[n].cluster # "" => records'[n].cluster = records[n].cluster
             /\ ~records[n].pending => ~records'[n].pending
             /\ records[n].phase \in {"Created", "Failed"} => records'[n].phase \notin {"", "Pending"}
             /\ records[n].type # "" => records'[n].type # ""
  <2>1. RecordMoves(n) BY <1>1, RecordStep
  <2>2. ~Begun(n) BY <1>1 DEF Begun
  <2>3. ASSUME Identified(n)
        PROVE  /\ records[n].cluster = "" /\ records[n].pending
               /\ records[n].phase = "" /\ records[n].type = ""
    BY <2>3, IdentityMoves
  <2>4. ASSUME Synced(n)
        PROVE  /\ records'[n].cluster = records[n].cluster /\ records'[n].pending = records[n].pending
               /\ records'[n].phase \notin {"", "Pending"} /\ records'[n].type # ""
    BY <2>4 DEF Synced, SameIdentity, TellingConditions
  <2>5. ASSUME Settled(n)
        PROVE  /\ records'[n].cluster = records[n].cluster /\ records'[n].type = records[n].type
               /\ ~records[n].pending => ~records'[n].pending
               /\ records[n].phase \in {"Created", "Failed"} => records'[n].phase = records[n].phase
    BY <2>5 DEF Settled, Finishes, SameIdentity
  <2> QED BY <1>1, <2>1, <2>2, <2>3, <2>4, <2>5 DEF RecordMoves, Deleted
<1> DEFINE Advances ==
      \A n \in Names :
       (records[n] # Absent /\ records'[n] # Absent /\ records'[n].creator = records[n].creator)
         => /\ records[n].cluster # "" => records'[n].cluster = records[n].cluster
            /\ ~records[n].pending => ~records'[n].pending
            /\ records[n].phase \in {"Created", "Failed"} => records'[n].phase \notin {"", "Pending"}
            /\ records[n].type # "" => records'[n].type # ""
<1>2. TypeOK /\ [Next]_vars => Advances BY <1>1
<1>3. NothingUndone <=> [][Advances]_vars BY DEF NothingUndone
<1> HIDE DEF Advances
<1> QED BY <1>2, <1>3, TypeCorrect, PTL DEF Spec

-----------------------------------------------------------------------------
(* The refinement.  A step touches one name, and what it does to that name  *)
(* is a step of the ledger or leaves the ledger's view of it alone.         *)

(* The variables the ledger is computed from do not change at name n. *)
Untouched(n) ==
  /\ records'[n] = records[n] /\ runs'[n] = runs[n]
  /\ n \in removed' <=> n \in removed
  /\ n \in landed' <=> n \in landed

LEMMA OneNameAtATime ==
  ASSUME TypeOK, [Next]_vars
  PROVE  (\A n \in Names : Untouched(n)) \/ (\E m \in Names : \A n \in Names \ {m} : Untouched(n))
<1> DEFINE Local(m) == \A n \in Names \ {m} : Untouched(n)
<1>1. ASSUME NEW m \in Names, NEW copy, NEW p, FinishStatus(m, copy, p) \/ FinishAnnotation(m, copy),
             UNCHANGED <<runs, removed, landed>>
      PROVE  Local(m)
  BY <1>1 DEF FinishStatus, FinishAnnotation, Untouched, TypeOK
<1>2. ASSUME NEW a \in Attempts, AttemptStatus(a) \/ AttemptAnnotation(a) PROVE Local(NameOf[a])
  <2>1. NameOf[a] \in Names BY NamesAssumption
  <2> QED BY <1>1, <1>2, <2>1 DEF AttemptStatus, AttemptAnnotation
<1>3. ASSUME NEW a \in Attempts, BeginRecord(a) \/ BeginIdentity(a) PROVE Local(NameOf[a])
  BY <1>3 DEF BeginRecord, BeginIdentity, Untouched, TypeOK
<1>4. ASSUME NEW a \in Attempts, CreateAccepted(a) \/ RequestLands(a) PROVE Local(NameOf[a])
  BY <1>4 DEF CreateAccepted, RequestLands, StoreRun, Untouched, TypeOK
<1>5. ASSUME NEW m \in Names, RecoverStatus(m) \/ RecoverAnnotation(m) PROVE Local(m)
  BY <1>1, <1>5 DEF RecoverStatus, RecoverAnnotation
<1>6. ASSUME NEW m \in Names, RecoverDelete(m) \/ SyncWrite(m) \/ RunReports(m) \/ RunExpires(m) \/ RecordRemoved(m)
      PROVE  Local(m)
  BY <1>6 DEF RecoverDelete, SyncWrite, RunReports, RunExpires, RecordRemoved, Untouched, TypeOK
<1>7. ASSUME UNCHANGED <<records, runs, removed, landed>> PROVE \A n \in Names : Untouched(n)
  BY <1>7 DEF Untouched
<1>8. ASSUME NEW a \in Attempts,
             \/ CreateRejected(a) \/ CreateAmbiguous(a) \/ AttemptStops(a) \/ RequestLost(a) \/ Age(a)
      PROVE  UNCHANGED <<records, runs, removed, landed>>
  BY <1>8 DEF CreateRejected, CreateAmbiguous, AttemptStops, RequestLost, Age
<1>9. ASSUME NEW m \in Names,
             \/ RecoverList(m) \/ RecoverCheck(m) \/ RecoverStops(m) \/ SyncRead(m) \/ SyncStops(m) \/ CacheSync(m)
      PROVE  UNCHANGED <<records, runs, removed, landed>>
  BY <1>9 DEF RecoverList, RecoverCheck, RecoverStops, SyncRead, SyncStops, CacheSync
<1>10. ASSUME UNCHANGED vars PROVE \A n \in Names : Untouched(n) BY <1>7, <1>10 DEF vars
<1>11. \A a \in Attempts : NameOf[a] \in Names BY NamesAssumption
<1>12. (\A n \in Names : Untouched(n)) \/ (\E m \in Names : Local(m))
  <2> HIDE DEF Local
  <2>1. ASSUME NEW a \in Attempts, AttemptStep(a) \/ RequestLands(a) \/ RequestLost(a) \/ Age(a)
        PROVE  (\A n \in Names : Untouched(n)) \/ (\E m \in Names : Local(m))
    BY <2>1, <1>2, <1>3, <1>4, <1>7, <1>8, <1>11 DEF AttemptStep
  <2>2. ASSUME NEW k \in Names, RecoveryStep(k) \/ SyncStep(k) \/ CacheSync(k) \/ RunReports(k) \/ RunExpires(k)
                                \/ RecordRemoved(k)
        PROVE  (\A n \in Names : Untouched(n)) \/ (\E m \in Names : Local(m))
    BY <2>2, <1>5, <1>6, <1>7, <1>9 DEF RecoveryStep, SyncStep
  <2> QED BY <1>10, <2>1, <2>2 DEF Next, Environment
<1> QED BY <1>12

(* The ledger's view of a name does not change. *)
Same(n) == EntryOf(n)' = EntryOf(n) /\ OwnerOf(n)' = OwnerOf(n) /\ RunOf(n)' = RunOf(n)

LEMMA UntouchedSame ==
  ASSUME NEW n \in Names, Untouched(n)
  PROVE  Same(n)
<1>1. EntryOf(n)' = EntryOf(n) BY DEF Untouched, EntryOf
<1>2. RunOf(n)' = RunOf(n) BY DEF Untouched, RunOf
<1>3. OwnerOf(n)' = OwnerOf(n) BY <1>1 DEF Untouched, OwnerOf
<1> QED BY <1>1, <1>2, <1>3 DEF Same

(* What happens to one name, in the ledger's words. *)
LedgerMoves(n) ==
  \/ Same(n)
  \/ /\ EntryOf(n) = "none" /\ EntryOf(n)' = "open"
     /\ OwnerOf(n)' \in Clusters /\ RunOf(n)' = RunOf(n)
  \/ /\ EntryOf(n) = "open" /\ RunOf(n) = NoRun /\ RunOf(n)' = OwnerOf(n)
     /\ EntryOf(n)' = EntryOf(n) /\ OwnerOf(n)' = OwnerOf(n)
  \/ /\ RunOf(n) \in Clusters /\ RunOf(n)' = Absent
     /\ EntryOf(n)' = EntryOf(n) /\ OwnerOf(n)' = OwnerOf(n)
  \/ /\ \/ EntryOf(n) = "open" /\ RunOf(n) # NoRun /\ EntryOf(n)' = "created"
        \/ EntryOf(n) = "open" /\ RunOf(n) \notin Clusters /\ EntryOf(n)' = "failed"
        \/ EntryOf(n) \in {"open", "created", "failed"} /\ RunOf(n) # NoRun /\ EntryOf(n)' = "reported"
     /\ OwnerOf(n)' = OwnerOf(n) /\ RunOf(n)' = RunOf(n)
  \/ /\ EntryOf(n) # "purged" /\ EntryOf(n)' = "purged"
     /\ OwnerOf(n)' = NoRun /\ RunOf(n)' = NoRun

(* The entry of a record with identity; a removed name has none. *)
LEMMA EntryCases ==
  ASSUME NEW n \in Names, n \notin removed, records[n] # Absent, records[n].cluster # ""
  PROVE  /\ EntryOf(n) = IF records[n].type # "" THEN "reported"
                         ELSE IF records[n].phase = "Created" THEN "created"
                         ELSE IF records[n].phase = "Failed" THEN "failed" ELSE "open"
         /\ OwnerOf(n) = records[n].cluster
<1>1. EntryOf(n) = IF records[n].type # "" THEN "reported"
                   ELSE IF records[n].phase = "Created" THEN "created"
                   ELSE IF records[n].phase = "Failed" THEN "failed" ELSE "open"
  BY DEF EntryOf
<1> QED BY <1>1 DEF OwnerOf

LEMMA LedgerMove ==
  ASSUME LedgerInv, [Next]_vars, NEW n \in Names
  PROVE  LedgerMoves(n)
<1>1. SafetyInv BY DEF LedgerInv
<1>2. /\ TypeOK /\ RecordMoves(n) /\ RunMoves(n)
      /\ (n \in landed => n \in landed') /\ (n \in landed' => n \in landed \/ Landed(n))
      /\ n \in removed => n \in removed'
  BY <1>1, Moves
<1>3. CASE n \in removed'
  <2>1. EntryOf(n)' = "purged" /\ RunOf(n)' = NoRun BY <1>3 DEF EntryOf, RunOf
  <2>2. OwnerOf(n)' = NoRun BY <2>1 DEF OwnerOf
  <2>3. n \in removed => Same(n)
    <3>1. n \in removed => EntryOf(n) = "purged" /\ RunOf(n) = NoRun BY DEF EntryOf, RunOf
    <3>2. n \in removed => OwnerOf(n) = NoRun BY <3>1 DEF OwnerOf
    <3> QED BY <2>1, <2>2, <3>1, <3>2 DEF Same
  <2>4. n \notin removed => EntryOf(n) # "purged" BY DEF EntryOf
  <2> QED BY <2>1, <2>2, <2>3, <2>4 DEF LedgerMoves
<1>4. CASE n \notin removed'
  <2>1. n \notin removed BY <1>2, <1>4
  <2>2. runs[n] # NoRun => runs[n].cluster \in Clusters /\ n \in landed
    <3>1. runs[n] # NoRun => runs[n] \in Run BY <1>2 DEF TypeOK
    <3> QED BY <3>1 DEF Run, LedgerInv, SeenLanded
  <2>3. ASSUME ~Landed(n) PROVE n \in landed' <=> n \in landed
    BY <1>2, <2>3
  <2>4. ASSUME Landed(n) PROVE LedgerMoves(n)
    <3>1. /\ records[n] # Absent /\ records[n].cluster # ""
          /\ records'[n] = records[n] /\ runs[n] = NoRun /\ runs'[n] # NoRun /\ n \in landed'
          /\ runs'[n].cluster = records[n].cluster
      BY <1>1, <2>1, <2>4, LandsOnItsRecord
    <3>2. PICK a \in Attempts : NameOf[a] = n /\ (creator[a] = "create" \/ a \in inflight)
      BY <1>1, <2>1, <2>4, LandsOnItsRecord
    <3>3. n \notin landed BY <2>1, <3>2 DEF LedgerInv, NotLandedYet
    <3>4. records[n].type = "" /\ records[n].phase \notin {"Created", "Failed"}
      <4>1. records[n].type = "" /\ records[n].phase # "Created"
        BY <2>1, <3>1, <3>3 DEF LedgerInv, UnlandedUnclaimed
      <4> QED BY <1>1, <2>1, <3>1, <3>2, <4>1 DEF SafetyInv, FailedIsFinal
    <3>5. EntryOf(n) = "open" /\ OwnerOf(n) = records[n].cluster BY <2>1, <3>1, <3>4, EntryCases
    <3>6. EntryOf(n)' = EntryOf(n) BY <1>4, <2>1, <3>1 DEF EntryOf
    <3>7. OwnerOf(n)' = OwnerOf(n) BY <3>1, <3>6 DEF OwnerOf
    <3>8. RunOf(n) = NoRun /\ RunOf(n)' = records[n].cluster BY <1>4, <2>1, <3>1, <3>3 DEF RunOf
    <3> QED BY <3>5, <3>6, <3>7, <3>8 DEF LedgerMoves
  <2>5. ASSUME ~Landed(n), records'[n] = records[n] PROVE LedgerMoves(n)
    <3>1. EntryOf(n)' = EntryOf(n) BY <1>4, <2>1, <2>5 DEF EntryOf
    <3>2. OwnerOf(n)' = OwnerOf(n) BY <2>5, <3>1 DEF OwnerOf
    <3>3. RunOf(n)' = RunOf(n) \/ (RunOf(n) \in Clusters /\ RunOf(n)' = Absent)
      BY <1>2, <1>4, <2>1, <2>2, <2>3, <2>5 DEF RunMoves, RunOf
    <3> QED BY <3>1, <3>2, <3>3 DEF LedgerMoves, Same
  <2>6. ASSUME ~Landed(n), runs'[n] = runs[n] PROVE RunOf(n)' = RunOf(n)
    BY <1>4, <2>1, <2>3, <2>6 DEF RunOf
  <2>7. ASSUME Begun(n), ~Landed(n) PROVE LedgerMoves(n)
    <3>1. PICK a \in Attempts : records[n] = Absent /\ records'[n] = PendingRecord(a) /\ runs'[n] = runs[n]
      BY <2>7 DEF Begun
    <3>2. PendingRecord(a).cluster = "" BY PendingTypes
    <3>3. EntryOf(n) = "none" BY <2>1, <3>1 DEF EntryOf
    <3>4. EntryOf(n)' = "none" BY <1>4, <3>1, <3>2 DEF EntryOf
    <3>5. OwnerOf(n)' = OwnerOf(n) BY <3>3, <3>4 DEF OwnerOf
    <3> QED BY <2>6, <2>7, <3>1, <3>3, <3>4, <3>5 DEF LedgerMoves, Same
  <2>8. ASSUME Identified(n), ~Landed(n) PROVE LedgerMoves(n)
    <3>1. PICK a \in Attempts : records[n] = PendingRecord(a) /\ records'[n] = IdentifiedRecord(a) /\ runs'[n] = runs[n]
      BY <2>8 DEF Identified
    <3>2. /\ PendingRecord(a).cluster = "" /\ IdentifiedRecord(a) # Absent
          /\ IdentifiedRecord(a).cluster = ClusterOf[a] /\ IdentifiedRecord(a).phase = "Pending"
      BY PendingTypes
    <3>3. ClusterOf[a] \in Clusters /\ ClusterOf[a] # "" /\ IdentifiedRecord(a).type = ""
      BY NamesAssumption, PendingStatus
    <3>4. EntryOf(n) = "none" BY <2>1, <3>1, <3>2 DEF EntryOf
    <3>5. EntryOf(n)' = "open" BY <1>4, <3>1, <3>2, <3>3 DEF EntryOf
    <3>6. OwnerOf(n)' = ClusterOf[a] BY <3>1, <3>2, <3>5 DEF OwnerOf
    <3> QED BY <2>6, <2>8, <3>1, <3>3, <3>4, <3>5, <3>6 DEF LedgerMoves
  <2>9. ASSUME Settled(n), ~Landed(n) PROVE LedgerMoves(n)
    <3> DEFINE r == records[n]
               s == records'[n]
    <3>1. /\ r # Absent /\ s # Absent /\ s.cluster = r.cluster /\ s.type = r.type /\ runs'[n] = runs[n]
      BY <2>9 DEF Settled, SameIdentity
    <3>2. RunOf(n)' = RunOf(n) BY <2>6, <2>9, <3>1
    <3>3. CASE r.cluster = ""
      <4>1. EntryOf(n) = "none" /\ EntryOf(n)' = "none" BY <1>4, <2>1, <3>1, <3>3 DEF EntryOf
      <4>2. OwnerOf(n)' = OwnerOf(n) BY <4>1 DEF OwnerOf
      <4> QED BY <3>2, <4>1, <4>2 DEF LedgerMoves, Same
    <3>4. CASE r.cluster # ""
      <4>1. EntryOf(n) = IF r.type # "" THEN "reported" ELSE IF r.phase = "Created" THEN "created"
                         ELSE IF r.phase = "Failed" THEN "failed" ELSE "open"
        BY <2>1, <3>1, <3>4, EntryCases
      <4>2. EntryOf(n)' = IF s.type # "" THEN "reported" ELSE IF s.phase = "Created" THEN "created"
                          ELSE IF s.phase = "Failed" THEN "failed" ELSE "open"
        BY <1>4, <3>1, <3>4 DEF EntryOf
      <4>3. OwnerOf(n) = r.cluster /\ OwnerOf(n)' = r.cluster
        <5>1. OwnerOf(n) = r.cluster BY <2>1, <3>1, <3>4, EntryCases
        <5>2. EntryOf(n)' \notin {"none", "purged"} BY <4>2
        <5> QED BY <3>1, <5>1, <5>2 DEF OwnerOf
      <4>4. \/ s.phase = r.phase
            \/ r.phase \in {"", "Pending"} /\ s.phase = "Created" /\ n \in landed
            \/ r.phase \in {"", "Pending"} /\ s.phase = "Failed" /\ runs[n] = NoRun
        <5>1. n \in landed \/ s.phase # "Created" \/ r.phase = "Created" BY <2>9, ClaimsAreLanded
        <5>2. ASSUME NEW a \in Attempts, NameOf[a] = n, creator[a] = "fail" PROVE runs[n] = NoRun
          BY <1>1, <2>1, <5>2 DEF SafetyInv, NoRunYet
        <5>3. recovery[n].pc = "fail" => runs[n] = NoRun BY <1>1 DEF SafetyInv, RecoveryQuiet
        <5> QED BY <2>9, <5>1, <5>2, <5>3 DEF Settled, Finishes
      <4>5. n \in landed => RunOf(n) # NoRun
        BY <2>1, <2>2, AbsentAssumption DEF RunOf
      <4>6. runs[n] = NoRun => RunOf(n) \notin Clusters
        BY <2>1, AbsentAssumption DEF RunOf
      <4> QED BY <3>1, <3>2, <4>1, <4>2, <4>3, <4>4, <4>5, <4>6 DEF LedgerMoves, Same
    <3> QED BY <3>3, <3>4
  <2>10. ASSUME Synced(n), ~Landed(n) PROVE LedgerMoves(n)
    <3> DEFINE r == records[n]
               s == records'[n]
    <3>1. /\ r # Absent /\ s # Absent /\ s.cluster = r.cluster /\ r.cluster # "" /\ s.type # "" /\ runs'[n] = runs[n]
      BY <2>10 DEF Synced, SameIdentity
    <3>2. RunOf(n)' = RunOf(n) BY <2>6, <2>10, <3>1
    <3>3. EntryOf(n) \in {"open", "created", "failed", "reported"} /\ OwnerOf(n) = r.cluster
      BY <2>1, <3>1, EntryCases
    <3>4. EntryOf(n)' = "reported" BY <1>4, <3>1 DEF EntryOf
    <3>5. OwnerOf(n)' = OwnerOf(n) BY <3>1, <3>3, <3>4 DEF OwnerOf
    <3>6. n \in landed BY <2>10, ClaimsAreLanded
    <3>7. RunOf(n) # NoRun BY <2>1, <2>2, <3>6, AbsentAssumption DEF RunOf
    <3> QED BY <3>2, <3>3, <3>4, <3>5, <3>7 DEF LedgerMoves, Same
  <2>11. ASSUME Deleted(n), ~Landed(n) PROVE LedgerMoves(n)
    <3>1. records'[n] = Absent /\ runs'[n] = runs[n] BY <2>11 DEF Deleted
    <3>2. records[n] = Absent \/ records[n].cluster = "" BY <1>1, <1>4, <3>1, IdentityStays
    <3>3. EntryOf(n) = "none" BY <2>1, <3>2 DEF EntryOf
    <3>4. EntryOf(n)' = "none" BY <1>4, <3>1 DEF EntryOf
    <3>5. OwnerOf(n)' = OwnerOf(n) BY <3>3, <3>4 DEF OwnerOf
    <3> QED BY <2>6, <2>11, <3>1, <3>3, <3>4, <3>5 DEF LedgerMoves, Same
  <2> QED BY <1>2, <1>4, <2>4, <2>5, <2>7, <2>8, <2>9, <2>10, <2>11 DEF RecordMoves
<1> QED BY <1>3, <1>4

(* The creation of hub runs, with crashes, late and lost requests, stale    *)
(* caches, recovery, synchronization and purge, implements the ledger: an   *)
(* entry precedes its run, a run starts once, and outcomes are true.        *)
THEOREM Refinement == ASSUME Timely PROVE Spec => ImplementsLedger
<1>1. Init => Ledger!Init
  <2> SUFFICES ASSUME Init PROVE Ledger!Init OBVIOUS
  <2>1. ASSUME NEW n \in Names PROVE EntryOf(n) = "none" /\ RunOf(n) = NoRun
    BY <2>1 DEF Init, EntryOf, RunOf
  <2>2. ASSUME NEW n \in Names PROVE OwnerOf(n) = NoRun
    BY <2>1, <2>2 DEF OwnerOf
  <2> QED BY <2>1, <2>2 DEF Ledger!Init
<1>2. LedgerInv /\ [Next]_vars => [Ledger!Next]_(Ledger!vars)
  <2> SUFFICES ASSUME LedgerInv, [Next]_vars PROVE Ledger!Next \/ UNCHANGED Ledger!vars OBVIOUS
  <2>1. TypeOK BY DEF LedgerInv, SafetyInv
  <2>2. ASSUME \A n \in Names : Same(n) PROVE UNCHANGED Ledger!vars
    BY <2>2 DEF Same, Ledger!vars
  <2>3. ASSUME NEW m \in Names, \A n \in Names \ {m} : Same(n) PROVE Ledger!Next \/ UNCHANGED Ledger!vars
    <3>1. LedgerMoves(m) BY LedgerMove
    <3>2. CASE Same(m) BY <2>2, <2>3, <3>2
    <3>3. CASE ~Same(m)
      BY <2>3, <3>1, <3>3
      DEF LedgerMoves, Same, Ledger!Next, Ledger!Open, Ledger!Start, Ledger!Expire, Ledger!Confirm, Ledger!Fail,
          Ledger!Report, Ledger!Purge, Ledger!Write
    <3> QED BY <3>2, <3>3
  <2>4. CASE \A n \in Names : Untouched(n) BY <2>2, <2>4, UntouchedSame
  <2>5. CASE \E m \in Names : \A n \in Names \ {m} : Untouched(n) BY <2>3, <2>5, UntouchedSame
  <2> QED BY <2>1, <2>4, <2>5, OneNameAtATime
<1> QED BY <1>1, <1>2, LedgerSafety, PTL DEF Spec, ImplementsLedger, Ledger!Spec
=============================================================================
