------------------------- MODULE RunCreationProofs -------------------------
(* Proofs about RunCreation, for any attempts, names, clusters and          *)
(* conditions.                                                              *)
EXTENDS RunCreation, TLAPS

(* A record with one of its fields replaced is a record. *)
LEMMA RecordUpdate ==
  ASSUME NEW r \in Record
  PROVE  /\ \A p \in CreationPhases : [r EXCEPT !.phase = p] \in Record
         /\ \A b \in BOOLEAN : [r EXCEPT !.pending = b] \in Record
         /\ \A c \in Conditions : [r EXCEPT !.type = c.type, !.phase = c.phase] \in Record
  BY NamesAssumption DEF Record, CreationPhases

(* The two records Begin writes: the first names no cluster. *)
LEMMA PendingTypes ==
  ASSUME NEW a \in Attempts
  PROVE  /\ PendingRecord(a) \in Record /\ IdentifiedRecord(a) \in Record
         /\ PendingRecord(a) # Absent /\ IdentifiedRecord(a) # Absent
         /\ PendingRecord(a).creator = a /\ PendingRecord(a).cluster = "" /\ PendingRecord(a).phase = ""
         /\ IdentifiedRecord(a).creator = a /\ IdentifiedRecord(a).cluster = ClusterOf[a]
         /\ IdentifiedRecord(a).phase = "Pending"
<1>1. ClusterOf[a] \in Clusters BY NamesAssumption
<1>2. PendingRecord(a) \in Record /\ IdentifiedRecord(a) \in Record
  BY <1>1 DEF PendingRecord, IdentifiedRecord, Record, CreationPhases
<1> QED BY <1>2, AbsentAssumption DEF PendingRecord, IdentifiedRecord

(* Both are pending, and report nothing. *)
LEMMA PendingStatus ==
  ASSUME NEW a \in Attempts
  PROVE  /\ PendingRecord(a).type = "" /\ IdentifiedRecord(a).type = ""
         /\ PendingRecord(a).pending /\ IdentifiedRecord(a).pending
  BY DEF PendingRecord, IdentifiedRecord

(* finishCreation writes records only. *)
LEMMA FinishTypes ==
  ASSUME TypeOK, NEW n \in Names, NEW copy \in Record \cup {Absent}, NEW p \in CreationPhases,
         FinishStatus(n, copy, p) \/ FinishAnnotation(n, copy)
  PROVE  records' \in [Names -> Record \cup {Absent}]
<1>1. records \in [Names -> Record \cup {Absent}] BY DEF TypeOK
<1>2. CASE FinishStatus(n, copy, p)
  <2>1. [copy EXCEPT !.phase = p] \in Record BY <1>2, RecordUpdate DEF FinishStatus
  <2> QED BY <1>1, <1>2, <2>1 DEF FinishStatus
<1>3. CASE FinishAnnotation(n, copy)
  <2>1. [copy EXCEPT !.pending = FALSE] \in Record BY <1>3, RecordUpdate DEF FinishAnnotation
  <2> QED BY <1>1, <1>3, <2>1 DEF FinishAnnotation
<1> QED BY <1>2, <1>3

(* Recovery's bookkeeping has its type whatever it records. *)
LEMMA SetRecoveryTypes ==
  ASSUME TypeOK, NEW n \in Names, NEW pc \in RecoveryPC, NEW seen \in Record \cup {Absent},
         pc = "check" => seen # Absent, SetRecovery(n, pc, seen)
  PROVE  /\ recovery' \in [Names -> [pc : RecoveryPC, seen : Record \cup {Absent}]]
         /\ \A m \in Names : recovery'[m].pc = "check" => recovery'[m].seen # Absent
  BY DEF TypeOK, SetRecovery

LEMMA TypeStep ==
  ASSUME TypeOK, [Next]_vars
  PROVE  TypeOK'
<1>1. ASSUME NEW a \in Attempts, BeginRecord(a) PROVE TypeOK'
  <2>1. NameOf[a] \in Names /\ PendingRecord(a) \in Record
    BY NamesAssumption, PendingTypes
  <2> QED BY <1>1, <2>1 DEF BeginRecord, TypeOK, CreatorPC
<1>2. ASSUME NEW a \in Attempts, BeginIdentity(a) PROVE TypeOK'
  <2>1. NameOf[a] \in Names /\ IdentifiedRecord(a) \in Record
    BY NamesAssumption, PendingTypes
  <2>2. records' \in [Names -> Record \cup {Absent}]
    BY <1>2, <2>1 DEF BeginIdentity, TypeOK
  <2> QED BY <1>2, <2>2 DEF BeginIdentity, TypeOK, CreatorPC
<1>3. ASSUME NEW a \in Attempts, StoreRun(a) PROVE runs' \in [Names -> Run \cup {NoRun}] /\ landed' \subseteq Names
  <2>1. NameOf[a] \in Names /\ [cluster |-> ClusterOf[a], cond |-> NoCondition] \in Run
    BY NamesAssumption DEF Run
  <2> QED BY <1>3, <2>1 DEF StoreRun, TypeOK
<1>4. ASSUME NEW a \in Attempts, CreateAccepted(a) \/ CreateRejected(a) \/ CreateAmbiguous(a) PROVE TypeOK'
  BY <1>3, <1>4 DEF CreateAccepted, CreateRejected, CreateAmbiguous, TypeOK, CreatorPC
<1>5. ASSUME NEW a \in Attempts, AttemptStatus(a) \/ AttemptAnnotation(a) PROVE TypeOK'
  <2>1. NameOf[a] \in Names /\ CopyFor(a) \in Record \cup {Absent}
    BY NamesAssumption DEF CopyFor, TypeOK
  <2>2. records' \in [Names -> Record \cup {Absent}]
    BY <1>5, <2>1, FinishTypes DEF AttemptStatus, AttemptAnnotation, CreationPhases
  <2> QED BY <1>5, <2>2 DEF AttemptStatus, AttemptAnnotation, TypeOK, CreatorPC
<1>6. ASSUME NEW a \in Attempts, AttemptStops(a) \/ RequestLands(a) \/ RequestLost(a) \/ Age(a) PROVE TypeOK'
  BY <1>3, <1>6 DEF AttemptStops, RequestLands, RequestLost, Age, TypeOK, CreatorPC
<1>7. ASSUME NEW n \in Names, RecoverList(n) PROVE TypeOK'
  <2>1. cache[n] \in Record \cup {Absent} /\ cache[n] # Absent /\ SetRecovery(n, "check", cache[n])
    BY <1>7 DEF RecoverList, TypeOK
  <2>2. "check" \in RecoveryPC BY DEF RecoveryPC
  <2> QED BY <1>7, <2>1, <2>2, SetRecoveryTypes DEF RecoverList, TypeOK
<1>8. ASSUME NEW n \in Names, RecoverDelete(n) \/ RecoverCheck(n) \/ RecoverStops(n) PROVE TypeOK'
  <2>1. PICK pc \in RecoveryPC : pc # "check" /\ SetRecovery(n, pc, Absent)
    BY <1>8 DEF RecoverDelete, RecoverCheck, RecoverStops, RecoveryPC
  <2>2. records' \in [Names -> Record \cup {Absent}]
    BY <1>8 DEF RecoverDelete, RecoverCheck, RecoverStops, TypeOK
  <2>3. UNCHANGED <<cache, runs, creator, inflight, aged, syncing, removed, landed>>
    BY <1>8 DEF RecoverDelete, RecoverCheck, RecoverStops
  <2> QED BY <2>1, <2>2, <2>3, SetRecoveryTypes DEF TypeOK
<1>9. ASSUME NEW n \in Names, RecoverStatus(n) \/ RecoverAnnotation(n) PROVE TypeOK'
  <2>1. records' \in [Names -> Record \cup {Absent}]
    <3>1. cache[n] \in Record \cup {Absent} BY DEF TypeOK
    <3> QED BY <1>9, <3>1, FinishTypes DEF RecoverStatus, RecoverAnnotation, CreationPhases
  <2>2. PICK pc \in RecoveryPC : pc # "check" /\ SetRecovery(n, pc, Absent)
    BY <1>9 DEF RecoverStatus, RecoverAnnotation, RecoveryPC
  <2>3. UNCHANGED <<cache, runs, creator, inflight, aged, syncing, removed, landed>>
    BY <1>9 DEF RecoverStatus, RecoverAnnotation
  <2> QED BY <2>1, <2>2, <2>3, SetRecoveryTypes DEF TypeOK
<1>10. ASSUME NEW n \in Names, SyncWrite(n) PROVE TypeOK'
  <2> DEFINE c == syncing[n].cond
             r == [records[n] EXCEPT !.type = c.type, !.phase = c.phase]
  <2>1. c \in Conditions \cup {NoCondition}
    BY <1>10 DEF SyncWrite, TypeOK, Run
  <2>2. NoCondition.type = "" BY DEF NoCondition
  <2>3. c.type # "" => c \in Conditions
    BY <2>1, <2>2
  <2>4. records' = records
        \/ (c.type # "" /\ records[n] # Absent /\ records' = [records EXCEPT ![n] = r])
    BY <1>10 DEF SyncWrite
  <2>5. records[n] # Absent => records[n] \in Record BY DEF TypeOK
  <2>6. records[n] # Absent /\ c.type # "" => r \in Record
    <3> HIDE DEF c
    <3> QED BY <2>3, <2>5, RecordUpdate
  <2> HIDE DEF r, c
  <2>7. records' \in [Names -> Record \cup {Absent}]
    BY <2>4, <2>6 DEF TypeOK
  <2> QED BY <1>10, <2>7 DEF SyncWrite, TypeOK
<1>11. ASSUME NEW n \in Names, SyncRead(n) \/ SyncStops(n) PROVE TypeOK'
  BY <1>11 DEF SyncRead, SyncStops, TypeOK
<1>12. ASSUME NEW n \in Names, RunReports(n) PROVE TypeOK'
  <2>1. PICK c \in Conditions : runs' = [runs EXCEPT ![n] = [runs[n] EXCEPT !.cond = c]]
    BY <1>12 DEF RunReports
  <2>2. runs[n] \in Run BY <1>12 DEF RunReports, TypeOK
  <2>3. [runs[n] EXCEPT !.cond = c] \in Run BY <2>2 DEF Run
  <2> QED BY <1>12, <2>1, <2>3 DEF RunReports, TypeOK
<1>13. ASSUME NEW n \in Names, CacheSync(n) \/ RunExpires(n) \/ RecordRemoved(n) PROVE TypeOK'
  BY <1>13 DEF CacheSync, RunExpires, RecordRemoved, TypeOK
<1>14. CASE UNCHANGED vars
  BY <1>14 DEF vars, TypeOK
<1> QED
  BY <1>1, <1>2, <1>4, <1>5, <1>6, <1>7, <1>8, <1>9, <1>10, <1>11, <1>12, <1>13, <1>14
  DEF Next, AttemptStep, RecoveryStep, SyncStep, Environment

(* Every operation of record.go, recovery and synchronization keeps the     *)
(* types of the state.                                                      *)
THEOREM TypeCorrect == Spec => []TypeOK
<1>1. Init => TypeOK
  BY DEF Init, TypeOK, IdleRecovery, CreatorPC, RecoveryPC
<1>2. TypeOK /\ [Next]_vars => TypeOK'
  BY TypeStep
<1> QED BY <1>1, <1>2, PTL DEF Spec

-----------------------------------------------------------------------------
(* The inductive invariant behind RunHasRecord and FailedMeansNoRun.  It    *)
(* says who owns a record: as long as it was not removed from outside, the  *)
(* record of a name belongs to the one attempt that is between its Begin    *)
(* and its return, or whose request is still out.                           *)

(* A record, and every copy of it, carries the name of its creator's run. *)
CopiesNamed ==
  \A n \in Names :
    /\ records[n] # Absent => NameOf[records[n].creator] = n
    /\ cache[n] # Absent => NameOf[cache[n].creator] = n
    /\ recovery[n].seen # Absent => NameOf[recovery[n].seen.creator] = n

(* What the grace period is for: once it is over, no create is to come. *)
AgedQuiet == \A a \in aged : Quiet(NameOf[a])
RecoveryQuiet ==
  \A n \in Names :
    /\ recovery[n].pc \in {"confirm", "fail", "annotate"} => Quiet(n)
    /\ recovery[n].pc = "fail" => runs[n] = NoRun

(* A request outlives only an attempt that is over. *)
LateRequests == \A a \in inflight : creator[a] = "returned"

(* The record an attempt works on is its own. *)
Owned ==
  \A a \in Attempts :
    LET r == records[NameOf[a]] IN
    NameOf[a] \notin removed =>
      /\ creator[a] = "identity" => r = PendingRecord(a)
      /\ creator[a] \in {"create", "confirm", "fail", "annotate"} \/ a \in inflight
           => r # Absent /\ r.creator = a /\ r.cluster = ClusterOf[a]

(* A copy past the grace period shows the stored identity. *)
AgedCopiesFresh ==
  \A n \in Names \ removed :
    records[n] # Absent =>
      /\ cache[n] # Absent /\ cache[n].creator \in aged => SameIdentity(cache[n], records[n])
      /\ recovery[n].seen # Absent /\ recovery[n].seen.creator \in aged
           => SameIdentity(recovery[n].seen, records[n])

(* There is no run before the create, nor after its rejection. *)
NoRunYet ==
  \A a \in Attempts :
    NameOf[a] \notin removed /\ creator[a] \in {"create", "fail"} => runs[NameOf[a]] = NoRun

(* Failed is final: no create of that name is left. *)
FailedIsFinal ==
  \A n \in Names \ removed :
    records[n] # Absent /\ records[n].type = "" /\ records[n].phase = "Failed" =>
      /\ runs[n] = NoRun
      /\ \A a \in Attempts : NameOf[a] = n => creator[a] # "create" /\ a \notin inflight

SafetyInv ==
  /\ TypeOK
  /\ CopiesNamed
  /\ AgedQuiet
  /\ RecoveryQuiet
  /\ LateRequests
  /\ Owned
  /\ AgedCopiesFresh
  /\ NoRunYet
  /\ RunHasRecord
  /\ FailedIsFinal

-----------------------------------------------------------------------------
(* What a step can do to each variable, for one attempt or one name. *)

(* A record that names its outcome, or what the run reported. *)
Closed(r) == ~(r.type = "" /\ r.phase \in {"", "Pending"})

(* finishCreation's first loop is over: the outcome is stored, or the copy it *)
(* read had one.                                                              *)
Closes(n, copy) ==
  \/ records'[n] # Absent /\ Closed(records'[n])
  \/ records'[n] = records[n] /\ copy # Absent /\ ~OutcomeOpen(copy)

(* An attempt only moves forward, and carries its record with it. *)
CreatorMoves(a) ==
  LET n == NameOf[a] IN
  \/ creator'[a] = creator[a]
  \/ creator'[a] = "returned"
  \/ creator[a] = "begin" /\ creator'[a] = "identity" /\ records'[n] = PendingRecord(a)
  \/ /\ creator[a] = "identity" /\ creator'[a] = "create"
     /\ records[n] = PendingRecord(a)
     /\ records'[n] = IdentifiedRecord(a)
     /\ runs'[n] = runs[n]
  \/ creator[a] = "create" /\ creator'[a] = "confirm" /\ n \in landed'
  \/ creator[a] = "create" /\ creator'[a] = "fail" /\ runs'[n] = runs[n]
  \/ creator[a] \in {"confirm", "fail"} /\ creator'[a] = "annotate" /\ Closes(n, CopyFor(a))

Begun(n) ==
  \E a \in Attempts : /\ NameOf[a] = n /\ creator[a] = "begin"
                      /\ records[n] = Absent /\ records'[n] = PendingRecord(a)
                      /\ runs'[n] = runs[n]
Identified(n) ==
  \E a \in Attempts :
    /\ NameOf[a] = n /\ creator[a] = "identity" /\ creator'[a] = "create"
    /\ records[n] = PendingRecord(a)
    /\ records'[n] = IdentifiedRecord(a)
    /\ runs'[n] = runs[n]

(* What finishCreation makes of record r, called where its caller is at pc. *)
Finishes(pc, r, s) ==
  \/ pc = "confirm" /\ r.phase \in {"", "Pending"} /\ s.phase = "Created" /\ s.pending = r.pending
  \/ pc = "fail" /\ r.phase \in {"", "Pending"} /\ s.phase = "Failed" /\ s.pending = r.pending
  \/ pc = "annotate" /\ s.phase = r.phase /\ ~s.pending

(* finishCreation, by an attempt or by recovery. *)
Settled(n) ==
  LET r == records[n]  s == records'[n] IN
  /\ r # Absent /\ s # Absent
  /\ SameIdentity(s, r) /\ s.type = r.type
  /\ \/ \E a \in Attempts : NameOf[a] = n /\ Finishes(creator[a], r, s)
     \/ Finishes(recovery[n].pc, r, s)
  /\ runs'[n] = runs[n]

Synced(n) ==
  LET r == records[n]  s == records'[n] IN
  /\ r # Absent /\ s # Absent
  /\ SameIdentity(s, r) /\ r.cluster # "" /\ s.pending = r.pending
  /\ syncing[n] # NoRun
  /\ s.type # "" /\ [type |-> s.type, phase |-> s.phase] \in Conditions
  /\ runs'[n] = runs[n]

Deleted(n) ==
  LET seen == recovery[n].seen IN
  /\ recovery[n].pc = "check" /\ seen.creator \in aged /\ seen.cluster = ""
  /\ records'[n] = Absent
  /\ runs'[n] = runs[n]

RecordMoves(n) ==
  \/ records'[n] = records[n]
  \/ Begun(n) \/ Identified(n) \/ Settled(n) \/ Synced(n) \/ Deleted(n)
  \/ n \in removed' /\ records'[n] = Absent

(* A run appears only by a create that is out; it keeps its cluster. *)
Landed(n) ==
  \E a \in Attempts :
    /\ NameOf[a] = n
    /\ creator[a] = "create" \/ a \in inflight
    /\ runs[n] = NoRun /\ runs'[n] # NoRun /\ runs'[n].cluster = ClusterOf[a]
    /\ records'[n] = records[n]
    /\ creator'[a] \notin {"create", "fail"} /\ a \notin inflight'
    /\ n \in landed'
RunMoves(n) ==
  \/ runs'[n] = runs[n]
  \/ runs'[n] = NoRun /\ records'[n] = records[n]
  \/ /\ runs[n] # NoRun /\ runs'[n] # NoRun /\ runs'[n].cluster = runs[n].cluster
     /\ records'[n] = records[n]
  \/ Landed(n)

(* Copies are taken of what is stored, and recovery acts on aged ones. *)
CopyMoves(n) ==
  /\ cache'[n] = cache[n] \/ (cache'[n] = records[n] /\ records'[n] = records[n])
  /\ \/ recovery'[n] = recovery[n]
     \/ recovery'[n] = IdleRecovery
     \/ recovery'[n].pc = "check" /\ recovery'[n].seen = cache[n] /\ records'[n] = records[n]
     \/ /\ recovery[n].pc = "check" /\ recovery[n].seen.creator \in aged
        /\ recovery'[n].seen = Absent
        /\ \/ recovery'[n].pc = "confirm" /\ runs[n] # NoRun
           \/ recovery'[n].pc = "fail" /\ runs'[n] = NoRun
     \/ /\ recovery[n].pc \in {"confirm", "fail"}
        /\ recovery'[n].pc = "annotate" /\ recovery'[n].seen = Absent
        /\ Closes(n, cache[n])

(* Only creates are left behind. *)
RequestMoves(a) ==
  a \in inflight' => a \in inflight \/ (creator[a] = "create" /\ creator'[a] = "returned")

(* An attempt ages when its name is quiet and its record's copies agree. *)
AgeMoves(a) ==
  LET n == NameOf[a] IN
  a \in aged' =>
    \/ a \in aged
    \/ /\ Quiet(n)
       /\ SameIdentity(cache[n], records[n])
       /\ recovery[n].seen # Absent => SameIdentity(recovery[n].seen, records[n])
       /\ UNCHANGED <<records, cache, recovery>>

(* finishCreation's first loop ends only when the outcome is written, by it *)
(* or before it.                                                            *)
LEMMA FinishCloses ==
  ASSUME TypeOK, NEW n \in Names, NEW copy, NEW p \in {"Created", "Failed"}, FinishStatus(n, copy, p)
  PROVE  Closes(n, copy)
<1>1. CASE OutcomeOpen(copy)
  <2>1. copy = records[n] /\ records[n] \in Record /\ records' = [records EXCEPT ![n] = [copy EXCEPT !.phase = p]]
    BY <1>1 DEF FinishStatus, TypeOK
  <2>2. records'[n] = [records[n] EXCEPT !.phase = p] BY <2>1 DEF TypeOK
  <2>3. p \in CreationPhases BY DEF CreationPhases
  <2>4. records'[n] \in Record BY <2>1, <2>2, <2>3, RecordUpdate
  <2>5. records'[n].phase = p BY <2>1, <2>2 DEF Record
  <2> QED BY <2>4, <2>5, AbsentAssumption DEF Closes, Closed
<1>2. CASE ~OutcomeOpen(copy)
  BY <1>2 DEF FinishStatus, Closes
<1> QED BY <1>1, <1>2

LEMMA AttemptMoves ==
  ASSUME TypeOK, [Next]_vars, NEW a \in Attempts
  PROVE  CreatorMoves(a) /\ RequestMoves(a)
<1>1. NameOf[a] \in Names BY NamesAssumption
<1>2. ASSUME NEW b \in Attempts, BeginRecord(b) \/ BeginIdentity(b) PROVE CreatorMoves(a) /\ RequestMoves(a)
  <2>1. NameOf[b] \in Names BY NamesAssumption
  <2> QED BY <1>1, <1>2, <2>1 DEF BeginRecord, BeginIdentity, CreatorMoves, RequestMoves, TypeOK
<1>3. ASSUME NEW b \in Attempts, CreateAccepted(b) \/ CreateRejected(b) \/ CreateAmbiguous(b)
      PROVE  CreatorMoves(a) /\ RequestMoves(a)
  BY <1>3 DEF CreateAccepted, CreateRejected, CreateAmbiguous, StoreRun, CreatorMoves, RequestMoves, TypeOK
<1>4. ASSUME NEW b \in Attempts, AttemptStatus(b) PROVE CreatorMoves(a) /\ RequestMoves(a)
  <2>1. NameOf[b] \in Names BY NamesAssumption
  <2>2. creator[b] \in {"confirm", "fail"} /\ Closes(NameOf[b], CopyFor(b))
    BY <1>4, <2>1, FinishCloses DEF AttemptStatus
  <2>3. creator' = [creator EXCEPT ![b] = "annotate"] /\ inflight' = inflight BY <1>4 DEF AttemptStatus
  <2> QED BY <2>2, <2>3 DEF CreatorMoves, RequestMoves, TypeOK
<1>5. ASSUME creator' = creator, inflight' \subseteq inflight PROVE CreatorMoves(a) /\ RequestMoves(a)
  BY <1>5 DEF CreatorMoves, RequestMoves
<1>6. ASSUME NEW n \in Names, RecoveryStep(n) \/ SyncStep(n) PROVE UNCHANGED <<creator, inflight>>
  BY <1>6 DEF RecoveryStep, RecoverList, RecoverDelete, RecoverCheck, RecoverStatus, RecoverAnnotation, RecoverStops,
              SyncStep, SyncRead, SyncWrite, SyncStops
<1>7. ASSUME Environment PROVE creator' = creator /\ inflight' \subseteq inflight
  BY <1>7 DEF Environment, RequestLands, RequestLost, Age, CacheSync, RunReports, RunExpires, RecordRemoved
<1>8. ASSUME UNCHANGED vars PROVE UNCHANGED <<creator, inflight>>
  BY <1>8 DEF vars
<1>9. ASSUME NEW b \in Attempts, AttemptAnnotation(b) \/ AttemptStops(b) PROVE CreatorMoves(a) /\ RequestMoves(a)
  BY <1>9 DEF AttemptAnnotation, AttemptStops, CreatorMoves, RequestMoves, TypeOK
<1> QED BY <1>2, <1>3, <1>4, <1>5, <1>6, <1>7, <1>8, <1>9 DEF Next, AttemptStep

LEMMA AgeStep ==
  ASSUME Timely, TypeOK, [Next]_vars, NEW a \in Attempts
  PROVE  AgeMoves(a)
<1>1. ASSUME aged' = aged PROVE AgeMoves(a)
  BY <1>1 DEF AgeMoves
<1>2. ASSUME NEW b \in Attempts, Age(b) PROVE AgeMoves(a)
  BY <1>2 DEF Age, AgeMoves
<1>3. ASSUME NEW b \in Attempts, AttemptStep(b) \/ RequestLands(b) \/ RequestLost(b) PROVE aged' = aged
  BY <1>3 DEF AttemptStep, BeginRecord, BeginIdentity, CreateAccepted, CreateRejected, CreateAmbiguous,
              AttemptStatus, AttemptAnnotation, AttemptStops, RequestLands, RequestLost
<1>4. ASSUME NEW n \in Names, RecoveryStep(n) \/ SyncStep(n) PROVE aged' = aged
  BY <1>4 DEF RecoveryStep, RecoverList, RecoverDelete, RecoverCheck, RecoverStatus, RecoverAnnotation, RecoverStops,
              SyncStep, SyncRead, SyncWrite, SyncStops
<1>5. ASSUME NEW n \in Names, CacheSync(n) \/ RunReports(n) \/ RunExpires(n) \/ RecordRemoved(n) PROVE aged' = aged
  BY <1>5 DEF CacheSync, RunReports, RunExpires, RecordRemoved
<1>6. ASSUME UNCHANGED vars PROVE aged' = aged
  BY <1>6 DEF vars
<1> QED BY <1>1, <1>2, <1>3, <1>4, <1>5, <1>6 DEF Next, Environment

(* finishCreation's first loop leaves a record alone or writes its outcome. *)
LEMMA StatusMoves ==
  ASSUME TypeOK, NEW n \in Names, NEW m \in Names, NEW copy, NEW p \in CreationPhases, FinishStatus(m, copy, p)
  PROVE  \/ records'[n] = records[n]
         \/ /\ n = m /\ records[n] # Absent /\ records'[n] # Absent
            /\ SameIdentity(records'[n], records[n])
            /\ records'[n].type = records[n].type
            /\ records[n].phase \in {"", "Pending"} /\ records'[n].phase = p
            /\ records'[n].pending = records[n].pending
<1>1. records \in [Names -> Record \cup {Absent}] BY DEF TypeOK
<1>2. ASSUME NEW r, r \in Record, records' = [records EXCEPT ![m] = [r EXCEPT !.phase = p]]
      PROVE  /\ n # m => records'[n] = records[n]
             /\ records'[m] \in Record /\ records'[m].creator = r.creator /\ records'[m].cluster = r.cluster
             /\ records'[m].type = r.type /\ records'[m].phase = p /\ records'[m].pending = r.pending
  BY <1>1, <1>2 DEF Record, CreationPhases
<1>3. records' = records \/ (copy # Absent /\ copy = records[m] /\ copy.phase \in {"", "Pending"}
                              /\ records' = [records EXCEPT ![m] = [copy EXCEPT !.phase = p]])
  BY DEF FinishStatus, OutcomeOpen
<1> QED BY <1>1, <1>2, <1>3, AbsentAssumption DEF SameIdentity

(* Its second loop leaves a record alone or ends its pending state. *)
LEMMA AnnotationMoves ==
  ASSUME TypeOK, NEW n \in Names, NEW m \in Names, NEW copy, FinishAnnotation(m, copy)
  PROVE  \/ records'[n] = records[n]
         \/ /\ n = m /\ records[n] # Absent /\ records'[n] # Absent
            /\ SameIdentity(records'[n], records[n])
            /\ records'[n].type = records[n].type
            /\ records'[n].phase = records[n].phase /\ ~records'[n].pending
<1>1. records \in [Names -> Record \cup {Absent}] BY DEF TypeOK
<1>2. ASSUME NEW r, r \in Record, records' = [records EXCEPT ![m] = [r EXCEPT !.pending = FALSE]]
      PROVE  /\ n # m => records'[n] = records[n]
             /\ records'[m] \in Record /\ records'[m].creator = r.creator /\ records'[m].cluster = r.cluster
             /\ records'[m].type = r.type /\ records'[m].phase = r.phase /\ ~records'[m].pending
  BY <1>1, <1>2 DEF Record
<1>3. records' = records \/ (copy # Absent /\ copy = records[m]
                              /\ records' = [records EXCEPT ![m] = [copy EXCEPT !.pending = FALSE]])
  BY DEF FinishAnnotation
<1> QED BY <1>1, <1>2, <1>3, AbsentAssumption DEF SameIdentity

LEMMA RecordStep ==
  ASSUME TypeOK, [Next]_vars, NEW n \in Names
  PROVE  RecordMoves(n)
<1>1. ASSUME NEW a \in Attempts, BeginRecord(a) \/ BeginIdentity(a) PROVE RecordMoves(n)
  <2>1. NameOf[a] \in Names BY NamesAssumption
  <2> QED BY <1>1, <2>1 DEF BeginRecord, BeginIdentity, RecordMoves, Begun, Identified, TypeOK
<1>2. ASSUME NEW a \in Attempts, AttemptStatus(a) PROVE RecordMoves(n)
  <2>1. NameOf[a] \in Names BY NamesAssumption
  <2>2. PICK p \in {"Created", "Failed"} : /\ FinishStatus(NameOf[a], CopyFor(a), p)
                                           /\ creator[a] = IF p = "Created" THEN "confirm" ELSE "fail"
    BY <1>2 DEF AttemptStatus
  <2>3. runs' = runs BY <1>2 DEF AttemptStatus
  <2>4. p \in CreationPhases BY DEF CreationPhases
  <2> QED BY <2>1, <2>2, <2>3, <2>4, StatusMoves DEF RecordMoves, Settled, Finishes
<1>3. ASSUME NEW a \in Attempts, AttemptAnnotation(a) PROVE RecordMoves(n)
  <2>1. NameOf[a] \in Names BY NamesAssumption
  <2>2. creator[a] = "annotate" /\ runs' = runs /\ FinishAnnotation(NameOf[a], CopyFor(a))
    BY <1>3 DEF AttemptAnnotation
  <2> QED BY <2>1, <2>2, AnnotationMoves DEF RecordMoves, Settled, Finishes
<1>4. ASSUME NEW m \in Names, RecoverStatus(m) PROVE RecordMoves(n)
  <2>1. PICK p \in {"Created", "Failed"} : /\ FinishStatus(m, cache[m], p)
                                           /\ recovery[m].pc = IF p = "Created" THEN "confirm" ELSE "fail"
    BY <1>4 DEF RecoverStatus
  <2>2. runs' = runs BY <1>4 DEF RecoverStatus
  <2>3. p \in CreationPhases BY DEF CreationPhases
  <2> QED BY <2>1, <2>2, <2>3, StatusMoves DEF RecordMoves, Settled, Finishes
<1>5. ASSUME NEW m \in Names, RecoverAnnotation(m) PROVE RecordMoves(n)
  <2>1. recovery[m].pc = "annotate" /\ runs' = runs /\ FinishAnnotation(m, cache[m])
    BY <1>5 DEF RecoverAnnotation
  <2> QED BY <2>1, AnnotationMoves DEF RecordMoves, Settled, Finishes
<1>6. ASSUME NEW m \in Names, RecoverDelete(m) PROVE RecordMoves(n)
  BY <1>6 DEF RecoverDelete, RecordMoves, Deleted, TypeOK
<1>7. ASSUME NEW m \in Names, SyncWrite(m) PROVE RecordMoves(n)
  <2> DEFINE r == records[m]
             s == [r EXCEPT !.type = syncing[m].cond.type, !.phase = syncing[m].cond.phase]
  <2>1. \/ records' = records
        \/ /\ r # Absent /\ Matches(r, syncing[m]) /\ syncing[m].cond.type # ""
           /\ records' = [records EXCEPT ![m] = s]
    BY <1>7 DEF SyncWrite
  <2>2. syncing[m] \in Run /\ syncing[m] # NoRun /\ syncing[m].cluster \in Clusters /\ runs' = runs
    BY <1>7 DEF SyncWrite, TypeOK, Run
  <2>3. r # Absent => r \in Record BY DEF TypeOK
  <2>4. r # Absent /\ syncing[m].cond.type # ""
          => /\ s.creator = r.creator /\ s.cluster = r.cluster /\ s.pending = r.pending
             /\ s.type = syncing[m].cond.type /\ s.phase = syncing[m].cond.phase
    BY <2>3 DEF Record
  <2>5. r # Absent /\ syncing[m].cond.type # "" => s \in Record
    <3>1. syncing[m].cond \in Conditions \cup {NoCondition} BY <2>2 DEF Run
    <3>2. NoCondition.type = "" BY DEF NoCondition
    <3> QED BY <2>3, <3>1, <3>2, RecordUpdate
  <2> HIDE DEF s
  <2>6. records' = [records EXCEPT ![m] = s] => records'[m] = s /\ (n # m => records'[n] = records[n])
    BY DEF TypeOK
  <2>7. Matches(r, syncing[m]) => r.cluster # ""
    BY <2>2, NamesAssumption DEF Matches
  <2>8. syncing[m].cond.type # ""
          => [type |-> syncing[m].cond.type, phase |-> syncing[m].cond.phase] \in Conditions
    <3>1. syncing[m].cond \in Conditions \cup {NoCondition} BY <2>2 DEF Run
    <3>2. NoCondition.type = "" BY DEF NoCondition
    <3> QED BY <3>1, <3>2, ConditionsAssumption
  <2>9. ASSUME n = m, r # Absent, syncing[m].cond.type # "", Matches(r, syncing[m]), records'[m] = s
        PROVE  Synced(n)
    BY <2>2, <2>4, <2>5, <2>7, <2>8, <2>9, AbsentAssumption DEF Synced, SameIdentity
  <2> QED BY <2>1, <2>6, <2>9 DEF RecordMoves
<1>8. ASSUME NEW m \in Names, RecordRemoved(m) PROVE RecordMoves(n)
  BY <1>8 DEF RecordRemoved, RecordMoves, TypeOK
<1>9. ASSUME records' = records PROVE RecordMoves(n)
  BY <1>9 DEF RecordMoves
<1>10. ASSUME NEW a \in Attempts,
              \/ CreateAccepted(a) \/ CreateRejected(a) \/ CreateAmbiguous(a) \/ AttemptStops(a)
              \/ RequestLands(a) \/ RequestLost(a) \/ Age(a)
       PROVE  records' = records
  BY <1>10 DEF CreateAccepted, CreateRejected, CreateAmbiguous, AttemptStops, RequestLands, RequestLost, Age
<1>11. ASSUME NEW m \in Names,
              \/ RecoverList(m) \/ RecoverCheck(m) \/ RecoverStops(m) \/ SyncRead(m) \/ SyncStops(m)
              \/ CacheSync(m) \/ RunReports(m) \/ RunExpires(m)
       PROVE  records' = records
  BY <1>11 DEF RecoverList, RecoverCheck, RecoverStops, SyncRead, SyncStops, CacheSync, RunReports, RunExpires
<1>12. ASSUME UNCHANGED vars PROVE records' = records
  BY <1>12 DEF vars
<1> QED
  BY <1>1, <1>2, <1>3, <1>4, <1>5, <1>6, <1>7, <1>8, <1>9, <1>10, <1>11, <1>12
  DEF Next, AttemptStep, RecoveryStep, SyncStep, Environment

LEMMA RunStep ==
  ASSUME TypeOK, LateRequests, [Next]_vars, NEW n \in Names
  PROVE  RunMoves(n)
<1>1. ASSUME runs' = runs PROVE RunMoves(n)
  BY <1>1 DEF RunMoves
<1>2. ASSUME NEW a \in Attempts, CreateAccepted(a) \/ RequestLands(a) PROVE RunMoves(n)
  <2>1. NameOf[a] \in Names BY NamesAssumption
  <2>2. /\ creator[a] = "create" \/ a \in inflight
        /\ runs[NameOf[a]] = NoRun /\ records' = records
        /\ runs' = [runs EXCEPT ![NameOf[a]] = [cluster |-> ClusterOf[a], cond |-> NoCondition]]
    BY <1>2 DEF CreateAccepted, RequestLands, StoreRun
  <2>3. creator'[a] \notin {"create", "fail"} /\ a \notin inflight' /\ NameOf[a] \in landed'
    BY <1>2 DEF CreateAccepted, RequestLands, StoreRun, LateRequests, TypeOK
  <2>4. n # NameOf[a] => runs'[n] = runs[n]
    BY <2>1, <2>2 DEF TypeOK
  <2>5. n = NameOf[a] => runs'[n] # NoRun /\ runs'[n].cluster = ClusterOf[a]
    <3>1. [cluster |-> ClusterOf[a], cond |-> NoCondition] \in Run BY NamesAssumption DEF Run
    <3> QED BY <2>1, <2>2, <3>1, AbsentAssumption DEF TypeOK
  <2> QED BY <2>2, <2>3, <2>4, <2>5 DEF RunMoves, Landed
<1>3. ASSUME NEW m \in Names, RunReports(m) PROVE RunMoves(n)
  <2>1. PICK c \in Conditions : runs' = [runs EXCEPT ![m] = [runs[m] EXCEPT !.cond = c]]
    BY <1>3 DEF RunReports
  <2>2. runs[m] \in Run /\ runs[m] # NoRun /\ records' = records BY <1>3 DEF RunReports, TypeOK
  <2>3. [runs[m] EXCEPT !.cond = c].cluster = runs[m].cluster /\ [runs[m] EXCEPT !.cond = c] \in Run
    BY <2>2 DEF Run
  <2> QED BY <2>1, <2>2, <2>3, AbsentAssumption DEF RunMoves, TypeOK
<1>4. ASSUME NEW m \in Names, RunExpires(m) PROVE RunMoves(n)
  BY <1>4 DEF RunExpires, RunMoves, TypeOK
<1>5. ASSUME NEW a \in Attempts,
             \/ BeginRecord(a) \/ BeginIdentity(a) \/ CreateRejected(a) \/ CreateAmbiguous(a)
             \/ AttemptStatus(a) \/ AttemptAnnotation(a) \/ AttemptStops(a) \/ RequestLost(a) \/ Age(a)
      PROVE  runs' = runs
  BY <1>5 DEF BeginRecord, BeginIdentity, CreateRejected, CreateAmbiguous, AttemptStatus, AttemptAnnotation,
              AttemptStops, RequestLost, Age
<1>6. ASSUME NEW m \in Names, RecoveryStep(m) \/ SyncStep(m) \/ CacheSync(m) \/ RecordRemoved(m) PROVE runs' = runs
  BY <1>6 DEF RecoveryStep, RecoverList, RecoverDelete, RecoverCheck, RecoverStatus, RecoverAnnotation, RecoverStops,
              SyncStep, SyncRead, SyncWrite, SyncStops, CacheSync, RecordRemoved
<1>7. ASSUME UNCHANGED vars PROVE runs' = runs
  BY <1>7 DEF vars
<1> QED BY <1>1, <1>2, <1>3, <1>4, <1>5, <1>6, <1>7 DEF Next, AttemptStep, Environment

LEMMA CopyStep ==
  ASSUME TypeOK, [Next]_vars, NEW n \in Names
  PROVE  CopyMoves(n) /\ removed \subseteq removed'
<1>1. ASSUME UNCHANGED <<cache, recovery, removed>> PROVE CopyMoves(n) /\ removed \subseteq removed'
  BY <1>1 DEF CopyMoves
<1>2. ASSUME NEW m \in Names, CacheSync(m) \/ RecordRemoved(m) PROVE CopyMoves(n) /\ removed \subseteq removed'
  BY <1>2 DEF CacheSync, RecordRemoved, CopyMoves, TypeOK
<1>3. ASSUME NEW m \in Names, RecoveryStep(m) PROVE CopyMoves(n) /\ removed \subseteq removed'
  <2>1. UNCHANGED <<cache, removed>>
    BY <1>3 DEF RecoveryStep, RecoverList, RecoverDelete, RecoverCheck, RecoverStatus, RecoverAnnotation, RecoverStops
  <2>2. ASSUME NEW pc, NEW seen, SetRecovery(m, pc, seen)
        PROVE  recovery'[m] = [pc |-> pc, seen |-> seen] /\ (n # m => recovery'[n] = recovery[n])
    BY <2>2 DEF SetRecovery, TypeOK
  <2>3. CASE RecoverList(m)
    <3>1. SetRecovery(m, "check", cache[m]) /\ records' = records BY <2>3 DEF RecoverList
    <3>2. recovery'[m] = [pc |-> "check", seen |-> cache[m]] /\ (n # m => recovery'[n] = recovery[n])
      BY <3>1, <2>2
    <3> QED BY <2>1, <3>1, <3>2 DEF CopyMoves
  <2>4. CASE RecoverDelete(m) \/ RecoverAnnotation(m) \/ RecoverStops(m)
    <3>1. SetRecovery(m, "idle", Absent) BY <2>4 DEF RecoverDelete, RecoverAnnotation, RecoverStops
    <3>2. recovery'[m] = [pc |-> "idle", seen |-> Absent] /\ (n # m => recovery'[n] = recovery[n])
      BY <3>1, <2>2
    <3> QED BY <2>1, <3>2 DEF CopyMoves, IdleRecovery
  <2>5. CASE RecoverStatus(m)
    <3>1. SetRecovery(m, "annotate", Absent) /\ recovery[m].pc \in {"confirm", "fail"} BY <2>5 DEF RecoverStatus
    <3>3. Closes(m, cache[m]) BY <2>5, FinishCloses DEF RecoverStatus
    <3>2. recovery'[m] = [pc |-> "annotate", seen |-> Absent] /\ (n # m => recovery'[n] = recovery[n])
      BY <3>1, <2>2
    <3> QED BY <2>1, <3>1, <3>2, <3>3 DEF CopyMoves
  <2>6. CASE RecoverCheck(m)
    <3>1. recovery[m].pc = "check" /\ UNCHANGED <<runs, cache>>
      BY <2>6 DEF RecoverCheck
    <3>2. \/ SetRecovery(m, "idle", Absent)
          \/ recovery[m].seen.creator \in aged /\ runs[m] # NoRun /\ SetRecovery(m, "confirm", Absent)
          \/ recovery[m].seen.creator \in aged /\ runs[m] = NoRun /\ SetRecovery(m, "fail", Absent)
      BY <2>6 DEF RecoverCheck
    <3>3. n # m => recovery'[n] = recovery[n]
      BY <3>2, <2>2
    <3>4. \/ recovery'[m] = [pc |-> "idle", seen |-> Absent]
          \/ recovery[m].seen.creator \in aged /\ runs[m] # NoRun /\ recovery'[m] = [pc |-> "confirm", seen |-> Absent]
          \/ recovery[m].seen.creator \in aged /\ runs[m] = NoRun /\ recovery'[m] = [pc |-> "fail", seen |-> Absent]
      BY <3>2, <2>2
    <3> QED BY <2>1, <3>1, <3>3, <3>4 DEF CopyMoves, IdleRecovery
  <2> QED BY <1>3, <2>3, <2>4, <2>5, <2>6 DEF RecoveryStep
<1>4. ASSUME NEW a \in Attempts, AttemptStep(a) \/ RequestLands(a) \/ RequestLost(a) \/ Age(a)
      PROVE  UNCHANGED <<cache, recovery, removed>>
  BY <1>4 DEF AttemptStep, BeginRecord, BeginIdentity, CreateAccepted, CreateRejected, CreateAmbiguous,
              AttemptStatus, AttemptAnnotation, AttemptStops, RequestLands, RequestLost, Age
<1>5. ASSUME NEW m \in Names, SyncStep(m) \/ RunReports(m) \/ RunExpires(m) PROVE UNCHANGED <<cache, recovery, removed>>
  BY <1>5 DEF SyncStep, SyncRead, SyncWrite, SyncStops, RunReports, RunExpires
<1>6. ASSUME UNCHANGED vars PROVE UNCHANGED <<cache, recovery, removed>>
  BY <1>6 DEF vars
<1> QED BY <1>1, <1>2, <1>3, <1>4, <1>5, <1>6 DEF Next, Environment

-----------------------------------------------------------------------------
(* Each part of the invariant is kept. *)

LEMMA NamedStep ==
  ASSUME SafetyInv, [Next]_vars
  PROVE  CopiesNamed'
<1> SUFFICES ASSUME NEW n \in Names
             PROVE  /\ records'[n] # Absent => NameOf[records'[n].creator] = n
                    /\ cache'[n] # Absent => NameOf[cache'[n].creator] = n
                    /\ recovery'[n].seen # Absent => NameOf[recovery'[n].seen.creator] = n
  BY DEF CopiesNamed
<1>1. RecordMoves(n) /\ CopyMoves(n) BY RecordStep, CopyStep DEF SafetyInv
<1>2. records'[n] # Absent => NameOf[records'[n].creator] = n
  <2>1. CASE Begun(n) \/ Identified(n)
    <3>1. PICK a \in Attempts : NameOf[a] = n /\ records'[n] \in {PendingRecord(a), IdentifiedRecord(a)}
      BY <2>1 DEF Begun, Identified
    <3> QED BY <3>1, PendingTypes
  <2>2. CASE Settled(n) \/ Synced(n)
    BY <2>2 DEF Settled, Synced, SameIdentity, SafetyInv, CopiesNamed
  <2> QED BY <1>1, <2>1, <2>2 DEF RecordMoves, Deleted, SafetyInv, CopiesNamed
<1>3. /\ cache'[n] # Absent => NameOf[cache'[n].creator] = n
      /\ recovery'[n].seen # Absent => NameOf[recovery'[n].seen.creator] = n
  BY <1>1 DEF CopyMoves, IdleRecovery, SafetyInv, CopiesNamed
<1> QED BY <1>2, <1>3

(* No attempt starts late, and none returns to its create. *)
LEMMA QuietStays ==
  ASSUME TypeOK, [Next]_vars, NEW n \in Names, Quiet(n)
  PROVE  Quiet(n)'
<1> SUFFICES ASSUME NEW a \in Attempts, NameOf[a] = n
             PROVE  creator'[a] \notin {"begin", "identity", "create"} /\ a \notin inflight'
  BY DEF Quiet
<1> QED BY AttemptMoves DEF Quiet, CreatorMoves, RequestMoves

LEMMA AgedQuietStep ==
  ASSUME Timely, SafetyInv, [Next]_vars
  PROVE  AgedQuiet'
<1> SUFFICES ASSUME NEW a \in aged' PROVE Quiet(NameOf[a])'
  BY DEF AgedQuiet
<1>1. TypeOK /\ TypeOK' BY TypeStep DEF SafetyInv
<1>2. a \in Attempts /\ NameOf[a] \in Names BY <1>1, NamesAssumption DEF TypeOK
<1>3. Quiet(NameOf[a]) BY <1>1, <1>2, AgeStep DEF AgeMoves, SafetyInv, AgedQuiet
<1> QED BY <1>1, <1>2, <1>3, QuietStays

LEMMA RecoveryQuietStep ==
  ASSUME SafetyInv, [Next]_vars
  PROVE  RecoveryQuiet'
<1> SUFFICES ASSUME NEW n \in Names
             PROVE  /\ recovery'[n].pc \in {"confirm", "fail", "annotate"} => Quiet(n)'
                    /\ recovery'[n].pc = "fail" => runs'[n] = NoRun
  BY DEF RecoveryQuiet
<1>1. TypeOK /\ CopyMoves(n) /\ RunMoves(n) BY CopyStep, RunStep DEF SafetyInv
<1>2. recovery'[n].pc \in {"confirm", "fail", "annotate"} => Quiet(n)
  <2>1. recovery[n].pc = "check" => NameOf[recovery[n].seen.creator] = n
    BY DEF SafetyInv, TypeOK, CopiesNamed
  <2> QED BY <1>1, <2>1 DEF CopyMoves, IdleRecovery, SafetyInv, RecoveryQuiet, AgedQuiet
<1>3. ASSUME recovery'[n].pc = "fail" PROVE runs'[n] = NoRun
  <2>1. runs'[n] = NoRun \/ recovery[n].pc = "fail"
    BY <1>1, <1>3 DEF CopyMoves, IdleRecovery
  <2>2. ASSUME recovery[n].pc = "fail" PROVE runs[n] = NoRun /\ Quiet(n)
    BY <2>2 DEF SafetyInv, RecoveryQuiet
  <2> QED BY <1>1, <2>1, <2>2 DEF RunMoves, Landed, Quiet
<1> QED BY <1>1, <1>2, <1>3, QuietStays

LEMMA LateRequestsStep ==
  ASSUME SafetyInv, [Next]_vars
  PROVE  LateRequests'
<1> SUFFICES ASSUME NEW a \in inflight' PROVE creator'[a] = "returned"
  BY DEF LateRequests
<1>1. TypeOK /\ TypeOK' /\ a \in Attempts BY TypeStep DEF SafetyInv, TypeOK
<1> QED BY <1>1, AttemptMoves DEF CreatorMoves, RequestMoves, SafetyInv, LateRequests

(* The record of an attempt past Begin has one owner, and names a cluster. *)
LEMMA OneOwner ==
  ASSUME SafetyInv, NEW a \in Attempts, NEW b \in Attempts, NameOf[a] = NameOf[b], NameOf[a] \notin removed,
         creator[a] \in {"create", "confirm", "fail", "annotate"} \/ a \in inflight,
         creator[b] \in {"identity", "create", "confirm", "fail", "annotate"} \/ b \in inflight
  PROVE  a = b /\ creator[b] # "identity" /\ records[NameOf[a]].cluster # ""
<1>1. ClusterOf[a] # "" BY NamesAssumption
<1>2. records[NameOf[a]].creator = a /\ records[NameOf[a]].cluster = ClusterOf[a]
  BY DEF SafetyInv, Owned
<1>3. records[NameOf[a]] # PendingRecord(b)
  BY <1>1, <1>2, PendingTypes
<1> QED BY <1>1, <1>2, <1>3 DEF SafetyInv, Owned

LEMMA OwnedStep ==
  ASSUME SafetyInv, [Next]_vars
  PROVE  Owned'
<1> SUFFICES ASSUME NEW a \in Attempts, NameOf[a] \notin removed'
             PROVE  LET r == records'[NameOf[a]] IN
                    /\ creator'[a] = "identity" => r = PendingRecord(a)
                    /\ creator'[a] \in {"create", "confirm", "fail", "annotate"} \/ a \in inflight'
                         => r # Absent /\ r.creator = a /\ r.cluster = ClusterOf[a]
  BY DEF Owned
<1> DEFINE n == NameOf[a]
<1>1. TypeOK /\ n \in Names BY NamesAssumption DEF SafetyInv
<1>2. n \notin removed BY <1>1, CopyStep
<1>3. RecordMoves(n) /\ CreatorMoves(a) /\ RequestMoves(a) BY <1>1, RecordStep, AttemptMoves
<1>4. Deleted(n) => Quiet(n)
  BY <1>1 DEF Deleted, SafetyInv, TypeOK, CopiesNamed, AgedQuiet
<1>5. ASSUME creator'[a] = "identity" PROVE records'[n] = PendingRecord(a)
  <2>1. CASE creator[a] = "identity"
    <3>1. records[n] = PendingRecord(a) BY <1>2, <2>1 DEF SafetyInv, Owned
    <3>2. records[n] # Absent /\ records[n].creator = a /\ records[n].cluster = "" BY <3>1, PendingTypes
    <3>3. ~Begun(n) /\ ~Identified(n)
      <4>1. ASSUME NEW b \in Attempts, records[n] = PendingRecord(b) PROVE b = a
        <5>1. PendingRecord(b).creator = b BY PendingTypes
        <5> QED BY <3>2, <4>1, <5>1
      <4> QED BY <1>5, <3>2, <4>1 DEF Begun, Identified
    <3>4. ~Settled(n)
      <4>1. ASSUME NEW b \in Attempts, NameOf[b] = n, creator[b] \in {"confirm", "fail", "annotate"} PROVE FALSE
        BY <1>2, <2>1, <4>1, OneOwner
      <4> QED BY <1>1, <2>1, <4>1 DEF Settled, Finishes, SafetyInv, RecoveryQuiet, Quiet
    <3>5. ~Synced(n) BY <3>2 DEF Synced
    <3>6. ~Deleted(n) BY <1>4, <2>1 DEF Quiet
    <3> QED BY <1>3, <3>1, <3>3, <3>4, <3>5, <3>6 DEF RecordMoves
  <2>2. CASE creator[a] # "identity"
    BY <1>3, <1>5, <2>2 DEF CreatorMoves
  <2> QED BY <2>1, <2>2
<1>6. ASSUME creator'[a] \in {"create", "confirm", "fail", "annotate"} \/ a \in inflight'
      PROVE  records'[n] # Absent /\ records'[n].creator = a /\ records'[n].cluster = ClusterOf[a]
  <2>1. CASE creator[a] = "identity" /\ a \notin inflight
    <3>1. records'[n] = IdentifiedRecord(a)
      BY <1>3, <1>6, <2>1 DEF CreatorMoves, RequestMoves
    <3> QED BY <3>1, PendingTypes
  <2>2. CASE creator[a] # "identity" \/ a \in inflight
    <3>1. creator[a] \in {"create", "confirm", "fail", "annotate"} \/ a \in inflight
      BY <1>3, <1>6, <2>2 DEF CreatorMoves, RequestMoves
    <3>2. records[n] # Absent /\ records[n].creator = a /\ records[n].cluster = ClusterOf[a]
      BY <1>2, <3>1 DEF SafetyInv, Owned
    <3>3. ClusterOf[a] # "" BY NamesAssumption
    <3>4. ~Begun(n) BY <3>2 DEF Begun
    <3>5. ~Identified(n) BY <3>2, <3>3, PendingTypes DEF Identified
    <3>6. Settled(n) \/ Synced(n) => records'[n] # Absent /\ SameIdentity(records'[n], records[n])
      BY DEF Settled, Synced
    <3>7. ~Deleted(n)
      <4> SUFFICES ASSUME Deleted(n) PROVE FALSE OBVIOUS
      <4>1. recovery[n].seen # Absent BY <1>1 DEF Deleted, TypeOK
      <4>2. SameIdentity(recovery[n].seen, records[n])
        BY <1>1, <1>2, <3>2, <4>1 DEF Deleted, SafetyInv, AgedCopiesFresh
      <4> QED BY <3>2, <3>3, <4>2 DEF Deleted, SameIdentity
    <3> QED BY <1>3, <3>2, <3>4, <3>5, <3>6, <3>7 DEF RecordMoves, SameIdentity
  <2> QED BY <2>1, <2>2
<1> QED BY <1>5, <1>6

(* Once the grace period is over the identity of a record is final. *)
LEMMA FreshStep ==
  ASSUME Timely, SafetyInv, [Next]_vars
  PROVE  AgedCopiesFresh'
<1> SUFFICES ASSUME NEW n \in Names, n \notin removed', records'[n] # Absent
             PROVE  /\ cache'[n] # Absent /\ cache'[n].creator \in aged' => SameIdentity(cache'[n], records'[n])
                    /\ recovery'[n].seen # Absent /\ recovery'[n].seen.creator \in aged'
                         => SameIdentity(recovery'[n].seen, records'[n])
  BY DEF AgedCopiesFresh, SameIdentity
<1>1. TypeOK /\ TypeOK' /\ n \notin removed BY TypeStep, CopyStep DEF SafetyInv
<1>2. RecordMoves(n) /\ CopyMoves(n) BY <1>1, RecordStep, CopyStep
<1>3. Quiet(n) => records[n] # Absent /\ SameIdentity(records'[n], records[n])
  BY <1>1, <1>2 DEF RecordMoves, Begun, Identified, Settled, Synced, Deleted, Quiet, SameIdentity
<1>4. ASSUME NEW c, c # Absent, c \in Record, NameOf[c.creator] = n, c.creator \in aged,
             c = cache[n] \/ c = recovery[n].seen
      PROVE  SameIdentity(c, records'[n])
  <2>1. Quiet(n) BY <1>4 DEF SafetyInv, AgedQuiet
  <2>2. SameIdentity(c, records[n]) BY <1>1, <1>3, <1>4, <2>1 DEF SafetyInv, AgedCopiesFresh
  <2> QED BY <1>3, <2>1, <2>2 DEF SameIdentity
<1>5. ASSUME NEW c, c # Absent, c \in Record, NameOf[c.creator] = n, c.creator \in aged' \ aged,
             c = cache'[n] \/ c = recovery'[n].seen
      PROVE  SameIdentity(c, records'[n])
  <2>1. c.creator \in Attempts BY <1>5 DEF Record
  <2>2. AgeMoves(c.creator) BY <1>1, <2>1, AgeStep
  <2> QED BY <1>5, <2>2 DEF AgeMoves, SameIdentity
<1>6. ASSUME NEW c, c # Absent, c.creator \in aged', c = cache'[n] \/ c = recovery'[n].seen
      PROVE  SameIdentity(c, records'[n])
  <2>1. c \in Record BY <1>1, <1>6 DEF TypeOK
  <2>2. NameOf[c.creator] = n BY <1>6, NamedStep DEF CopiesNamed
  <2>3. \/ c = cache[n] \/ c = recovery[n].seen
        \/ c = records'[n]
    BY <1>2, <1>6 DEF CopyMoves, IdleRecovery
  <2>4. CASE c = records'[n] BY <2>4 DEF SameIdentity
  <2> QED BY <1>4, <1>5, <1>6, <2>1, <2>2, <2>3, <2>4
<1> QED BY <1>6

(* A record without identity has no run. *)
LEMMA NoIdentityNoRun ==
  ASSUME SafetyInv, NEW n \in Names, n \notin removed, records[n] = Absent \/ records[n].cluster = ""
  PROVE  runs[n] = NoRun
<1>1. runs[n] # NoRun => runs[n] \in Run BY DEF SafetyInv, TypeOK
<1>2. runs[n] # NoRun => runs[n].cluster # "" BY <1>1, NamesAssumption DEF Run
<1> QED BY <1>2 DEF SafetyInv, RunHasRecord, Matches

LEMMA NoRunYetStep ==
  ASSUME SafetyInv, [Next]_vars
  PROVE  NoRunYet'
<1> SUFFICES ASSUME NEW a \in Attempts, NameOf[a] \notin removed', creator'[a] \in {"create", "fail"}
             PROVE  runs'[NameOf[a]] = NoRun
  BY DEF NoRunYet
<1> DEFINE n == NameOf[a]
<1>1. TypeOK /\ n \in Names /\ n \notin removed BY NamesAssumption, CopyStep DEF SafetyInv
<1>2. CreatorMoves(a) /\ RunMoves(n) BY <1>1, AttemptMoves, RunStep DEF SafetyInv
<1>3. CASE creator[a] = "identity"
  <2>1. records[n] = PendingRecord(a) /\ runs'[n] = runs[n]
    BY <1>2, <1>3 DEF CreatorMoves
  <2>2. records[n].cluster = "" BY <2>1, PendingTypes
  <2> QED BY <1>1, <2>1, <2>2, NoIdentityNoRun
<1>4. CASE creator[a] # "identity"
  <2>1. creator[a] \in {"create", "fail"} BY <1>2, <1>4 DEF CreatorMoves
  <2>2. runs[n] = NoRun BY <1>1, <2>1 DEF SafetyInv, NoRunYet
  <2>3. ~Landed(n)
    <3>1. ASSUME NEW b \in Attempts, NameOf[b] = n, creator[b] = "create" \/ b \in inflight PROVE b = a
      BY <1>1, <2>1, <3>1, OneOwner
    <3> QED BY <3>1 DEF Landed
  <2> QED BY <1>2, <2>2, <2>3 DEF RunMoves
<1> QED BY <1>3, <1>4

LEMMA RunHasRecordStep ==
  ASSUME SafetyInv, [Next]_vars
  PROVE  RunHasRecord'
<1> SUFFICES ASSUME NEW n \in Names, n \notin removed', runs'[n] # NoRun
             PROVE  records'[n] # Absent /\ Matches(records'[n], runs'[n])
  BY DEF RunHasRecord, Matches
<1>1. TypeOK /\ n \notin removed BY CopyStep DEF SafetyInv
<1>2. RecordMoves(n) /\ RunMoves(n) BY <1>1, RecordStep, RunStep DEF SafetyInv
<1>3. CASE Landed(n)
  <2>1. PICK b \in Attempts : /\ NameOf[b] = n
                              /\ creator[b] = "create" \/ b \in inflight
                              /\ runs'[n].cluster = ClusterOf[b]
                              /\ records'[n] = records[n]
    BY <1>3 DEF Landed
  <2>2. records[n] # Absent /\ records[n].creator = b /\ records[n].cluster = ClusterOf[b]
    BY <1>1, <2>1 DEF SafetyInv, Owned
  <2> QED BY <2>1, <2>2 DEF Matches
<1>4. CASE runs[n] # NoRun
  <2>1. records[n] # Absent /\ Matches(records[n], runs[n])
    BY <1>1, <1>4 DEF SafetyInv, RunHasRecord
  <2>2. records[n].cluster # "" BY <1>1, <1>4, NoIdentityNoRun
  <2>3. runs'[n].cluster = runs[n].cluster BY <1>2, <1>4 DEF RunMoves, Landed
  <2>4. ~Begun(n) BY <2>1 DEF Begun
  <2>5. ~Identified(n) BY <2>2, PendingTypes DEF Identified
  <2>6. ~Deleted(n)
    <3> SUFFICES ASSUME Deleted(n) PROVE FALSE OBVIOUS
    <3>1. recovery[n].seen # Absent BY DEF Deleted, SafetyInv, TypeOK
    <3>2. SameIdentity(recovery[n].seen, records[n])
      BY <1>1, <2>1, <3>1 DEF Deleted, SafetyInv, AgedCopiesFresh
    <3> QED BY <2>2, <3>2 DEF Deleted, SameIdentity
  <2>7. records'[n] # Absent /\ SameIdentity(records'[n], records[n])
    BY <1>2, <2>1, <2>4, <2>5, <2>6 DEF RecordMoves, Settled, Synced, SameIdentity
  <2> QED BY <2>1, <2>3, <2>7 DEF Matches, SameIdentity
<1> QED BY <1>2, <1>3, <1>4 DEF RunMoves

LEMMA FailedIsFinalStep ==
  ASSUME SafetyInv, [Next]_vars
  PROVE  FailedIsFinal'
<1> SUFFICES ASSUME NEW n \in Names, n \notin removed',
                    records'[n] # Absent, records'[n].type = "", records'[n].phase = "Failed"
             PROVE  /\ runs'[n] = NoRun
                    /\ \A a \in Attempts : NameOf[a] = n => creator'[a] # "create" /\ a \notin inflight'
  BY DEF FailedIsFinal
<1> DEFINE Done == \A a \in Attempts : NameOf[a] = n => creator[a] # "create" /\ a \notin inflight
<1>1. TypeOK /\ n \notin removed BY CopyStep DEF SafetyInv
<1>2. RecordMoves(n) /\ RunMoves(n) BY <1>1, RecordStep, RunStep DEF SafetyInv
<1>3. ~Begun(n) /\ ~Identified(n) BY PendingTypes DEF Begun, Identified
<1>4. records'[n] = records[n] \/ Settled(n)
  BY <1>2, <1>3 DEF RecordMoves, Synced, Deleted
<1>5. records[n] # Absent /\ runs[n] = NoRun /\ Done
  <2>1. CASE records[n] # Absent /\ records[n].type = "" /\ records[n].phase = "Failed"
    BY <1>1, <2>1 DEF SafetyInv, FailedIsFinal
  <2>2. ASSUME NEW a \in Attempts, NameOf[a] = n, creator[a] = "fail", records[n] # Absent
        PROVE  runs[n] = NoRun /\ Done
    <3>1. runs[n] = NoRun BY <1>1, <2>2 DEF SafetyInv, NoRunYet
    <3>2. ASSUME NEW b \in Attempts, NameOf[b] = n PROVE creator[b] # "create" /\ b \notin inflight
      <4>1. creator[b] = "create" \/ b \in inflight => b = a BY <1>1, <2>2, <3>2, OneOwner
      <4> QED BY <2>2, <4>1 DEF SafetyInv, LateRequests
    <3> QED BY <3>1, <3>2
  <2>3. ASSUME recovery[n].pc = "fail" PROVE runs[n] = NoRun /\ Done
    BY <2>3 DEF SafetyInv, RecoveryQuiet, Quiet
  <2>4. CASE Settled(n)
    BY <2>1, <2>2, <2>3, <2>4 DEF Settled, Finishes
  <2> QED BY <1>4, <2>1, <2>4
<1>6. ~Landed(n) BY <1>5 DEF Landed
<1>7. runs'[n] = NoRun BY <1>2, <1>5, <1>6 DEF RunMoves
<1>8. ASSUME NEW a \in Attempts, NameOf[a] = n PROVE creator'[a] # "create" /\ a \notin inflight'
  <2>1. CreatorMoves(a) /\ RequestMoves(a) BY <1>1, AttemptMoves
  <2>2. creator'[a] # "create"
    <3>1. records'[n] # IdentifiedRecord(a) BY PendingTypes
    <3> QED BY <1>5, <1>8, <2>1, <3>1 DEF CreatorMoves
  <2> QED BY <1>5, <1>8, <2>1, <2>2 DEF RequestMoves
<1> QED BY <1>7, <1>8

-----------------------------------------------------------------------------
(* Provided pendingRunGrace outlasts an attempt (Timely), the invariant     *)
(* holds of every behaviour of the creation protocol.                       *)
THEOREM Safety == ASSUME Timely PROVE Spec => []SafetyInv
<1>1. Init => SafetyInv
  <2> SUFFICES ASSUME Init PROVE SafetyInv OBVIOUS
  <2>1. TypeOK BY DEF Init, TypeOK, IdleRecovery, CreatorPC, RecoveryPC
  <2>2. /\ \A n \in Names : records[n] = Absent /\ cache[n] = Absent /\ runs[n] = NoRun
        /\ \A n \in Names : recovery[n].pc = "idle" /\ recovery[n].seen = Absent
        /\ \A a \in Attempts : creator[a] = "begin"
        /\ inflight = {} /\ aged = {}
    BY DEF Init, IdleRecovery
  <2> QED BY <2>1, <2>2, NamesAssumption
          DEF SafetyInv, CopiesNamed, AgedQuiet, RecoveryQuiet, LateRequests, Owned, AgedCopiesFresh, NoRunYet,
              RunHasRecord, FailedIsFinal
<1>2. SafetyInv /\ [Next]_vars => SafetyInv'
  <2> SUFFICES ASSUME SafetyInv, [Next]_vars PROVE SafetyInv' OBVIOUS
  <2>1. TypeOK' BY TypeStep DEF SafetyInv
  <2> QED BY <2>1, NamedStep, AgedQuietStep, RecoveryQuietStep, LateRequestsStep, OwnedStep, FreshStep,
             NoRunYetStep, RunHasRecordStep, FailedIsFinalStep DEF SafetyInv
<1> QED BY <1>1, <1>2, PTL DEF Spec

(* Every hub run has its record, whatever crashes, conflicts, stale reads   *)
(* and late requests occur: Begin writes the record first, and              *)
(* recoverPendingRuns deletes only records for which no create can come.    *)
THEOREM EveryRunHasItsRecord == ASSUME Timely PROVE Spec => []RunHasRecord
<1>1. SafetyInv => RunHasRecord BY DEF SafetyInv
<1> QED BY <1>1, Safety, PTL

(* The Failed of finishCreation is true, whether an attempt's Fail or the   *)
(* recovery of recoverPendingRuns wrote it: there is no hub run.            *)
THEOREM FailedIsTrue == ASSUME Timely PROVE Spec => []FailedMeansNoRun
<1>1. SafetyInv => FailedMeansNoRun BY DEF SafetyInv, FailedIsFinal, FailedMeansNoRun
<1> QED BY <1>1, Safety, PTL
=============================================================================
