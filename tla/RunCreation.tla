---------------------------- MODULE RunCreation ----------------------------
(***************************************************************************)
(* Creation of hub AgenticRuns with a durable TelcoHealthCheckRun record.  *)
(*                                                                         *)
(* An attempt is one call of createAgenticRunForCluster (periodic check,   *)
(* internal/controller/agenticrun.go) or of createAgenticRunOnCluster      *)
(* (alert, internal/alertreceiver/handler.go).  Both run the protocol of   *)
(* internal/healthcheckrun/record.go: Begin persists a pending record and  *)
(* then its identity, the run is created, and Confirm or Fail writes the   *)
(* outcome and removes the pending annotation.  recoverPendingRuns         *)
(* (runrecovery.go) settles the records whose attempt never got that far,  *)
(* and syncHubRunStatus (hubrunstatus.go) copies the run's latest          *)
(* condition over the creation phase.  All of them write the same record   *)
(* under the API server's optimistic lock.                                 *)
(*                                                                         *)
(* One iteration of a RetryOnConflict loop is one step: it takes effect    *)
(* exactly when the copy it read is still the stored one.                  *)
(***************************************************************************)
EXTENDS Naturals, FiniteSets

CONSTANTS
  Attempts,    \* attempts to start a run
  Names,       \* run names; the record of a run has the run's name
  Clusters,    \* managed clusters
  NameOf,      \* Attempts -> Names; alert names are unique only per nanosecond
  ClusterOf,   \* Attempts -> Clusters
  Cached,      \* the attempts of the controller, whose reads come from its cache
  Conditions,  \* the conditions the agentic operator may report: [type, phase]
  Timely,      \* TRUE: pendingRunGrace outlasts an attempt, see Age
  Absent,      \* no record
  NoRun        \* no hub run

NoCondition == [type |-> "", phase |-> ""]

(* ClusterName "" is a record whose identity was not written yet. *)
CreationPhases == {"", "Pending", "Created", "Failed"}

Record == [creator : Attempts,
           cluster : Clusters \cup {""},
           pending : BOOLEAN,
           type    : {c.type : c \in Conditions} \cup {""},
           phase   : {c.phase : c \in Conditions} \cup CreationPhases]

Run == [cluster : Clusters, cond : Conditions \cup {NoCondition}]

ASSUME NamesAssumption ==
  /\ NameOf \in [Attempts -> Names]
  /\ ClusterOf \in [Attempts -> Clusters]
  /\ "" \notin Clusters
  /\ Cached \subseteq Attempts
  /\ Timely \in BOOLEAN
ASSUME ConditionsAssumption == \A c \in Conditions : c.type # "" /\ c = [type |-> c.type, phase |-> c.phase]
ASSUME AbsentAssumption ==
  Absent \notin Record \cup Clusters /\ NoRun \notin Run \cup Clusters /\ Absent # NoRun

VARIABLES
  records,    \* name -> the stored TelcoHealthCheckRun, or Absent
  cache,      \* name -> the controller's informer copy of it
  runs,       \* name -> the hub AgenticRun, or NoRun
  creator,    \* attempt -> where the attempt is
  inflight,   \* attempts that returned while their Create may still take effect
  aged,       \* attempts whose record is older than pendingRunGrace
  recovery,   \* name -> where recoverPendingRuns is with the record
  syncing,    \* name -> the run syncHubRunStatus has read, or NoRun
  removed,    \* names whose record was purged or garbage collected
  landed      \* names for which a run has ever been created

vars == <<records, cache, runs, creator, inflight, aged, recovery, syncing, removed, landed>>

CreatorPC == {"begin", "identity", "create", "confirm", "fail", "annotate", "returned"}
RecoveryPC == {"idle", "check", "confirm", "fail", "annotate"}

IdleRecovery == [pc |-> "idle", seen |-> Absent]

Init ==
  /\ records = [n \in Names |-> Absent]
  /\ cache = [n \in Names |-> Absent]
  /\ runs = [n \in Names |-> NoRun]
  /\ creator = [a \in Attempts |-> "begin"]
  /\ inflight = {}
  /\ aged = {}
  /\ recovery = [n \in Names |-> IdleRecovery]
  /\ syncing = [n \in Names |-> NoRun]
  /\ removed = {}
  /\ landed = {}

-----------------------------------------------------------------------------
(* The record's two-step life in record.go *)

(* Wrong on purpose: a phase outside the documented ones. *)
PendingRecordOddPhase(a) == [creator |-> a, cluster |-> "", pending |-> TRUE, type |-> "", phase |-> "New"]

(* The record as Begin creates it: annotated, but without status. *)
PendingRecord(a) == [creator |-> a, cluster |-> "", pending |-> TRUE, type |-> "", phase |-> ""]

(* Begin, Create of the record; an existing record of that name is an error. *)
BeginRecord(a) ==
  LET n == NameOf[a] IN
  /\ creator[a] = "begin"
  /\ IF records[n] = Absent
     THEN /\ records' = [records EXCEPT ![n] = PendingRecord(a)]
          /\ creator' = [creator EXCEPT ![a] = "identity"]
     ELSE /\ creator' = [creator EXCEPT ![a] = "returned"]
          /\ UNCHANGED records
  /\ UNCHANGED <<cache, runs, inflight, aged, recovery, syncing, removed, landed>>

(* The record once it names the run and its cluster. *)
IdentifiedRecord(a) == [PendingRecord(a) EXCEPT !.cluster = ClusterOf[a], !.phase = "Pending"]

(* Begin, Status().Update with the resource version Create returned. *)
BeginIdentity(a) ==
  LET n == NameOf[a] IN
  /\ creator[a] = "identity"
  /\ IF records[n] = PendingRecord(a)
     THEN /\ records' = [records EXCEPT ![n] = IdentifiedRecord(a)]
          /\ creator' = [creator EXCEPT ![a] = "create"]
     ELSE /\ creator' = [creator EXCEPT ![a] = "returned"]
          /\ UNCHANGED records
  /\ UNCHANGED <<cache, runs, inflight, aged, recovery, syncing, removed, landed>>

(* Wrong on purpose: the condition written before the outcome is not spared. *)
OutcomeOpenAlways(r) == r.pending

(* finishCreation's status loop: only an open outcome is overwritten. *)
OutcomeOpen(r) == r.pending /\ r.phase \in {"", "Pending"}

(* Wrong on purpose: a conflict counts as success. *)
FinishStatusIgnoringConflict(n, copy, phase) ==
  /\ copy # Absent
  /\ IF OutcomeOpen(copy) /\ copy = records[n]
     THEN records' = [records EXCEPT ![n] = [copy EXCEPT !.phase = phase]]
     ELSE UNCHANGED records

(* Wrong on purpose: the status is written without the optimistic lock. *)
FinishStatusWithoutLock(n, copy, phase) ==
  /\ copy # Absent /\ records[n] # Absent
  /\ IF OutcomeOpen(copy)
     THEN records' = [records EXCEPT ![n].cluster = copy.cluster, ![n].type = copy.type, ![n].phase = phase]
     ELSE UNCHANGED records

FinishStatus(n, copy, phase) ==
  /\ copy # Absent
  /\ IF OutcomeOpen(copy)
     THEN /\ copy = records[n]
          /\ records' = [records EXCEPT ![n] = [copy EXCEPT !.phase = phase]]
     ELSE UNCHANGED records

(* finishCreation's annotation loop. *)
FinishAnnotation(n, copy) ==
  /\ copy # Absent
  /\ IF copy.pending
     THEN /\ copy = records[n]
          /\ records' = [records EXCEPT ![n] = [copy EXCEPT !.pending = FALSE]]
     ELSE UNCHANGED records

-----------------------------------------------------------------------------
(* The rest of an attempt, after Begin *)

StoreRun(a) ==
  /\ runs' = [runs EXCEPT ![NameOf[a]] = [cluster |-> ClusterOf[a], cond |-> NoCondition]]
  /\ landed' = landed \cup {NameOf[a]}

(* The hub accepted the run. *)
CreateAccepted(a) ==
  /\ creator[a] = "create"
  /\ runs[NameOf[a]] = NoRun
  /\ StoreRun(a)
  /\ creator' = [creator EXCEPT ![a] = "confirm"]
  /\ UNCHANGED <<records, cache, inflight, aged, recovery, syncing, removed>>

(* Wrong on purpose: a rejected create goes on to Confirm. *)
CreateRejectedConfirms(a) ==
  /\ creator[a] = "create"
  /\ creator' = [creator EXCEPT ![a] = "confirm"]
  /\ UNCHANGED <<records, cache, runs, inflight, aged, recovery, syncing, removed, landed>>

(* DefinitiveCreateError: the API server refused the run. *)
CreateRejected(a) ==
  /\ creator[a] = "create"
  /\ creator' = [creator EXCEPT ![a] = "fail"]
  /\ UNCHANGED <<records, cache, runs, inflight, aged, recovery, syncing, removed, landed>>

(* Wrong on purpose: an ambiguous error is taken for a definitive one. *)
CreateAmbiguousFails(a) ==
  /\ creator[a] = "create"
  /\ creator' = [creator EXCEPT ![a] = "fail"]
  /\ inflight' = inflight \cup {a}
  /\ UNCHANGED <<records, cache, runs, aged, recovery, syncing, removed, landed>>

(* Any other error, or a crash while the request is out: the attempt is over *)
(* and the request may still take effect.                                    *)
CreateAmbiguous(a) ==
  /\ creator[a] = "create"
  /\ creator' = [creator EXCEPT ![a] = "returned"]
  /\ inflight' = inflight \cup {a}
  /\ UNCHANGED <<records, cache, runs, aged, recovery, syncing, removed, landed>>

(* The request of an attempt that is over takes effect, or is lost or refused. *)
RequestLands(a) ==
  /\ a \in inflight
  /\ inflight' = inflight \ {a}
  /\ runs[NameOf[a]] = NoRun
  /\ StoreRun(a)
  /\ UNCHANGED <<records, cache, creator, aged, recovery, syncing, removed>>

RequestLost(a) ==
  /\ a \in inflight
  /\ inflight' = inflight \ {a}
  /\ UNCHANGED <<records, cache, runs, creator, aged, recovery, syncing, removed, landed>>

(* The controller reads through its cache, the alert receiver does not. *)
CopyFor(a) == IF a \in Cached THEN cache[NameOf[a]] ELSE records[NameOf[a]]

(* Confirm or Fail by the attempt itself. *)
AttemptStatus(a) ==
  /\ \/ creator[a] = "confirm" /\ FinishStatus(NameOf[a], CopyFor(a), "Created")
     \/ creator[a] = "fail" /\ FinishStatus(NameOf[a], CopyFor(a), "Failed")
  /\ creator' = [creator EXCEPT ![a] = "annotate"]
  /\ UNCHANGED <<cache, runs, inflight, aged, recovery, syncing, removed, landed>>

AttemptAnnotation(a) ==
  /\ creator[a] = "annotate"
  /\ FinishAnnotation(NameOf[a], CopyFor(a))
  /\ creator' = [creator EXCEPT ![a] = "returned"]
  /\ UNCHANGED <<cache, runs, inflight, aged, recovery, syncing, removed, landed>>

(* The attempt ends early: a call fails, its retries are exhausted, or the  *)
(* process stops.                                                           *)
AttemptStops(a) ==
  /\ creator[a] # "returned"
  /\ creator' = [creator EXCEPT ![a] = "returned"]
  /\ UNCHANGED <<records, cache, runs, inflight, aged, recovery, syncing, removed, landed>>

-----------------------------------------------------------------------------
(* recoverPendingRuns, for one record of its list *)

SetRecovery(n, pc, seen) == recovery' = [recovery EXCEPT ![n] = [pc |-> pc, seen |-> seen]]

(* Wrong on purpose: records without identity are skipped, too. *)
RecoverListComplete(n) ==
  /\ recovery[n].pc = "idle"
  /\ cache[n] # Absent /\ cache[n].pending /\ cache[n].cluster # ""
  /\ SetRecovery(n, "check", cache[n])
  /\ UNCHANGED <<records, cache, runs, creator, inflight, aged, syncing, removed, landed>>

(* The (cached) List; records that are not pending are skipped. *)
RecoverList(n) ==
  /\ recovery[n].pc = "idle"
  /\ cache[n] # Absent /\ cache[n].pending
  /\ SetRecovery(n, "check", cache[n])
  /\ UNCHANGED <<records, cache, runs, creator, inflight, aged, syncing, removed, landed>>

(* Wrong on purpose: no grace period before the deletion. *)
RecoverDeleteAtOnce(n) ==
  /\ recovery[n].pc = "check"
  /\ recovery[n].seen.cluster = ""
  /\ records' = [records EXCEPT ![n] = Absent]
  /\ SetRecovery(n, "idle", Absent)
  /\ UNCHANGED <<cache, runs, creator, inflight, aged, syncing, removed, landed>>

(* An expired record without identity is deleted, by name. *)
RecoverDelete(n) ==
  /\ recovery[n].pc = "check"
  /\ recovery[n].seen.creator \in aged
  /\ recovery[n].seen.cluster = ""
  /\ records' = [records EXCEPT ![n] = Absent]
  /\ SetRecovery(n, "idle", Absent)
  /\ UNCHANGED <<cache, runs, creator, inflight, aged, syncing, removed, landed>>

(* The hub run a record stands for: same cluster, same key label. *)
Matches(r, run) == r.cluster = run.cluster /\ ClusterOf[r.creator] = run.cluster

(* Wrong on purpose: no grace period before the verdict. *)
RecoverCheckAtOnce(n) ==
  LET seen == recovery[n].seen IN
  /\ recovery[n].pc = "check"
  /\ seen.cluster # ""
  /\ IF runs[n] = NoRun THEN SetRecovery(n, "fail", Absent)
     ELSE IF Matches(seen, runs[n]) THEN SetRecovery(n, "confirm", Absent)
     ELSE SetRecovery(n, "idle", Absent)
  /\ UNCHANGED <<records, cache, runs, creator, inflight, aged, syncing, removed, landed>>

(* Wrong on purpose: recovery creates the run it does not find. *)
RecoverCheckRecreates(n) ==
  LET seen == recovery[n].seen IN
  /\ recovery[n].pc = "check"
  /\ seen.creator \in aged /\ seen.cluster # ""
  /\ IF runs[n] = NoRun
     THEN StoreRun(seen.creator) /\ SetRecovery(n, "confirm", Absent)
     ELSE SetRecovery(n, "confirm", Absent) /\ UNCHANGED <<runs, landed>>
  /\ UNCHANGED <<records, cache, creator, inflight, aged, syncing, removed>>

(* The live read of the run decides; a mismatch or a young record is left. *)
RecoverCheck(n) ==
  LET seen == recovery[n].seen IN
  /\ recovery[n].pc = "check"
  /\ IF seen.creator \notin aged THEN SetRecovery(n, "idle", Absent)
     ELSE /\ seen.cluster # ""
          /\ IF runs[n] = NoRun THEN SetRecovery(n, "fail", Absent)
             ELSE IF Matches(seen, runs[n]) THEN SetRecovery(n, "confirm", Absent)
             ELSE SetRecovery(n, "idle", Absent)
  /\ UNCHANGED <<records, cache, runs, creator, inflight, aged, syncing, removed, landed>>

RecoverStatus(n) ==
  /\ \/ recovery[n].pc = "confirm" /\ FinishStatus(n, cache[n], "Created")
     \/ recovery[n].pc = "fail" /\ FinishStatus(n, cache[n], "Failed")
  /\ SetRecovery(n, "annotate", Absent)
  /\ UNCHANGED <<cache, runs, creator, inflight, aged, syncing, removed, landed>>

RecoverAnnotation(n) ==
  /\ recovery[n].pc = "annotate"
  /\ FinishAnnotation(n, cache[n])
  /\ SetRecovery(n, "idle", Absent)
  /\ UNCHANGED <<cache, runs, creator, inflight, aged, syncing, removed, landed>>

(* A call fails, its retries are exhausted, or the controller restarts. *)
RecoverStops(n) ==
  /\ recovery[n].pc # "idle"
  /\ SetRecovery(n, "idle", Absent)
  /\ UNCHANGED <<records, cache, runs, creator, inflight, aged, syncing, removed, landed>>

-----------------------------------------------------------------------------
(* syncHubRunStatus: the run is read once, the record on every retry *)

SyncRead(n) ==
  /\ syncing[n] = NoRun
  /\ records[n] # Absent /\ records[n].cluster # ""
  /\ runs[n] # NoRun /\ Matches(records[n], runs[n])
  /\ syncing' = [syncing EXCEPT ![n] = runs[n]]
  /\ UNCHANGED <<records, cache, runs, creator, inflight, aged, recovery, removed, landed>>

SyncWrite(n) ==
  /\ syncing[n] # NoRun
  /\ LET run == syncing[n] IN
     IF records[n] # Absent /\ Matches(records[n], run) /\ run.cond.type # ""
     THEN records' = [records EXCEPT ![n] = [records[n] EXCEPT !.type = run.cond.type,
                                                               !.phase = run.cond.phase]]
     ELSE UNCHANGED records
  /\ syncing' = [syncing EXCEPT ![n] = NoRun]
  /\ UNCHANGED <<cache, runs, creator, inflight, aged, recovery, removed, landed>>

SyncStops(n) ==
  /\ syncing[n] # NoRun
  /\ syncing' = [syncing EXCEPT ![n] = NoRun]
  /\ UNCHANGED <<records, cache, runs, creator, inflight, aged, recovery, removed, landed>>

-----------------------------------------------------------------------------
(* What happens around the protocol *)

(* The controller's informer catches up with the API server. *)
CacheSync(n) ==
  /\ cache[n] # records[n]
  /\ cache' = [cache EXCEPT ![n] = records[n]]
  /\ UNCHANGED <<records, runs, creator, inflight, aged, recovery, syncing, removed, landed>>

(* No attempt for the name is before or inside its Create, or has left one behind. *)
Quiet(n) ==
  \A b \in Attempts : NameOf[b] = n => creator[b] \notin {"begin", "identity", "create"} /\ b \notin inflight

SameIdentity(r, s) == r.creator = s.creator /\ r.cluster = s.cluster

(* pendingRunGrace passes since the record's creation.  Timely: by then the  *)
(* attempts for the name are past their Create, whose request is bounded by  *)
(* the API server's own timeout, and no older copy of the record is in use.  *)
Age(a) ==
  LET n == NameOf[a] IN
  /\ a \notin aged
  /\ records[n] # Absent /\ records[n].creator = a
  /\ Timely => /\ Quiet(n)
               /\ cache[n] # Absent /\ SameIdentity(cache[n], records[n])
               /\ recovery[n].seen # Absent => SameIdentity(recovery[n].seen, records[n])
  /\ aged' = aged \cup {a}
  /\ UNCHANGED <<records, cache, runs, creator, inflight, recovery, syncing, removed, landed>>

(* The agentic operator reports a condition; the run expires. *)
RunReports(n) ==
  /\ runs[n] # NoRun
  /\ \E c \in Conditions : runs' = [runs EXCEPT ![n] = [runs[n] EXCEPT !.cond = c]]
  /\ UNCHANGED <<records, cache, creator, inflight, aged, recovery, syncing, removed, landed>>

RunExpires(n) ==
  /\ runs[n] # NoRun
  /\ runs' = [runs EXCEPT ![n] = NoRun]
  /\ UNCHANGED <<records, cache, creator, inflight, aged, recovery, syncing, removed, landed>>

(* The purge CronJob, or garbage collection once the owner is deleted. *)
RecordRemoved(n) ==
  /\ records[n] # Absent
  /\ records' = [records EXCEPT ![n] = Absent]
  /\ removed' = removed \cup {n}
  /\ UNCHANGED <<cache, runs, creator, inflight, aged, recovery, syncing, landed>>

-----------------------------------------------------------------------------
AttemptStep(a) ==
  \/ BeginRecord(a) \/ BeginIdentity(a)
  \/ CreateAccepted(a) \/ CreateRejected(a) \/ CreateAmbiguous(a)
  \/ AttemptStatus(a) \/ AttemptAnnotation(a) \/ AttemptStops(a)

RecoveryStep(n) ==
  \/ RecoverList(n) \/ RecoverDelete(n) \/ RecoverCheck(n)
  \/ RecoverStatus(n) \/ RecoverAnnotation(n) \/ RecoverStops(n)

SyncStep(n) == SyncRead(n) \/ SyncWrite(n) \/ SyncStops(n)

Environment ==
  \/ \E a \in Attempts : RequestLands(a) \/ RequestLost(a) \/ Age(a)
  \/ \E n \in Names : CacheSync(n) \/ RunReports(n) \/ RunExpires(n) \/ RecordRemoved(n)

Next ==
  \/ \E a \in Attempts : AttemptStep(a)
  \/ \E n \in Names : RecoveryStep(n) \/ SyncStep(n)
  \/ Environment

Spec == Init /\ [][Next]_vars

(* Attempts move on and their requests are answered, time passes and watches *)
(* deliver.  Reconcile requeues itself within a minute while a record is     *)
(* pending, so recovery keeps starting; each of its calls may fail any       *)
(* number of times, but not every time (strong fairness).  A run reports     *)
(* finitely many conditions.                                                 *)
Fairness ==
  /\ \A a \in Attempts : /\ WF_vars(AttemptStep(a))
                         /\ WF_vars(RequestLands(a) \/ RequestLost(a))
                         /\ WF_vars(Age(a))
  /\ \A n \in Names : /\ WF_vars(CacheSync(n))
                      /\ <>[][~RunReports(n)]_vars
                      /\ WF_vars(RecoverList(n))
                      /\ SF_vars(RecoverDelete(n))
                      /\ SF_vars(RecoverCheck(n))
                      /\ SF_vars(RecoverStatus(n))
                      /\ SF_vars(RecoverAnnotation(n))

FairSpec == Spec /\ Fairness
-----------------------------------------------------------------------------
(* Properties *)

(* The variables keep the shapes the code gives them. *)
TypeOK ==
  /\ records \in [Names -> Record \cup {Absent}]
  /\ cache \in [Names -> Record \cup {Absent}]
  /\ runs \in [Names -> Run \cup {NoRun}]
  /\ creator \in [Attempts -> CreatorPC]
  /\ inflight \subseteq Attempts
  /\ aged \subseteq Attempts
  /\ recovery \in [Names -> [pc : RecoveryPC, seen : Record \cup {Absent}]]
  /\ \A n \in Names : recovery[n].pc = "check" => recovery[n].seen # Absent
  /\ syncing \in [Names -> Run \cup {NoRun}]
  /\ removed \subseteq Names
  /\ landed \subseteq Names

(* Begin persists the identity before the hub create, and recovery deletes  *)
(* only records without a run: until it is purged, every hub run has a      *)
(* record naming its cluster, across crashes, late requests and stale reads.*)
RunHasRecord ==
  \A n \in Names \ removed :
    runs[n] # NoRun => records[n] # Absent /\ Matches(records[n], runs[n])

(* A creation outcome is true: Failed is written (by the attempt's Fail or  *)
(* by recovery) only when there is no hub run, nor one still to come.       *)
FailedMeansNoRun ==
  \A n \in Names \ removed :
    records[n] # Absent /\ records[n].type = "" /\ records[n].phase = "Failed" => runs[n] = NoRun

(* finishCreation updates the status first: a record that lost its pending  *)
(* annotation, and with it recovery's attention, has its outcome.           *)
OutcomeBeforeAnnotation ==
  \A n \in Names \ removed :
    records[n] # Absent /\ ~records[n].pending => ~(records[n].type = "" /\ records[n].phase \in {"", "Pending"})

(* finishCreation does not overwrite a condition syncHubRunStatus wrote     *)
(* before it: type and phase always come from one condition of the run.     *)
TypeAndPhaseFromOneCondition ==
  \A n \in Names :
    records[n] # Absent /\ records[n].type # ""
      => [type |-> records[n].type, phase |-> records[n].phase] \in Conditions

(* No writer undoes another: while a record lives, no step erases its       *)
(* identity, brings its pending annotation back or reopens its outcome,     *)
(* whatever stale copy the step was computed from.                          *)
NothingUndone ==
  [][\A n \in Names :
       (records[n] # Absent /\ records'[n] # Absent /\ records'[n].creator = records[n].creator)
         => /\ records[n].cluster # "" => records'[n].cluster = records[n].cluster
            /\ ~records[n].pending => ~records'[n].pending
            /\ records[n].phase \in {"Created", "Failed"} => records'[n].phase \notin {"", "Pending"}
            /\ records[n].type # "" => records'[n].type # ""]_vars

(* A name gets at most one run: neither recovery nor a late request brings  *)
(* a run back after it was created and expired.                             *)
NoSecondRun ==
  [][\A n \in landed \ removed : runs[n] = NoRun => runs'[n] = NoRun]_vars

(* A pending record is settled in the end: Created, Failed or deleted, with *)
(* its annotation gone, whatever crashed or was lost on the way.            *)
PendingResolved ==
  \A n \in Names :
    (records[n] # Absent /\ records[n].pending)
      ~> (n \in removed \/ records[n] = Absent \/ ~records[n].pending)

-----------------------------------------------------------------------------
(* Refinement *)

(* The entry a record stands for; one without identity is not open yet. *)
EntryOf(n) ==
  IF n \in removed THEN "purged"
  ELSE IF records[n] = Absent THEN "none"
  ELSE IF records[n].cluster = "" THEN "none"
  ELSE IF records[n].type # "" THEN "reported"
  ELSE CASE records[n].phase = "Created" -> "created"
         [] records[n].phase = "Failed" -> "failed"
         [] OTHER -> "open"

OwnerOf(n) == IF EntryOf(n) \in {"none", "purged"} THEN NoRun ELSE records[n].cluster

RunOf(n) ==
  IF n \in removed THEN NoRun
  ELSE IF runs[n] # NoRun THEN runs[n].cluster
  ELSE IF n \in landed THEN Absent ELSE NoRun

Ledger == INSTANCE RunLedger WITH
  None <- NoRun, Over <- Absent,
  entry <- [n \in Names |-> EntryOf(n)],
  owner <- [n \in Names |-> OwnerOf(n)],
  run <- [n \in Names |-> RunOf(n)]

(* The whole protocol, with crashes, late requests, stale copies, recovery  *)
(* and synchronization, is a ledger: each of its steps opens or closes an   *)
(* entry, starts or ends a run as the ledger allows, or changes nothing.    *)
ImplementsLedger == Ledger!Spec
=============================================================================
