-------------------------- MODULE KnowledgeIngest --------------------------
(***************************************************************************)
(* KnowledgeFabricIngestionService over the content repository: an         *)
(* idempotent job per delivery, the upload of private objects under        *)
(* content-addressed keys, their registration, the atomic publication, the *)
(* compensation of a failure, and the durable outbox of object deletions.  *)
(* Every repository call is a transaction of its own, so the steps of      *)
(* several ingesters and a crash may fall between any two of them.         *)
(***************************************************************************)
EXTENDS KnowledgeContent

CONSTANTS
    Ingester,
    Blob,          \* object keys: a hash of the bytes under the Source
    Uploads,       \* [Snapshot -> sequence of Blob]: artifact, then child assets
    MaxFault       \* bound: storage failures, refused publications and crashes

ASSUME UploadsAssumption ==
    \A s \in Snapshot : Uploads[s] \in Seq(Blob) /\ Uploads[s] # <<>>

VARIABLES
    job,           \* [Snapshot -> KnowledgeIngestionJobRecord]
    artifact,      \* [Blob -> "none" | "pending" | "stored"]: the artifact rows
    object,        \* blobs present in private object storage
    tomb,          \* pending KnowledgeObjectDeletionRecords
    ingester,      \* what each ingest_snapshot call is doing
    faults

ingestVars == <<job, artifact, object, tomb, ingester, faults>>
kiVars == <<kcVars, ingestVars>>

NoJob == [status |-> "none", of |-> NoSnapshot]
IdleIngester == [at |-> "idle", snap |-> NoSnapshot, of |-> NoSnapshot, done |-> 0,
                 registered |-> 0, undo |-> 0, todo |-> {}, blob |-> {}]

IngestInit ==
    /\ ContentInit
    /\ job = [s \in Snapshot |-> NoJob]
    /\ artifact = [b \in Blob |-> "none"]
    /\ object = {}
    /\ tomb = {}
    /\ ingester = [p \in Ingester |-> IdleIngester]
    /\ faults = 0

Fault == faults < MaxFault /\ faults' = faults + 1

Main(s) == Uploads[s][1]
AssetsOf(s) == {Uploads[s][i] : i \in 2 .. Len(Uploads[s])}
ArtifactInUse(b) == \E s \in Published : Main(s) = b
AssetInUse(b) == \E s \in Published : b \in AssetsOf(s)

Moves(p, at) == ingester' = [ingester EXCEPT ![p].at = at]
Ends(p) == ingester' = [ingester EXCEPT ![p] = IdleIngester]

-----------------------------------------------------------------------------
(* ingest_snapshot                                                          *)

\* get_or_create_ingestion_job; a job that has its version only shows it again.
OpenJob(p, s) ==
    /\ ingester[p].at = "idle"
    /\ source.live
    /\ job' = [job EXCEPT ![s] = IF @.status = "none" THEN [NoJob EXCEPT !.status = "queued"]
                                 ELSE @]
    /\ ingester' = [ingester EXCEPT ![p] = [IdleIngester EXCEPT
            !.at = IF job[s].of # NoSnapshot THEN "again" ELSE "claim",
            !.snap = s, !.of = job[s].of]]
    /\ UNCHANGED <<kcVars, artifact, object, tomb, faults>>

\* activate_source_version_as_current
ShowAgain(p) == LET t == ingester[p].of IN
    /\ ingester[p].at = "again"
    /\ IF version[t] # "none" THEN ActivateContent(t) ELSE UNCHANGED kcVars
    /\ Ends(p)
    /\ UNCHANGED <<job, artifact, object, tomb, faults>>

ClaimableJob(s) == job[s].status \in {"queued", "failed"}

ClaimJob(p) == LET s == ingester[p].snap IN
    /\ ingester[p].at = "claim"
    /\ IF ClaimableJob(s)
       THEN /\ job' = [job EXCEPT ![s].status = "running"]
            /\ Moves(p, "lookup")
       ELSE /\ UNCHANGED job
            /\ IF job[s].status = "completed"
               THEN ingester' = [ingester EXCEPT ![p].at = "again", ![p].of = job[s].of]
               ELSE Ends(p)                  \* KnowledgeIngestionAlreadyRunning, or no row
    /\ UNCHANGED <<kcVars, artifact, object, tomb, faults>>

FailedJob(s) == IF job[s].status \in {"completed", "none"} THEN job
                ELSE [job EXCEPT ![s].status = "failed"]

CompletedJob(s, t) == [job EXCEPT ![s] = [status |-> "completed", of |-> t]]

\* get_source_version_by_key: the key may be taken already ...
LookupVersion(p) == LET s == ingester[p].snap IN
    /\ ingester[p].at = "lookup"
    /\ ingester' = [ingester EXCEPT ![p].at =
            IF Holder(s) = {} THEN "put"
            ELSE IF \E t \in Holder(s) : SourceHash[t] = SourceHash[s] THEN "dedupe" ELSE "fail",
            ![p].of = IF Holder(s) = {} THEN NoSnapshot ELSE CHOOSE t \in Holder(s) : TRUE]
    /\ UNCHANGED <<kcVars, job, artifact, object, tomb, faults>>

\* ... by the same content: complete_existing_version_job.
CompleteExisting(p) == LET s == ingester[p].snap
                           t == ingester[p].of IN
    /\ ingester[p].at = "dedupe"
    /\ IF version[t] # "none" /\ job[s].status # "none"
       THEN job' = CompletedJob(s, t) /\ ActivateContent(t)
       ELSE UNCHANGED <<job, kcVars>>
    /\ Ends(p)
    /\ UNCHANGED <<artifact, object, tomb, faults>>

PutObject(p) == LET n == ingester[p].done + 1 IN
    /\ ingester[p].at = "put"
    /\ object' = object \cup {Uploads[ingester[p].snap][n]}
    /\ ingester' = [ingester EXCEPT ![p].at = "register", ![p].done = n]
    /\ UNCHANGED <<kcVars, job, artifact, tomb, faults>>

\* put_private fails; the uploads made so far are compensated, last one first.
PutFails(p) ==
    /\ ingester[p].at = "put"
    /\ Fault
    /\ ingester' = [ingester EXCEPT ![p].at = "undo", ![p].undo = ingester[p].done]
    /\ UNCHANGED <<kcVars, job, artifact, object, tomb>>

RegisteredArtifact(b) == [artifact EXCEPT ![b] = IF @ = "stored" THEN @ ELSE "pending"]

RegisterArtifact(p) == LET s == ingester[p].snap
                           n == ingester[p].done IN
    /\ ingester[p].at = "register"
    /\ IF source.live
       THEN /\ artifact' = RegisteredArtifact(Uploads[s][n])
            /\ ingester' = [ingester EXCEPT ![p].registered = n,
                    ![p].at = IF n = Len(Uploads[s]) THEN "publish" ELSE "put"]
       ELSE /\ UNCHANGED artifact
            /\ ingester' = [ingester EXCEPT ![p].at = "undo", ![p].undo = n]
    /\ UNCHANGED <<kcVars, job, object, tomb, faults>>

\* publish_source_snapshot
MayPublish(s) == /\ source.live /\ job[s].status = "running"
                 /\ Holder(s) = {}
                 /\ \A t \in Published : SourceHash[t] # SourceHash[s]

PublishedArtifacts(s) ==
    [b \in Blob |-> IF b = Main(s) THEN "stored"
                    ELSE IF b \in AssetsOf(s) /\ artifact[b] = "none" THEN "pending"
                    ELSE artifact[b]]

PublishSnapshot(p) == LET s == ingester[p].snap IN
    /\ ingester[p].at = "publish"
    /\ MayPublish(s)
    /\ PublishContent(s)
    /\ artifact' = PublishedArtifacts(s)
    /\ job' = CompletedJob(s, s)
    /\ Ends(p)
    /\ UNCHANGED <<object, tomb, faults>>

\* Another delivery published the same key and content since the lookup.
PublishDuplicate(p) == LET s == ingester[p].snap IN
    /\ ingester[p].at = "publish"
    /\ source.live /\ job[s].status = "running"
    /\ \E t \in Holder(s) :
        /\ SourceHash[t] = SourceHash[s]
        /\ ActivateContent(t)
        /\ artifact' = IF artifact[Main(t)] = "none" THEN artifact
                       ELSE [artifact EXCEPT ![Main(t)] = "stored"]
        /\ job' = CompletedJob(s, t)
    /\ Ends(p)
    /\ UNCHANGED <<object, tomb, faults>>

\* Refused by a conflict, a lost schedule claim or the database.
PublishRefused(p) == LET s == ingester[p].snap IN
    /\ ingester[p].at = "publish"
    /\ \/ /\ ~MayPublish(s)
          /\ ~ (/\ source.live /\ job[s].status = "running"
                /\ \E t \in Holder(s) : SourceHash[t] = SourceHash[s])
          /\ UNCHANGED faults
       \/ Fault
    /\ ingester' = [ingester EXCEPT ![p].at = "undo", ![p].undo = ingester[p].done]
    /\ UNCHANGED <<kcVars, job, artifact, object, tomb>>

-----------------------------------------------------------------------------
(* _discard_failed_uploads                                                  *)

Undoing(p) == Uploads[ingester[p].snap][ingester[p].undo]

UndoDone(p) ==
    /\ ingester[p].at = "undo" /\ ingester[p].undo = 0
    /\ Moves(p, "fail")
    /\ UNCHANGED <<kcVars, job, artifact, object, tomb, faults>>

\* An upload that was never registered is deleted outright, errors ignored.
UndoUnregistered(p) ==
    /\ ingester[p].at = "undo" /\ ingester[p].undo > ingester[p].registered
    /\ \/ object' = object \ {Undoing(p)} /\ UNCHANGED faults
       \/ Fault /\ UNCHANGED object
    /\ ingester' = [ingester EXCEPT ![p].undo = @ - 1]
    /\ UNCHANGED <<kcVars, job, artifact, tomb>>

\* discard_unpublished_artifact keeps an artifact a version was made from.
UndoKept(p) ==
    /\ ingester[p].at = "undo" /\ ingester[p].undo \in 1 .. ingester[p].registered
    /\ artifact[Undoing(p)] = "none" \/ ArtifactInUse(Undoing(p))
    /\ ingester' = [ingester EXCEPT ![p].undo = @ - 1]
    /\ UNCHANGED <<kcVars, job, artifact, object, tomb, faults>>

\* Mutant of UndoDiscard.
UndoDiscardAny(p) == LET b == Undoing(p) IN
    /\ ingester[p].at = "undo" /\ ingester[p].undo \in 1 .. ingester[p].registered
    /\ artifact[b] # "none" /\ ~AssetInUse(b)
    /\ tomb' = tomb \cup {b}
    /\ artifact' = [artifact EXCEPT ![b] = "none"]
    /\ ingester' = [ingester EXCEPT ![p].at = "sweep", ![p].undo = @ - 1, ![p].todo = tomb']
    /\ UNCHANGED <<kcVars, job, object, faults>>

\* The row goes away and a deletion is queued in the same transaction; the
\* queue is worked off at once.
UndoDiscard(p) == LET b == Undoing(p) IN
    /\ ingester[p].at = "undo" /\ ingester[p].undo \in 1 .. ingester[p].registered
    /\ artifact[b] # "none" /\ ~ArtifactInUse(b) /\ ~AssetInUse(b)
    /\ tomb' = tomb \cup {b}
    /\ artifact' = [artifact EXCEPT ![b] = "none"]
    /\ ingester' = [ingester EXCEPT ![p].at = "sweep", ![p].undo = @ - 1, ![p].todo = tomb']
    /\ UNCHANGED <<kcVars, job, object, faults>>

\* An asset of a published version is still referenced: the foreign key refuses
\* the deletion and the exception leaves the handler before the job is failed.
UndoBroken(p) == LET b == Undoing(p) IN
    /\ ingester[p].at = "undo" /\ ingester[p].undo \in 1 .. ingester[p].registered
    /\ artifact[b] # "none" /\ ~ArtifactInUse(b) /\ AssetInUse(b)
    /\ Ends(p)
    /\ UNCHANGED <<kcVars, job, artifact, object, tomb, faults>>

FailJob(p) ==
    /\ ingester[p].at = "fail"
    /\ job' = FailedJob(ingester[p].snap)
    /\ Ends(p)
    /\ UNCHANGED <<kcVars, artifact, object, tomb, faults>>

-----------------------------------------------------------------------------
(* process_pending_object_deletions, by an ingester that just discarded an  *)
(* artifact, by an erasure or by recover_interrupted_jobs                   *)

SweepObject(p) == \E b \in ingester[p].todo :
    /\ ingester[p].at = "sweep" /\ ingester[p].blob = {}
    /\ b \in tomb
    /\ object' = object \ {b}
    /\ ingester' = [ingester EXCEPT ![p].blob = {b}, ![p].todo = @ \ {b}]
    /\ UNCHANGED <<kcVars, job, artifact, tomb, faults>>

\* A storage failure leaves the deletion pending.
SweepFails(p) == \E b \in ingester[p].todo :
    /\ ingester[p].at = "sweep" /\ ingester[p].blob = {}
    /\ Fault
    /\ ingester' = [ingester EXCEPT ![p].todo = @ \ {b}]
    /\ UNCHANGED <<kcVars, job, artifact, object, tomb>>

SweepRow(p) ==
    /\ ingester[p].at = "sweep" /\ ingester[p].blob # {}
    /\ tomb' = tomb \ ingester[p].blob
    /\ ingester' = [ingester EXCEPT ![p].blob = {}]
    /\ UNCHANGED <<kcVars, job, artifact, object, faults>>

\* Rows another sweep removed are passed over.
SweepEnds(p) ==
    /\ ingester[p].at = "sweep" /\ ingester[p].blob = {}
    /\ ingester[p].todo \cap tomb = {}
    /\ IF ingester[p].snap = NoSnapshot THEN Ends(p)
       ELSE ingester' = [ingester EXCEPT ![p].at = "undo", ![p].todo = {}]
    /\ UNCHANGED <<kcVars, job, artifact, object, tomb, faults>>

\* delete_content_for_corpora: every artifact gets its deletion, then the sweep.
EraseSource(p) ==
    /\ ingester[p].at = "idle" /\ source.live
    /\ EraseContent
    /\ tomb' = tomb \cup {b \in Blob : artifact[b] # "none"}
    /\ artifact' = [b \in Blob |-> "none"]
    /\ job' = [s \in Snapshot |-> NoJob]
    /\ ingester' = [ingester EXCEPT ![p].at = "sweep", ![p].todo = tomb']
    /\ UNCHANGED <<object, faults>>

\* recover_interrupted_jobs, before a restarted worker takes another delivery.
RecoverJobs(p) ==
    /\ \A q \in Ingester : ingester[q].at = "idle"
    /\ tomb # {} \/ \E s \in Snapshot : job[s].status = "running"
    /\ job' = [s \in Snapshot |-> IF job[s].status = "running"
                                  THEN [job[s] EXCEPT !.status = "queued"] ELSE job[s]]
    /\ ingester' = [ingester EXCEPT ![p].at = "sweep", ![p].todo = tomb]
    /\ UNCHANGED <<kcVars, artifact, object, tomb, faults>>

IngesterDies(p) ==
    /\ ingester[p].at # "idle"
    /\ Fault
    /\ Ends(p)
    /\ UNCHANGED <<kcVars, job, artifact, object, tomb>>

IngestStep(p) ==
    \/ ShowAgain(p) \/ ClaimJob(p) \/ LookupVersion(p) \/ CompleteExisting(p)
    \/ PutObject(p) \/ RegisterArtifact(p) \/ PublishSnapshot(p) \/ PublishDuplicate(p)
    \/ UndoDone(p) \/ UndoUnregistered(p) \/ UndoKept(p) \/ UndoDiscard(p) \/ UndoBroken(p)
    \/ FailJob(p) \/ SweepObject(p) \/ SweepRow(p) \/ SweepEnds(p)

Ingests(p) == (\E s \in Snapshot : OpenJob(p, s)) \/ IngestStep(p)

IngestFails(p) == \/ PutFails(p) \/ PublishRefused(p) \/ SweepFails(p) \/ IngesterDies(p)
                  \/ EraseSource(p) \/ RecoverJobs(p)

IngestNext == \/ \E p \in Ingester : Ingests(p) \/ IngestFails(p)
              \/ DerivedNext /\ UNCHANGED ingestVars

IngestSpec == IngestInit /\ [][IngestNext]_kiVars

-----------------------------------------------------------------------------
(* Properties                                                               *)

IngestTypeOK ==
    /\ ContentTypeOK
    /\ job \in [Snapshot -> [status : {"none", "queued", "running", "completed", "failed"},
                             of : Snapshot \cup {NoSnapshot}]]
    /\ artifact \in [Blob -> {"none", "pending", "stored"}]
    /\ object \subseteq Blob /\ tomb \subseteq Blob
    /\ \A p \in Ingester :
        /\ ingester[p].registered <= ingester[p].done
        /\ ingester[p].undo <= ingester[p].done

\* A completed job names the version its delivery asked for, the same key and the same
\* content, whichever of several deliveries published it; and the artifact rows of a
\* published version survive the compensation of another delivery that uploaded the same
\* bytes and failed.
VersionRecorded ==
    /\ \A s \in Snapshot : job[s].status = "completed" =>
        /\ job[s].of \in Published
        /\ VersionKey[job[s].of] = VersionKey[s] /\ SourceHash[job[s].of] = SourceHash[s]
    /\ \A s \in Published :
        artifact[Main(s)] = "stored" /\ \A b \in AssetsOf(s) : artifact[b] # "none"

\* The bytes a published version was made from stay in private storage.
PublishedObjectKept == \A s \in Published : Main(s) \in object /\ AssetsOf(s) \subseteq object

\* Ingestion, with every upload, retry and failure, is the append-only log of
\* VersionLog: keys are the version keys, a key's content the hash of its version.
VersionsOf(k) == {s \in Published : VersionKey[s] = k}
LoggedHash == [k \in {VersionKey[s] : s \in Snapshot} |->
                  IF VersionsOf(k) = {} THEN NoSnapshot
                  ELSE SourceHash[CHOOSE s \in VersionsOf(k) : TRUE]]
ShownKeys == {VersionKey[s] : s \in {t \in Snapshot : version[t] = "available"}}
Log == INSTANCE VersionLog WITH
    LogKey <- {VersionKey[s] : s \in Snapshot},
    LogHash <- {SourceHash[s] : s \in Snapshot},
    Unwritten <- NoSnapshot,
    oneCurrent <- source.type \in {"git", "website"},
    logged <- LoggedHash,
    shown <- ShownKeys
ImplementsVersionLog == Log!LogSpec
=============================================================================
