------------------------- MODULE KnowledgeProofs -------------------------
(***************************************************************************)
(* Proofs about the Knowledge Fabric content: whatever several ingesters   *)
(* upload, publish, compensate and leave behind, a completed delivery      *)
(* names a version of its own key and content and the artifact rows of a   *)
(* published version stay; ingestion implements the append-only log of     *)
(* VersionLog; and nothing that was published is missing from a derived    *)
(* view without an open or a failed request to rebuild it.                 *)
(*                                                                         *)
(* Three parts: what publication and activation do to the versions         *)
(* (PublishedGrows, ActivationKeeps), one lemma per action of an ingester  *)
(* for VersionInv with the refinement beside it, and one lemma per action  *)
(* of a derived-work worker for RepairInv.                                 *)
(***************************************************************************)
EXTENDS KnowledgeIngest, TLAPS

-----------------------------------------------------------------------------
(* The invariant of ingestion                                               *)

IngesterFields == {"at", "snap", "of", "done", "registered", "undo", "todo", "blob"}

RowsTyped ==
    /\ source \in [type : SourceTypes, live : BOOLEAN]
    /\ version \in [Snapshot -> {"none", "available", "superseded"}]
    /\ job \in [Snapshot -> [status : {"none", "queued", "running", "completed", "failed"},
                             of : Snapshot \cup {NoSnapshot}]]
    /\ artifact \in [Blob -> {"none", "pending", "stored"}]

IngestersShaped ==
    /\ ingester = [p \in Ingester |-> ingester[p]]
    /\ \A p \in Ingester : DOMAIN ingester[p] = IngesterFields

\* A version key and a content hash name one version: what LookupVersion and
\* PublishSnapshot look for is found in it or nowhere.
Distinct == \A s, t \in Published :
    VersionKey[s] = VersionKey[t] \/ SourceHash[s] = SourceHash[t] => s = t

\* What an ingester remembers between two calls: the snapshot it delivers, and a
\* version of the same key and content once it decided to complete with that one.
Delivers(r) ==
    /\ r.at \in {"claim", "lookup", "dedupe", "put", "register", "publish", "undo", "fail"} =>
            r.snap \in Snapshot
    /\ r.at \in {"idle", "sweep"} => r.snap \in Snapshot \cup {NoSnapshot}
    /\ r.at \in {"again", "dedupe"} => r.of \in Snapshot
    /\ r.at = "dedupe" => VersionKey[r.of] = VersionKey[r.snap] /\ SourceHash[r.of] = SourceHash[r.snap]

Deliveries == \A p \in Ingester : Delivers(ingester[p])

JobsTrue == \A s \in Snapshot : job[s].status = "completed" =>
    /\ job[s].of \in Published
    /\ VersionKey[job[s].of] = VersionKey[s] /\ SourceHash[job[s].of] = SourceHash[s]

ArtifactsKept == \A s \in Published :
    artifact[Main(s)] = "stored" /\ \A b \in AssetsOf(s) : artifact[b] # "none"

VersionInv == RowsTyped /\ IngestersShaped /\ Distinct /\ Deliveries /\ JobsTrue /\ ArtifactsKept

-----------------------------------------------------------------------------
(* What the operators do                                                    *)

LEMMA UploadsAreBlobs ==
    ASSUME NEW s \in Snapshot
    PROVE  /\ Main(s) \in Blob
           /\ AssetsOf(s) \subseteq Blob
  <1>1. Uploads[s] \in Seq(Blob) /\ Uploads[s] # <<>>
    BY UploadsAssumption
  <1>2. Len(Uploads[s]) \in Nat /\ Len(Uploads[s]) >= 1
    BY <1>1
  <1>3. \A i \in 1 .. Len(Uploads[s]) : Uploads[s][i] \in Blob
    BY <1>1
  <1> QED
    BY <1>2, <1>3 DEF Main, AssetsOf

LEMMA PublishedGrows ==
    ASSUME RowsTyped, NEW s \in Snapshot, PublishContent(s)
    PROVE  /\ source' = source
           /\ version' \in [Snapshot -> {"none", "available", "superseded"}]
           /\ Published' = Published \cup {s}
  <1>1. Activated(s) \in [Snapshot -> {"none", "available", "superseded"}]
    BY DEF RowsTyped, Activated, Superseding
  <1>2. \A t \in Snapshot \ {s} : (Activated(s)[t] # "none") = (version[t] # "none")
    BY DEF RowsTyped, Activated, Superseding
  <1>3. version' = [Activated(s) EXCEPT ![s] = "available"] /\ source' = source
    BY DEF PublishContent
  <1> QED
    BY <1>1, <1>2, <1>3 DEF Published

LEMMA ActivationKeeps ==
    ASSUME RowsTyped, NEW t \in Snapshot, version[t] # "none", ActivateContent(t)
    PROVE  /\ source' = source
           /\ version' \in [Snapshot -> {"none", "available", "superseded"}]
           /\ Published' = Published
  <1>1. version' = Activated(t) /\ source' = source
    BY DEF ActivateContent
  <1>2. Activated(t) \in [Snapshot -> {"none", "available", "superseded"}]
    BY DEF RowsTyped, Activated, Superseding
  <1>3. \A u \in Snapshot : (Activated(t)[u] # "none") = (version[u] # "none")
    BY DEF RowsTyped, Activated, Superseding
  <1> QED
    BY <1>1, <1>2, <1>3 DEF Published

\* An ingester that changes its own record alone keeps the others' promises.
LEMMA OneDelivers ==
    ASSUME IngestersShaped, Deliveries, NEW p \in Ingester, NEW r,
           ingester' = [ingester EXCEPT ![p] = r],
           DOMAIN r = IngesterFields, Delivers(r)
    PROVE  IngestersShaped' /\ Deliveries'
  <1>1. ingester'[p] = r /\ \A q \in Ingester \ {p} : ingester'[q] = ingester[q]
    BY DEF IngestersShaped
  <1>2. ingester' = [q \in Ingester |-> ingester'[q]]
    BY DEF IngestersShaped
  <1>3. IngestersShaped'
    BY <1>1, <1>2 DEF IngestersShaped
  <1>4. ASSUME NEW q \in Ingester
        PROVE  Delivers(ingester[q])'
    <2>1. CASE q = p
      BY <2>1, <1>1 DEF Delivers
    <2>2. CASE q # p
      <3>1. ingester'[q] = ingester[q]
        BY <2>2, <1>1
      <3> QED
        BY <3>1 DEF Delivers, Deliveries
    <2> QED
      BY <2>1, <2>2
  <1> QED
    BY <1>3, <1>4 DEF Deliveries

LEMMA Resting == DOMAIN IdleIngester = IngesterFields /\ Delivers(IdleIngester)
  BY DEF IdleIngester, IngesterFields, Delivers

-----------------------------------------------------------------------------
(* The actions of an ingester keep VersionInv                               *)

\* Most calls move the ingester and leave the tables alone.
LEMMA TablesAlone ==
    ASSUME VersionInv, NEW p \in Ingester, NEW r,
           ingester' = [ingester EXCEPT ![p] = r],
           DOMAIN r = IngesterFields, Delivers(r),
           UNCHANGED <<source, version, job, artifact>>
    PROVE  VersionInv'
  <1>1. IngestersShaped' /\ Deliveries'
    BY OneDelivers DEF VersionInv
  <1>2. RowsTyped'
    BY DEF VersionInv, RowsTyped
  <1>3. Published' = Published
    BY DEF Published
  <1>4. Distinct'
    BY <1>3 DEF VersionInv, Distinct
  <1>5. JobsTrue'
    BY <1>3 DEF VersionInv, JobsTrue
  <1>6. ArtifactsKept'
    BY <1>3 DEF VersionInv, ArtifactsKept, Main, AssetsOf
  <1> QED
    BY <1>1, <1>2, <1>4, <1>5, <1>6 DEF VersionInv

LEMMA RestingAlone ==
    ASSUME VersionInv, NEW p \in Ingester, Ends(p),
           UNCHANGED <<source, version, job, artifact>>
    PROVE  VersionInv'
  BY TablesAlone, Resting DEF Ends

\* A job row whose status moves without completing.
LEMMA JobMoves ==
    ASSUME VersionInv, NEW p \in Ingester, NEW r, NEW s \in Snapshot,
           NEW status \in {"none", "queued", "running", "failed"},
           job' = [job EXCEPT ![s].status = status],
           ingester' = [ingester EXCEPT ![p] = r],
           DOMAIN r = IngesterFields, Delivers(r),
           UNCHANGED <<source, version, artifact>>
    PROVE  VersionInv'
  <1>1. IngestersShaped' /\ Deliveries'
    BY OneDelivers DEF VersionInv
  <1>2. job' \in [Snapshot -> [status : {"none", "queued", "running", "completed", "failed"},
                               of : Snapshot \cup {NoSnapshot}]]
    <2>1. PICK v : v = [job[s] EXCEPT !.status = status]
      OBVIOUS
    <2>2. v \in [status : {"none", "queued", "running", "completed", "failed"},
                 of : Snapshot \cup {NoSnapshot}]
      BY <2>1 DEF VersionInv, RowsTyped
    <2>3. job' = [job EXCEPT ![s] = v]
      BY <2>1
    <2> QED
      BY <2>2, <2>3 DEF VersionInv, RowsTyped
  <1>3. job'[s].status = status /\ \A t \in Snapshot \ {s} : job'[t] = job[t]
    BY DEF VersionInv, RowsTyped
  <1>4. Published' = Published
    BY DEF Published
  <1>5. RowsTyped'
    BY <1>2 DEF VersionInv, RowsTyped
  <1>6. Distinct'
    BY <1>4 DEF VersionInv, Distinct
  <1>7. JobsTrue'
    BY <1>3, <1>4 DEF VersionInv, JobsTrue
  <1>8. ArtifactsKept'
    BY <1>4 DEF VersionInv, ArtifactsKept, Main, AssetsOf
  <1> QED
    BY <1>1, <1>5, <1>6, <1>7, <1>8 DEF VersionInv

\* A job that completes with a version of its own key and content.
LEMMA JobCompletes ==
    ASSUME RowsTyped, JobsTrue, NEW s \in Snapshot, NEW t \in Snapshot,
           job' = CompletedJob(s, t),
           VersionKey[t] = VersionKey[s], SourceHash[t] = SourceHash[s],
           t \in Published', Published \subseteq Published'
    PROVE  /\ job' \in [Snapshot -> [status : {"none", "queued", "running", "completed", "failed"},
                                     of : Snapshot \cup {NoSnapshot}]]
           /\ JobsTrue'
  <1>1. PICK v : v = [status |-> "completed", of |-> t]
    OBVIOUS
  <1>2. job' = [job EXCEPT ![s] = v] /\ v.of = t
    BY <1>1 DEF CompletedJob
  <1>3. v \in [status : {"none", "queued", "running", "completed", "failed"},
               of : Snapshot \cup {NoSnapshot}]
    BY <1>1
  <1>4. job'[s].of = t /\ \A u \in Snapshot \ {s} : job'[u] = job[u]
    BY <1>2 DEF RowsTyped
  <1> QED
    BY <1>2, <1>3, <1>4 DEF RowsTyped, JobsTrue

LEMMA OpenJobKeeps ==
    ASSUME VersionInv, NEW p \in Ingester, NEW s \in Snapshot, OpenJob(p, s)
    PROVE  VersionInv'
  <1>1. PICK o : o = job[s].of
    OBVIOUS
  <1>2. o \in Snapshot \cup {NoSnapshot}
    BY <1>1 DEF VersionInv, RowsTyped
  <1>3. PICK at : at = IF o # NoSnapshot THEN "again" ELSE "claim"
    OBVIOUS
  <1>4. PICK r : r = [IdleIngester EXCEPT !.at = at, !.snap = s, !.of = o]
    OBVIOUS
  <1>5. ingester' = [ingester EXCEPT ![p] = r]
    BY <1>1, <1>3, <1>4 DEF OpenJob
  <1>6. DOMAIN r = IngesterFields /\ r.at = at /\ r.snap = s /\ r.of = o
    BY <1>4 DEF IdleIngester, IngesterFields
  <1>7. Delivers(r)
    BY <1>2, <1>3, <1>6 DEF Delivers
  <1>8. UNCHANGED <<source, version, artifact>>
    BY DEF OpenJob, kcVars, contentVars
  <1>9. CASE job[s].status = "none"
    <2>1. PICK v : v = [NoJob EXCEPT !.status = "queued"]
      OBVIOUS
    <2>2. v = [status |-> "queued", of |-> NoSnapshot]
      BY <2>1 DEF NoJob
    <2>3. job' = [job EXCEPT ![s] = v]
      BY <1>9, <2>1 DEF OpenJob
    <2>4. job' \in [Snapshot -> [status : {"none", "queued", "running", "completed", "failed"},
                                 of : Snapshot \cup {NoSnapshot}]]
      <3>1. v \in [status : {"none", "queued", "running", "completed", "failed"},
                   of : Snapshot \cup {NoSnapshot}]
        BY <2>2
      <3> QED
        BY <3>1, <2>3 DEF VersionInv, RowsTyped
    <2>5. job'[s].status = "queued" /\ \A t \in Snapshot \ {s} : job'[t] = job[t]
      BY <2>2, <2>3 DEF VersionInv, RowsTyped
    <2>6. IngestersShaped' /\ Deliveries'
      BY <1>5, <1>6, <1>7, OneDelivers DEF VersionInv
    <2>7. Published' = Published
      BY <1>8 DEF Published
    <2>8. RowsTyped'
      BY <1>8, <2>4 DEF VersionInv, RowsTyped
    <2>9. Distinct'
      BY <2>7 DEF VersionInv, Distinct
    <2>10. JobsTrue'
      BY <2>5, <2>7 DEF VersionInv, JobsTrue
    <2>11. ArtifactsKept'
      BY <1>8, <2>7 DEF VersionInv, ArtifactsKept, Main, AssetsOf
    <2> QED
      BY <2>6, <2>8, <2>9, <2>10, <2>11 DEF VersionInv
  <1>10. CASE job[s].status # "none"
    <2>1. job' = job
      BY <1>10 DEF OpenJob, VersionInv, RowsTyped
    <2> QED
      BY <1>5, <1>6, <1>7, <1>8, <2>1, TablesAlone
  <1> QED
    BY <1>9, <1>10

LEMMA ShowAgainKeeps ==
    ASSUME VersionInv, NEW p \in Ingester, ShowAgain(p)
    PROVE  VersionInv'
  <1>1. PICK t : t = ingester[p].of
    OBVIOUS
  <1>2. t \in Snapshot
    BY <1>1 DEF ShowAgain, VersionInv, Deliveries, Delivers
  <1>3. UNCHANGED <<job, artifact>> /\ Ends(p)
    BY DEF ShowAgain
  <1>4. CASE version[t] = "none"
    <2>1. UNCHANGED <<source, version>>
      BY <1>1, <1>4 DEF ShowAgain, kcVars, contentVars
    <2> QED
      BY <1>3, <2>1, RestingAlone
  <1>5. CASE version[t] # "none"
    <2>1. ActivateContent(t)
      BY <1>1, <1>5 DEF ShowAgain
    <2>2. /\ source' = source
          /\ version' \in [Snapshot -> {"none", "available", "superseded"}]
          /\ Published' = Published
      BY <1>2, <1>5, <2>1, ActivationKeeps DEF VersionInv
    <2>3. IngestersShaped' /\ Deliveries'
      BY <1>3, OneDelivers, Resting DEF VersionInv, Ends
    <2>4. RowsTyped'
      BY <1>3, <2>2 DEF VersionInv, RowsTyped
    <2>5. Distinct'
      BY <2>2 DEF VersionInv, Distinct
    <2>6. JobsTrue'
      BY <1>3, <2>2 DEF VersionInv, JobsTrue
    <2>7. ArtifactsKept'
      BY <1>3, <2>2 DEF VersionInv, ArtifactsKept, Main, AssetsOf
    <2> QED
      BY <2>3, <2>4, <2>5, <2>6, <2>7 DEF VersionInv
  <1> QED
    BY <1>4, <1>5

LEMMA ClaimJobKeeps ==
    ASSUME VersionInv, NEW p \in Ingester, ClaimJob(p)
    PROVE  VersionInv'
  <1>1. PICK s : s = ingester[p].snap
    OBVIOUS
  <1>2. s \in Snapshot /\ ingester[p].at = "claim"
    BY <1>1 DEF ClaimJob, VersionInv, Deliveries, Delivers
  <1>3. UNCHANGED <<source, version, artifact>>
    BY DEF ClaimJob, kcVars, contentVars
  <1>4. CASE ClaimableJob(s)
    <2>1. PICK r : r = [ingester[p] EXCEPT !.at = "lookup"]
      OBVIOUS
    <2>2. ingester' = [ingester EXCEPT ![p] = r] /\ job' = [job EXCEPT ![s].status = "running"]
      BY <1>1, <1>4, <2>1 DEF ClaimJob, Moves
    <2>3. DOMAIN r = IngesterFields /\ r.at = "lookup" /\ r.snap = s
      BY <1>1, <2>1 DEF VersionInv, IngestersShaped, IngesterFields
    <2>4. Delivers(r)
      BY <1>2, <2>3 DEF Delivers
    <2> QED
      BY <1>2, <1>3, <2>2, <2>3, <2>4, JobMoves
  <1>5. CASE ~ClaimableJob(s) /\ job[s].status = "completed"
    <2>1. PICK o : o = job[s].of
      OBVIOUS
    <2>2. PICK r : r = [ingester[p] EXCEPT !.at = "again", !.of = o]
      OBVIOUS
    <2>3. ingester' = [ingester EXCEPT ![p] = r] /\ job' = job
      BY <1>1, <1>5, <2>1, <2>2 DEF ClaimJob
    <2>4. DOMAIN r = IngesterFields /\ r.at = "again" /\ r.of = o
      BY <2>2 DEF VersionInv, IngestersShaped, IngesterFields
    <2>5. o \in Snapshot
      BY <1>2, <1>5, <2>1 DEF VersionInv, JobsTrue, Published
    <2>6. Delivers(r)
      BY <2>4, <2>5 DEF Delivers
    <2> QED
      BY <1>3, <2>3, <2>4, <2>6, TablesAlone
  <1>6. CASE ~ClaimableJob(s) /\ job[s].status # "completed"
    <2>1. Ends(p) /\ job' = job
      BY <1>1, <1>6 DEF ClaimJob
    <2> QED
      BY <1>3, <2>1, RestingAlone
  <1> QED
    BY <1>4, <1>5, <1>6

\* The key is taken by one version; that of the same content is the one picked.
LEMMA LookupVersionKeeps ==
    ASSUME VersionInv, NEW p \in Ingester, LookupVersion(p)
    PROVE  VersionInv'
  <1>1. PICK s : s = ingester[p].snap
    OBVIOUS
  <1>2. s \in Snapshot
    BY <1>1 DEF LookupVersion, VersionInv, Deliveries, Delivers
  <1>3. UNCHANGED <<source, version, job, artifact>>
    BY DEF LookupVersion, kcVars, contentVars
  <1>4. PICK o : o = IF Holder(s) = {} THEN NoSnapshot ELSE CHOOSE t \in Holder(s) : TRUE
    OBVIOUS
  <1>5. PICK at : at = IF Holder(s) = {} THEN "put"
                       ELSE IF \E t \in Holder(s) : SourceHash[t] = SourceHash[s]
                            THEN "dedupe" ELSE "fail"
    OBVIOUS
  <1>6. PICK r : r = [ingester[p] EXCEPT !.at = at, !.of = o]
    OBVIOUS
  <1>7. ingester' = [ingester EXCEPT ![p] = r]
    BY <1>1, <1>4, <1>5, <1>6 DEF LookupVersion
  <1>8. DOMAIN r = IngesterFields /\ r.at = at /\ r.of = o /\ r.snap = s
    BY <1>1, <1>6 DEF VersionInv, IngestersShaped, IngesterFields
  <1>9. at = "dedupe" => /\ o \in Snapshot
                         /\ VersionKey[o] = VersionKey[s] /\ SourceHash[o] = SourceHash[s]
    <2>1. SUFFICES ASSUME at = "dedupe"
                   PROVE  /\ o \in Snapshot
                          /\ VersionKey[o] = VersionKey[s] /\ SourceHash[o] = SourceHash[s]
      OBVIOUS
    <2>2. PICK t \in Holder(s) : SourceHash[t] = SourceHash[s]
      BY <1>5, <2>1
    <2>3. o \in Holder(s)
      BY <1>4, <2>2
    <2>4. o = t
      BY <2>2, <2>3 DEF Holder, VersionInv, Distinct
    <2> QED
      BY <2>2, <2>3, <2>4 DEF Holder, Published
  <1>10. Delivers(r)
    BY <1>2, <1>5, <1>8, <1>9 DEF Delivers
  <1> QED
    BY <1>3, <1>7, <1>8, <1>10, TablesAlone

LEMMA CompleteExistingKeeps ==
    ASSUME VersionInv, NEW p \in Ingester, CompleteExisting(p)
    PROVE  VersionInv'
  <1>1. PICK s, t : s = ingester[p].snap /\ t = ingester[p].of
    OBVIOUS
  <1>2. /\ s \in Snapshot /\ t \in Snapshot
        /\ VersionKey[t] = VersionKey[s] /\ SourceHash[t] = SourceHash[s]
    BY <1>1 DEF CompleteExisting, VersionInv, Deliveries, Delivers
  <1>3. artifact' = artifact /\ Ends(p)
    BY DEF CompleteExisting
  <1>4. CASE version[t] # "none" /\ job[s].status # "none"
    <2>1. ActivateContent(t) /\ job' = CompletedJob(s, t)
      BY <1>1, <1>4 DEF CompleteExisting
    <2>2. /\ source' = source
          /\ version' \in [Snapshot -> {"none", "available", "superseded"}]
          /\ Published' = Published
      BY <1>2, <1>4, <2>1, ActivationKeeps DEF VersionInv
    <2>3. t \in Published' /\ Published \subseteq Published'
      BY <1>2, <1>4, <2>2 DEF Published
    <2>4. /\ job' \in [Snapshot -> [status : {"none", "queued", "running", "completed", "failed"},
                                    of : Snapshot \cup {NoSnapshot}]]
          /\ JobsTrue'
      BY <1>2, <2>1, <2>3, JobCompletes DEF VersionInv
    <2>5. IngestersShaped' /\ Deliveries'
      BY <1>3, OneDelivers, Resting DEF VersionInv, Ends
    <2>6. RowsTyped'
      BY <1>3, <2>2, <2>4 DEF VersionInv, RowsTyped
    <2>7. Distinct'
      BY <2>2 DEF VersionInv, Distinct
    <2>8. ArtifactsKept'
      BY <1>3, <2>2 DEF VersionInv, ArtifactsKept, Main, AssetsOf
    <2> QED
      BY <2>4, <2>5, <2>6, <2>7, <2>8 DEF VersionInv
  <1>5. CASE ~(version[t] # "none" /\ job[s].status # "none")
    <2>1. UNCHANGED <<source, version, job>>
      BY <1>1, <1>5 DEF CompleteExisting, kcVars, contentVars
    <2> QED
      BY <1>3, <2>1, RestingAlone
  <1> QED
    BY <1>4, <1>5

\* A registration never takes an artifact row away.
LEMMA RegisterArtifactKeeps ==
    ASSUME VersionInv, NEW p \in Ingester, RegisterArtifact(p)
    PROVE  VersionInv'
  <1>1. PICK s, n : s = ingester[p].snap /\ n = ingester[p].done
    OBVIOUS
  <1>2. s \in Snapshot
    BY <1>1 DEF RegisterArtifact, VersionInv, Deliveries, Delivers
  <1>3. UNCHANGED <<source, version, job>>
    BY DEF RegisterArtifact, kcVars, contentVars
  <1>4. CASE source.live
    <2>1. PICK at : at = IF n = Len(Uploads[s]) THEN "publish" ELSE "put"
      OBVIOUS
    <2>2. PICK r : r = [ingester[p] EXCEPT !.registered = n, !.at = at]
      OBVIOUS
    <2>3. PICK b : b = Uploads[s][n]
      OBVIOUS
    <2>4. artifact' = RegisteredArtifact(b) /\ ingester' = [ingester EXCEPT ![p] = r]
      BY <1>1, <1>4, <2>1, <2>2, <2>3 DEF RegisterArtifact
    <2>5. DOMAIN r = IngesterFields /\ r.at \in {"publish", "put"} /\ r.snap = s
      BY <1>1, <2>1, <2>2 DEF VersionInv, IngestersShaped, IngesterFields
    <2>6. Delivers(r)
      BY <1>2, <2>5 DEF Delivers
    <2>7. IngestersShaped' /\ Deliveries'
      BY <2>4, <2>5, <2>6, OneDelivers DEF VersionInv
    <2>8. /\ artifact' \in [Blob -> {"none", "pending", "stored"}]
          /\ \A c \in Blob : /\ artifact[c] = "stored" => artifact'[c] = "stored"
                             /\ artifact[c] # "none" => artifact'[c] # "none"
      BY <2>4 DEF RegisteredArtifact, VersionInv, RowsTyped
    <2>9. Published' = Published
      BY <1>3 DEF Published
    <2>10. RowsTyped'
      BY <1>3, <2>8 DEF VersionInv, RowsTyped
    <2>11. Distinct'
      BY <2>9 DEF VersionInv, Distinct
    <2>12. JobsTrue'
      BY <1>3, <2>9 DEF VersionInv, JobsTrue
    <2>13. ArtifactsKept'
      <3>1. ASSUME NEW u \in Published
            PROVE  artifact'[Main(u)] = "stored" /\ \A c \in AssetsOf(u) : artifact'[c] # "none"
        <4>1. u \in Snapshot
          BY DEF Published
        <4>2. artifact[Main(u)] = "stored" /\ \A c \in AssetsOf(u) : artifact[c] # "none"
          BY DEF VersionInv, ArtifactsKept
        <4> QED
          BY <4>1, <4>2, <2>8, UploadsAreBlobs
      <3> QED
        BY <3>1, <2>9 DEF ArtifactsKept, Main, AssetsOf
    <2> QED
      BY <2>7, <2>10, <2>11, <2>12, <2>13 DEF VersionInv
  <1>5. CASE ~source.live
    <2>1. PICK r : r = [ingester[p] EXCEPT !.at = "undo", !.undo = n]
      OBVIOUS
    <2>2. ingester' = [ingester EXCEPT ![p] = r] /\ artifact' = artifact
      BY <1>1, <1>5, <2>1 DEF RegisterArtifact
    <2>3. DOMAIN r = IngesterFields /\ r.at = "undo" /\ r.snap = s
      BY <1>1, <2>1 DEF VersionInv, IngestersShaped, IngesterFields
    <2>4. Delivers(r)
      BY <1>2, <2>3 DEF Delivers
    <2> QED
      BY <1>3, <2>2, <2>3, <2>4, TablesAlone
  <1> QED
    BY <1>4, <1>5

\* MayPublish looked for the key and for the content in the same transaction.
LEMMA PublishSnapshotKeeps ==
    ASSUME VersionInv, NEW p \in Ingester, PublishSnapshot(p)
    PROVE  VersionInv'
  <1>1. PICK s : s = ingester[p].snap
    OBVIOUS
  <1>2. s \in Snapshot
    BY <1>1 DEF PublishSnapshot, VersionInv, Deliveries, Delivers
  <1>3. /\ MayPublish(s) /\ PublishContent(s) /\ artifact' = PublishedArtifacts(s)
        /\ job' = CompletedJob(s, s) /\ Ends(p)
    BY <1>1 DEF PublishSnapshot
  <1>4. /\ source' = source
        /\ version' \in [Snapshot -> {"none", "available", "superseded"}]
        /\ Published' = Published \cup {s}
    BY <1>2, <1>3, PublishedGrows DEF VersionInv
  <1>5. IngestersShaped' /\ Deliveries'
    BY <1>3, OneDelivers, Resting DEF VersionInv, Ends
  <1>6. /\ job' \in [Snapshot -> [status : {"none", "queued", "running", "completed", "failed"},
                                  of : Snapshot \cup {NoSnapshot}]]
        /\ JobsTrue'
    <2>1. s \in Published' /\ Published \subseteq Published'
      BY <1>4
    <2> QED
      BY <1>2, <1>3, <2>1, JobCompletes DEF VersionInv
  <1>7. /\ artifact' \in [Blob -> {"none", "pending", "stored"}]
        /\ artifact'[Main(s)] = "stored" /\ \A b \in AssetsOf(s) : artifact'[b] # "none"
        /\ \A b \in Blob : /\ artifact[b] = "stored" => artifact'[b] = "stored"
                           /\ artifact[b] # "none" => artifact'[b] # "none"
    <2>1. Main(s) \in Blob /\ AssetsOf(s) \subseteq Blob
      BY <1>2, UploadsAreBlobs
    <2> QED
      BY <1>3, <2>1 DEF PublishedArtifacts, VersionInv, RowsTyped
  <1>8. RowsTyped'
    BY <1>4, <1>6, <1>7 DEF VersionInv, RowsTyped
  <1>9. Distinct'
    <2>1. \A t \in Published : VersionKey[t] # VersionKey[s] /\ SourceHash[t] # SourceHash[s]
      BY <1>3 DEF MayPublish, Holder
    <2> QED
      BY <1>4, <2>1 DEF VersionInv, Distinct
  <1>10. ArtifactsKept'
    <2>1. ASSUME NEW u \in Published
          PROVE  artifact'[Main(u)] = "stored" /\ \A c \in AssetsOf(u) : artifact'[c] # "none"
      <3>1. u \in Snapshot
        BY DEF Published
      <3>2. artifact[Main(u)] = "stored" /\ \A c \in AssetsOf(u) : artifact[c] # "none"
        BY DEF VersionInv, ArtifactsKept
      <3> QED
        BY <1>7, <3>1, <3>2, UploadsAreBlobs
    <2> QED
      BY <1>4, <1>7, <2>1 DEF ArtifactsKept, Main, AssetsOf
  <1> QED
    BY <1>5, <1>6, <1>8, <1>9, <1>10 DEF VersionInv

LEMMA PublishDuplicateKeeps ==
    ASSUME VersionInv, NEW p \in Ingester, PublishDuplicate(p)
    PROVE  VersionInv'
  <1>1. PICK s : s = ingester[p].snap
    OBVIOUS
  <1>2. s \in Snapshot
    BY <1>1 DEF PublishDuplicate, VersionInv, Deliveries, Delivers
  <1>3. PICK t \in Holder(s) :
            /\ SourceHash[t] = SourceHash[s]
            /\ ActivateContent(t)
            /\ artifact' = IF artifact[Main(t)] = "none" THEN artifact
                           ELSE [artifact EXCEPT ![Main(t)] = "stored"]
            /\ job' = CompletedJob(s, t)
    BY <1>1 DEF PublishDuplicate
  <1>4. t \in Snapshot /\ version[t] # "none" /\ VersionKey[t] = VersionKey[s]
    BY <1>3 DEF Holder, Published
  <1>5. /\ source' = source
        /\ version' \in [Snapshot -> {"none", "available", "superseded"}]
        /\ Published' = Published
    BY <1>3, <1>4, ActivationKeeps DEF VersionInv
  <1>6. IngestersShaped' /\ Deliveries'
    BY OneDelivers, Resting DEF VersionInv, Ends, PublishDuplicate
  <1>7. /\ job' \in [Snapshot -> [status : {"none", "queued", "running", "completed", "failed"},
                                  of : Snapshot \cup {NoSnapshot}]]
        /\ JobsTrue'
    <2>1. t \in Published' /\ Published \subseteq Published'
      BY <1>4, <1>5 DEF Published
    <2> QED
      BY <1>2, <1>3, <1>4, <2>1, JobCompletes DEF VersionInv
  <1>8. /\ artifact' \in [Blob -> {"none", "pending", "stored"}]
        /\ \A b \in Blob : /\ artifact[b] = "stored" => artifact'[b] = "stored"
                           /\ artifact[b] # "none" => artifact'[b] # "none"
    BY <1>3 DEF VersionInv, RowsTyped
  <1>9. RowsTyped'
    BY <1>5, <1>7, <1>8 DEF VersionInv, RowsTyped
  <1>10. Distinct'
    BY <1>5 DEF VersionInv, Distinct
  <1>11. ArtifactsKept'
    <2>1. ASSUME NEW u \in Published
          PROVE  artifact'[Main(u)] = "stored" /\ \A c \in AssetsOf(u) : artifact'[c] # "none"
      <3>1. u \in Snapshot
        BY DEF Published
      <3>2. artifact[Main(u)] = "stored" /\ \A c \in AssetsOf(u) : artifact[c] # "none"
        BY DEF VersionInv, ArtifactsKept
      <3> QED
        BY <1>8, <3>1, <3>2, UploadsAreBlobs
    <2> QED
      BY <1>5, <2>1 DEF ArtifactsKept, Main, AssetsOf
  <1> QED
    BY <1>6, <1>7, <1>9, <1>10, <1>11 DEF VersionInv

\* A compensation takes a row away that no version uses.
LEMMA UndoDiscardKeeps ==
    ASSUME VersionInv, NEW p \in Ingester, UndoDiscard(p)
    PROVE  VersionInv'
  <1>1. PICK b : b = Undoing(p)
    OBVIOUS
  <1>2. /\ ~ArtifactInUse(b) /\ ~AssetInUse(b)
        /\ artifact' = [artifact EXCEPT ![b] = "none"]
        /\ UNCHANGED <<source, version, job>>
    BY <1>1 DEF UndoDiscard, kcVars, contentVars
  <1>3. PICK n, todo : n = ingester[p].undo - 1 /\ todo = tomb'
    OBVIOUS
  <1>4. PICK r : r = [ingester[p] EXCEPT !.at = "sweep", !.undo = n, !.todo = todo]
    OBVIOUS
  <1>5. ingester' = [ingester EXCEPT ![p] = r]
    BY <1>3, <1>4 DEF UndoDiscard
  <1>6. DOMAIN r = IngesterFields /\ r.at = "sweep" /\ r.snap = ingester[p].snap
    BY <1>4 DEF VersionInv, IngestersShaped, IngesterFields
  <1>7. ingester[p].snap \in Snapshot
    BY DEF UndoDiscard, VersionInv, Deliveries, Delivers
  <1>8. Delivers(r)
    BY <1>6, <1>7 DEF Delivers
  <1>9. IngestersShaped' /\ Deliveries'
    BY <1>5, <1>6, <1>8, OneDelivers DEF VersionInv
  <1>10. Published' = Published
    BY <1>2 DEF Published
  <1>11. RowsTyped'
    BY <1>2 DEF VersionInv, RowsTyped
  <1>12. Distinct'
    BY <1>10 DEF VersionInv, Distinct
  <1>13. JobsTrue'
    BY <1>2, <1>10 DEF VersionInv, JobsTrue
  <1>14. ArtifactsKept'
    <2>1. ASSUME NEW u \in Published
          PROVE  artifact'[Main(u)] = "stored" /\ \A c \in AssetsOf(u) : artifact'[c] # "none"
      <3>1. u \in Snapshot
        BY DEF Published
      <3>2. Main(u) # b /\ b \notin AssetsOf(u)
        BY <1>2 DEF ArtifactInUse, AssetInUse
      <3>3. \A c \in Blob \ {b} : artifact'[c] = artifact[c]
        BY <1>2 DEF VersionInv, RowsTyped
      <3>4. artifact[Main(u)] = "stored" /\ \A c \in AssetsOf(u) : artifact[c] # "none"
        BY DEF VersionInv, ArtifactsKept
      <3> QED
        BY <3>1, <3>2, <3>3, <3>4, UploadsAreBlobs
    <2> QED
      BY <1>10, <2>1 DEF ArtifactsKept, Main, AssetsOf
  <1> QED
    BY <1>9, <1>11, <1>12, <1>13, <1>14 DEF VersionInv

LEMMA FailJobKeeps ==
    ASSUME VersionInv, NEW p \in Ingester, FailJob(p)
    PROVE  VersionInv'
  <1>1. PICK s : s = ingester[p].snap
    OBVIOUS
  <1>2. s \in Snapshot
    BY <1>1 DEF FailJob, VersionInv, Deliveries, Delivers
  <1>3. UNCHANGED <<source, version, artifact>> /\ Ends(p) /\ job' = FailedJob(s)
    BY <1>1 DEF FailJob, kcVars, contentVars
  <1>4. CASE job[s].status \in {"completed", "none"}
    <2>1. job' = job
      BY <1>3, <1>4 DEF FailedJob
    <2> QED
      BY <1>3, <2>1, RestingAlone
  <1>5. CASE job[s].status \notin {"completed", "none"}
    <2>1. job' = [job EXCEPT ![s].status = "failed"]
      BY <1>3, <1>5 DEF FailedJob
    <2>2. PICK r : r = IdleIngester
      OBVIOUS
    <2>3. ingester' = [ingester EXCEPT ![p] = r] /\ DOMAIN r = IngesterFields /\ Delivers(r)
      BY <1>3, <2>2, Resting DEF Ends
    <2> QED
      BY <1>2, <1>3, <2>1, <2>3, JobMoves
  <1> QED
    BY <1>4, <1>5

\* An erasure takes the versions with everything that speaks of them.
LEMMA EraseSourceKeeps ==
    ASSUME VersionInv, NEW p \in Ingester, EraseSource(p)
    PROVE  VersionInv'
  <1>1. /\ version' = [s \in Snapshot |-> "none"] /\ source' = [source EXCEPT !.live = FALSE]
        /\ artifact' = [b \in Blob |-> "none"] /\ job' = [s \in Snapshot |-> NoJob]
        /\ ingester[p].at = "idle"
    BY DEF EraseSource, EraseContent
  <1>2. PICK todo : todo = tomb'
    OBVIOUS
  <1>3. PICK r : r = [ingester[p] EXCEPT !.at = "sweep", !.todo = todo]
    OBVIOUS
  <1>4. ingester' = [ingester EXCEPT ![p] = r]
    BY <1>2, <1>3 DEF EraseSource
  <1>5. DOMAIN r = IngesterFields /\ r.at = "sweep" /\ r.snap = ingester[p].snap
    BY <1>3 DEF VersionInv, IngestersShaped, IngesterFields
  <1>6. ingester[p].snap \in Snapshot \cup {NoSnapshot}
    BY <1>1 DEF VersionInv, Deliveries, Delivers
  <1>7. Delivers(r)
    BY <1>5, <1>6 DEF Delivers
  <1>8. IngestersShaped' /\ Deliveries'
    BY <1>4, <1>5, <1>7, OneDelivers DEF VersionInv
  <1>9. Published' = {}
    BY <1>1 DEF Published
  <1>10. NoJob \in [status : {"none", "queued", "running", "completed", "failed"},
                    of : Snapshot \cup {NoSnapshot}] /\ NoJob.status = "none"
    BY DEF NoJob
  <1>11. RowsTyped'
    BY <1>1, <1>10 DEF VersionInv, RowsTyped
  <1>12. Distinct' /\ ArtifactsKept'
    BY <1>9 DEF Distinct, ArtifactsKept
  <1>13. JobsTrue'
    BY <1>1, <1>10 DEF JobsTrue
  <1> QED
    BY <1>8, <1>11, <1>12, <1>13 DEF VersionInv

LEMMA RecoverJobsKeeps ==
    ASSUME VersionInv, NEW p \in Ingester, RecoverJobs(p)
    PROVE  VersionInv'
  <1>1. UNCHANGED <<source, version, artifact>> /\ ingester[p].at = "idle"
    BY DEF RecoverJobs, kcVars, contentVars
  <1>2. PICK todo : todo = tomb
    OBVIOUS
  <1>3. PICK r : r = [ingester[p] EXCEPT !.at = "sweep", !.todo = todo]
    OBVIOUS
  <1>4. ingester' = [ingester EXCEPT ![p] = r]
    BY <1>2, <1>3 DEF RecoverJobs
  <1>5. DOMAIN r = IngesterFields /\ r.at = "sweep" /\ r.snap = ingester[p].snap
    BY <1>3 DEF VersionInv, IngestersShaped, IngesterFields
  <1>6. ingester[p].snap \in Snapshot \cup {NoSnapshot}
    BY <1>1 DEF VersionInv, Deliveries, Delivers
  <1>7. Delivers(r)
    BY <1>5, <1>6 DEF Delivers
  <1>8. IngestersShaped' /\ Deliveries'
    BY <1>4, <1>5, <1>7, OneDelivers DEF VersionInv
  <1>9. ASSUME NEW s \in Snapshot
        PROVE  /\ job'[s] \in [status : {"none", "queued", "running", "completed", "failed"},
                               of : Snapshot \cup {NoSnapshot}]
               /\ job'[s].status = "completed" => job'[s] = job[s]
    <2>1. job'[s] = IF job[s].status = "running" THEN [job[s] EXCEPT !.status = "queued"] ELSE job[s]
      BY DEF RecoverJobs
    <2>2. CASE job[s].status = "running"
      <3>1. PICK v : v = [job[s] EXCEPT !.status = "queued"]
        OBVIOUS
      <3>2. v \in [status : {"none", "queued", "running", "completed", "failed"},
                   of : Snapshot \cup {NoSnapshot}] /\ v.status = "queued"
        BY <3>1 DEF VersionInv, RowsTyped
      <3> QED
        BY <2>1, <2>2, <3>1, <3>2
    <2>3. CASE job[s].status # "running"
      BY <2>1, <2>3 DEF VersionInv, RowsTyped
    <2> QED
      BY <2>2, <2>3
  <1>10. RowsTyped'
    <2>1. job' = [s \in Snapshot |-> job'[s]]
      BY DEF RecoverJobs
    <2> QED
      BY <1>1, <1>9, <2>1 DEF VersionInv, RowsTyped
  <1>11. Published' = Published
    BY <1>1 DEF Published
  <1>12. Distinct'
    BY <1>11 DEF VersionInv, Distinct
  <1>13. JobsTrue'
    BY <1>9, <1>11 DEF VersionInv, JobsTrue
  <1>14. ArtifactsKept'
    BY <1>1, <1>11 DEF VersionInv, ArtifactsKept, Main, AssetsOf
  <1> QED
    BY <1>8, <1>10, <1>12, <1>13, <1>14 DEF VersionInv

\* The steps of an upload, a compensation or a sweep that change nothing a version
\* or a job depends on.
LEMMA UploadsKeep ==
    ASSUME VersionInv, NEW p \in Ingester,
           PutObject(p) \/ PutFails(p) \/ PublishRefused(p)
    PROVE  VersionInv'
  <1>1. UNCHANGED <<source, version, job, artifact>>
    BY DEF PutObject, PutFails, PublishRefused, kcVars, contentVars
  <1>2. ingester[p].snap \in Snapshot
    BY DEF PutObject, PutFails, PublishRefused, VersionInv, Deliveries, Delivers
  <1>3. CASE PutObject(p)
    <2>1. PICK n : n = ingester[p].done + 1
      OBVIOUS
    <2>2. PICK r : r = [ingester[p] EXCEPT !.at = "register", !.done = n]
      OBVIOUS
    <2>3. ingester' = [ingester EXCEPT ![p] = r]
      BY <1>3, <2>1, <2>2 DEF PutObject
    <2>4. DOMAIN r = IngesterFields /\ r.at = "register" /\ r.snap = ingester[p].snap
      BY <2>2 DEF VersionInv, IngestersShaped, IngesterFields
    <2>5. Delivers(r)
      BY <1>2, <2>4 DEF Delivers
    <2> QED
      BY <1>1, <2>3, <2>4, <2>5, TablesAlone
  <1>4. CASE PutFails(p) \/ PublishRefused(p)
    <2>1. PICK n : n = ingester[p].done
      OBVIOUS
    <2>2. PICK r : r = [ingester[p] EXCEPT !.at = "undo", !.undo = n]
      OBVIOUS
    <2>3. ingester' = [ingester EXCEPT ![p] = r]
      BY <1>4, <2>1, <2>2 DEF PutFails, PublishRefused
    <2>4. DOMAIN r = IngesterFields /\ r.at = "undo" /\ r.snap = ingester[p].snap
      BY <2>2 DEF VersionInv, IngestersShaped, IngesterFields
    <2>5. Delivers(r)
      BY <1>2, <2>4 DEF Delivers
    <2> QED
      BY <1>1, <2>3, <2>4, <2>5, TablesAlone
  <1> QED
    BY <1>3, <1>4

LEMMA UndosKeep ==
    ASSUME VersionInv, NEW p \in Ingester,
           UndoDone(p) \/ UndoUnregistered(p) \/ UndoKept(p) \/ UndoBroken(p)
    PROVE  VersionInv'
  <1>1. UNCHANGED <<source, version, job, artifact>>
    BY DEF UndoDone, UndoUnregistered, UndoKept, UndoBroken, kcVars, contentVars
  <1>2. ingester[p].snap \in Snapshot /\ ingester[p].at = "undo"
    BY DEF UndoDone, UndoUnregistered, UndoKept, UndoBroken, VersionInv, Deliveries, Delivers
  <1>3. CASE UndoDone(p)
    <2>1. PICK r : r = [ingester[p] EXCEPT !.at = "fail"]
      OBVIOUS
    <2>2. ingester' = [ingester EXCEPT ![p] = r]
      BY <1>3, <2>1 DEF UndoDone, Moves
    <2>3. DOMAIN r = IngesterFields /\ r.at = "fail" /\ r.snap = ingester[p].snap
      BY <2>1 DEF VersionInv, IngestersShaped, IngesterFields
    <2>4. Delivers(r)
      BY <1>2, <2>3 DEF Delivers
    <2> QED
      BY <1>1, <2>2, <2>3, <2>4, TablesAlone
  <1>4. CASE UndoUnregistered(p) \/ UndoKept(p)
    <2>1. PICK n : n = ingester[p].undo - 1
      OBVIOUS
    <2>2. PICK r : r = [ingester[p] EXCEPT !.undo = n]
      OBVIOUS
    <2>3. ingester' = [ingester EXCEPT ![p] = r]
      BY <1>4, <2>1, <2>2 DEF UndoUnregistered, UndoKept
    <2>4. DOMAIN r = IngesterFields /\ r.at = "undo" /\ r.snap = ingester[p].snap
      BY <1>2, <2>2 DEF VersionInv, IngestersShaped, IngesterFields
    <2>5. Delivers(r)
      BY <1>2, <2>4 DEF Delivers
    <2> QED
      BY <1>1, <2>3, <2>4, <2>5, TablesAlone
  <1>5. CASE UndoBroken(p)
    BY <1>1, <1>5, RestingAlone DEF UndoBroken
  <1> QED
    BY <1>3, <1>4, <1>5

LEMMA SweepsKeep ==
    ASSUME VersionInv, NEW p \in Ingester,
           SweepObject(p) \/ SweepFails(p) \/ SweepRow(p) \/ SweepEnds(p) \/ IngesterDies(p)
    PROVE  VersionInv'
  <1>1. UNCHANGED <<source, version, job, artifact>>
    BY DEF SweepObject, SweepFails, SweepRow, SweepEnds, IngesterDies, kcVars, contentVars
  <1>2. ASSUME NEW todo, NEW blob, ingester[p].at = "sweep",
               ingester' = [ingester EXCEPT ![p].blob = blob, ![p].todo = todo]
        PROVE  VersionInv'
    <2>1. PICK r : r = [ingester[p] EXCEPT !.blob = blob, !.todo = todo]
      OBVIOUS
    <2>2. ingester' = [ingester EXCEPT ![p] = r]
      BY <1>2, <2>1
    <2>3. DOMAIN r = IngesterFields /\ r.at = "sweep" /\ r.snap = ingester[p].snap
      BY <1>2, <2>1 DEF VersionInv, IngestersShaped, IngesterFields
    <2>4. Delivers(r)
      BY <1>2, <2>3 DEF Delivers, VersionInv, Deliveries
    <2> QED
      BY <1>1, <2>2, <2>3, <2>4, TablesAlone
  <1>3. CASE SweepObject(p)
    <2>1. PICK b \in ingester[p].todo :
              ingester' = [ingester EXCEPT ![p].blob = {b}, ![p].todo = @ \ {b}]
      BY <1>3 DEF SweepObject
    <2>2. PICK todo : todo = ingester[p].todo \ {b}
      OBVIOUS
    <2>3. ingester' = [ingester EXCEPT ![p].blob = {b}, ![p].todo = todo]
      BY <2>1, <2>2 DEF VersionInv, IngestersShaped, IngesterFields
    <2> QED
      BY <1>2, <1>3, <2>3 DEF SweepObject
  <1>4. CASE SweepFails(p)
    <2>1. PICK b \in ingester[p].todo : ingester' = [ingester EXCEPT ![p].todo = @ \ {b}]
      BY <1>4 DEF SweepFails
    <2>2. PICK todo, blob : todo = ingester[p].todo \ {b} /\ blob = ingester[p].blob
      OBVIOUS
    <2>3. ingester' = [ingester EXCEPT ![p].blob = blob, ![p].todo = todo]
      BY <2>1, <2>2 DEF VersionInv, IngestersShaped, IngesterFields
    <2> QED
      BY <1>2, <1>4, <2>3 DEF SweepFails
  <1>5. CASE SweepRow(p)
    <2>1. PICK todo : todo = ingester[p].todo
      OBVIOUS
    <2>2. ingester' = [ingester EXCEPT ![p].blob = {}, ![p].todo = todo]
      BY <1>5, <2>1 DEF SweepRow, VersionInv, IngestersShaped, IngesterFields
    <2> QED
      BY <1>2, <1>5, <2>2 DEF SweepRow
  <1>6. CASE SweepEnds(p)
    <2>1. CASE ingester[p].snap = NoSnapshot
      BY <1>1, <1>6, <2>1, RestingAlone DEF SweepEnds
    <2>2. CASE ingester[p].snap # NoSnapshot
      <3>1. PICK r : r = [ingester[p] EXCEPT !.at = "undo", !.todo = {}]
        OBVIOUS
      <3>2. ingester' = [ingester EXCEPT ![p] = r]
        BY <1>6, <2>2, <3>1 DEF SweepEnds
      <3>3. DOMAIN r = IngesterFields /\ r.at = "undo" /\ r.snap = ingester[p].snap
        BY <3>1 DEF VersionInv, IngestersShaped, IngesterFields
      <3>4. ingester[p].snap \in Snapshot
        BY <1>6, <2>2 DEF SweepEnds, VersionInv, Deliveries, Delivers
      <3>5. Delivers(r)
        BY <3>3, <3>4 DEF Delivers
      <3> QED
        BY <1>1, <3>2, <3>3, <3>5, TablesAlone
    <2> QED
      BY <2>1, <2>2
  <1>7. CASE IngesterDies(p)
    BY <1>1, <1>7, RestingAlone DEF IngesterDies
  <1> QED
    BY <1>3, <1>4, <1>5, <1>6, <1>7

\* Derived work reads versions and never writes them.
LEMMA DerivedWorkReads ==
    ASSUME DerivedNext
    PROVE  UNCHANGED <<source, version, observedOrder, entry>>
  BY DEF DerivedNext, DerivedStep, ClaimDerived, ListEvidence, UpsertRetrieval, SkipOverview,
         ReadOverview, WriteOverview, CompleteDerived, FailDerived, RebuildRaises, LeaseRunsOut,
         WorkerDies, BackoffEnds, RecoverDerived, RetryFailed, ReadSourceOverview, contentVars

LEMMA VersionStart == IngestInit => VersionInv
  <1> SUFFICES ASSUME IngestInit
               PROVE  VersionInv
    OBVIOUS
  <1>1. Published = {}
    BY DEF IngestInit, ContentInit, Published
  <1>2. RowsTyped
    BY DEF IngestInit, ContentInit, RowsTyped, NoJob
  <1>3. IngestersShaped
    <2>1. ingester = [p \in Ingester |-> IdleIngester]
      BY DEF IngestInit
    <2>2. DOMAIN IdleIngester = IngesterFields
      BY Resting
    <2> QED
      BY <2>1, <2>2 DEF IngestersShaped
  <1>4. Deliveries
    BY Resting DEF IngestInit, Deliveries
  <1>5. Distinct /\ ArtifactsKept
    BY <1>1 DEF Distinct, ArtifactsKept
  <1>6. JobsTrue
    BY DEF IngestInit, JobsTrue, NoJob
  <1> QED
    BY <1>2, <1>3, <1>4, <1>5, <1>6 DEF VersionInv

LEMMA VersionStep == VersionInv /\ [IngestNext]_kiVars => VersionInv'
  <1> SUFFICES ASSUME VersionInv, [IngestNext]_kiVars
               PROVE  VersionInv'
    OBVIOUS
  <1>1. ASSUME UNCHANGED <<source, version, job, artifact, ingester>>
        PROVE  VersionInv'
    <2>1. Published' = Published
      BY <1>1 DEF Published
    <2> QED
      BY <1>1, <2>1 DEF VersionInv, RowsTyped, IngestersShaped, Distinct, Deliveries, Delivers,
                        JobsTrue, ArtifactsKept, Main, AssetsOf
  <1>2. CASE UNCHANGED kiVars
    BY <1>1, <1>2 DEF kiVars, kcVars, contentVars, ingestVars
  <1>3. CASE DerivedNext /\ UNCHANGED ingestVars
    BY <1>1, <1>3, DerivedWorkReads DEF ingestVars
  <1>4. CASE \E p \in Ingester : Ingests(p)
    <2>1. PICK p \in Ingester : Ingests(p)
      BY <1>4
    <2>2. CASE \E s \in Snapshot : OpenJob(p, s)
      BY <2>2, OpenJobKeeps
    <2>3. CASE ShowAgain(p) \/ ClaimJob(p) \/ LookupVersion(p) \/ CompleteExisting(p)
      BY <2>3, ShowAgainKeeps, ClaimJobKeeps, LookupVersionKeeps, CompleteExistingKeeps
    <2>4. CASE PutObject(p) \/ RegisterArtifact(p) \/ PublishSnapshot(p) \/ PublishDuplicate(p)
      BY <2>4, UploadsKeep, RegisterArtifactKeeps, PublishSnapshotKeeps, PublishDuplicateKeeps
    <2>5. CASE \/ UndoDone(p) \/ UndoUnregistered(p) \/ UndoKept(p) \/ UndoDiscard(p)
               \/ UndoBroken(p) \/ FailJob(p)
      BY <2>5, UndosKeep, UndoDiscardKeeps, FailJobKeeps
    <2>6. CASE SweepObject(p) \/ SweepRow(p) \/ SweepEnds(p)
      BY <2>6, SweepsKeep
    <2> QED
      BY <2>1, <2>2, <2>3, <2>4, <2>5, <2>6 DEF Ingests, IngestStep
  <1>5. CASE \E p \in Ingester : IngestFails(p)
    BY <1>5, UploadsKeep, SweepsKeep, EraseSourceKeeps, RecoverJobsKeeps DEF IngestFails
  <1> QED
    BY <1>2, <1>3, <1>4, <1>5 DEF IngestNext

\* A completed job names the version its delivery asked for, whichever ingester published
\* it, and the artifact rows of a published version survive every compensation: for any
\* snapshots, keys, objects and ingesters, and any crashes between two repository calls
\* (publish_source_snapshot, complete_existing_version_job, discard_unpublished_artifact).
THEOREM VersionsRecorded == IngestSpec => []VersionRecorded
  <1>1. VersionInv => VersionRecorded
    BY DEF VersionInv, JobsTrue, ArtifactsKept, VersionRecorded
  <1> QED
    BY <1>1, VersionStart, VersionStep, PTL DEF IngestSpec

-----------------------------------------------------------------------------
(* Ingestion implements VersionLog                                          *)

Keys == {VersionKey[s] : s \in Snapshot}

\* What the log shows of a key: nothing, or the content of its one version.
LEMMA LogReads ==
    ASSUME Distinct
    PROVE  /\ \A k \in Keys : VersionsOf(k) = {} => LoggedHash[k] = NoSnapshot
           /\ \A s \in Published : LoggedHash[VersionKey[s]] = SourceHash[s]
  <1>1. \A k \in Keys : VersionsOf(k) = {} => LoggedHash[k] = NoSnapshot
    BY DEF LoggedHash, Keys
  <1>2. ASSUME NEW s \in Published
        PROVE  LoggedHash[VersionKey[s]] = SourceHash[s]
    <2>1. VersionKey[s] \in Keys /\ s \in VersionsOf(VersionKey[s])
      BY DEF Keys, VersionsOf, Published
    <2>2. \A t \in VersionsOf(VersionKey[s]) : t = s
      BY DEF VersionsOf, Distinct
    <2>3. LoggedHash[VersionKey[s]] =
              SourceHash[CHOOSE t \in VersionsOf(VersionKey[s]) : TRUE]
      BY <2>1 DEF LoggedHash, Keys
    <2>4. (CHOOSE t \in VersionsOf(VersionKey[s]) : TRUE) \in VersionsOf(VersionKey[s])
      BY <2>1
    <2> QED
      BY <2>2, <2>3, <2>4
  <1> QED
    BY <1>1, <1>2

LEMMA LogReadsNext ==
    ASSUME Distinct'
    PROVE  /\ \A k \in Keys : VersionsOf(k)' = {} => LoggedHash'[k] = NoSnapshot
           /\ \A s \in Published' : LoggedHash'[VersionKey[s]] = SourceHash[s]
  <1>1. \A k \in Keys : VersionsOf(k)' = {} => LoggedHash'[k] = NoSnapshot
    BY DEF LoggedHash, Keys
  <1>2. ASSUME NEW s \in Published'
        PROVE  LoggedHash'[VersionKey[s]] = SourceHash[s]
    <2>1. VersionKey[s] \in Keys /\ s \in VersionsOf(VersionKey[s])'
      BY DEF Keys, VersionsOf, Published
    <2>2. \A t \in VersionsOf(VersionKey[s])' : t = s
      BY DEF VersionsOf, Distinct
    <2>3. LoggedHash'[VersionKey[s]] =
              SourceHash[CHOOSE t \in VersionsOf(VersionKey[s])' : TRUE]
      BY <2>1 DEF LoggedHash, Keys
    <2>4. (CHOOSE t \in VersionsOf(VersionKey[s])' : TRUE) \in VersionsOf(VersionKey[s])'
      BY <2>1
    <2> QED
      BY <2>2, <2>3, <2>4
  <1> QED
    BY <1>1, <1>2

LEMMA LogStands ==
    ASSUME UNCHANGED <<source, version>>
    PROVE  UNCHANGED <<LoggedHash, ShownKeys, source.type \in {"git", "website"}>>
  BY DEF LoggedHash, ShownKeys, VersionsOf, Published

LEMMA PublicationWrites ==
    ASSUME VersionInv, VersionInv', NEW s \in Snapshot, MayPublish(s), PublishContent(s)
    PROVE  Log!LogNext
  <1>1. PICK k, h : k = VersionKey[s] /\ h = SourceHash[s]
    OBVIOUS
  <1>2. /\ source' = source
        /\ version' \in [Snapshot -> {"none", "available", "superseded"}]
        /\ Published' = Published \cup {s}
    BY PublishedGrows DEF VersionInv
  <1>3. \A t \in Published : VersionKey[t] # k /\ SourceHash[t] # h
    BY <1>1 DEF MayPublish, Holder
  <1>4. k \in Keys /\ h \in {SourceHash[t] : t \in Snapshot} /\ h # NoSnapshot
    BY <1>1, ContentAssumption DEF Keys
  <1>5. LoggedHash[k] = NoSnapshot
    <2>1. VersionsOf(k) = {}
      BY <1>3 DEF VersionsOf
    <2> QED
      BY <1>4, <2>1, LogReads DEF VersionInv
  <1>6. \A j \in Keys : LoggedHash[j] # h
    <2>1. ASSUME NEW j \in Keys
          PROVE  LoggedHash[j] # h
      <3>1. CASE VersionsOf(j) = {}
        BY <1>4, <3>1, LogReads DEF VersionInv
      <3>2. CASE VersionsOf(j) # {}
        <4>1. PICK t \in Published : VersionKey[t] = j
          BY <3>2 DEF VersionsOf
        <4> QED
          BY <1>3, <4>1, LogReads DEF VersionInv
      <3> QED
        BY <3>1, <3>2
    <2> QED
      BY <2>1
  <1>7. LoggedHash' = [LoggedHash EXCEPT ![k] = h]
    <2>1. LoggedHash' = [j \in Keys |-> LoggedHash'[j]] /\ LoggedHash = [j \in Keys |-> LoggedHash[j]]
      BY DEF LoggedHash, Keys
    <2>2. LoggedHash'[k] = h
      BY <1>1, <1>2, LogReadsNext DEF VersionInv
    <2>3. ASSUME NEW j \in Keys, j # k
          PROVE  LoggedHash'[j] = LoggedHash[j]
      <3>1. VersionsOf(j)' = VersionsOf(j)
        BY <1>1, <1>2, <2>3 DEF VersionsOf
      <3> QED
        BY <3>1 DEF LoggedHash, Keys
    <2> QED
      BY <2>1, <2>2, <2>3
  <1>8. ShownKeys' = IF source.type \in {"git", "website"} THEN {k} ELSE ShownKeys \cup {k}
    <2>1. version' = [Activated(s) EXCEPT ![s] = "available"]
      BY DEF PublishContent
    <2>2. CASE source.type \in {"git", "website"}
      <3>1. \A t \in Snapshot : (version'[t] = "available") = (t = s)
        BY <2>1, <2>2 DEF Activated, Superseding, VersionInv, RowsTyped
      <3> QED
        BY <1>1, <2>2, <3>1 DEF ShownKeys
    <2>3. CASE source.type \notin {"git", "website"}
      <3>1. version' = [version EXCEPT ![s] = "available"]
        BY <2>1, <2>3 DEF Activated
      <3>2. \A t \in Snapshot : (version'[t] = "available") = (t = s \/ version[t] = "available")
        BY <3>1 DEF VersionInv, RowsTyped
      <3> QED
        BY <1>1, <2>3, <3>2 DEF ShownKeys
    <2> QED
      BY <2>2, <2>3
  <1>9. Log!Write(k, h)
    BY <1>5, <1>6, <1>7, <1>8 DEF Log!Write, Log!Shown, Keys
  <1> QED
    BY <1>2, <1>4, <1>9 DEF Log!LogNext, Keys

\* A retained version is shown again; where all are shown, nothing happens.
LEMMA ActivationShows ==
    ASSUME VersionInv, NEW t \in Snapshot, version[t] # "none", ActivateContent(t)
    PROVE  Log!LogNext \/ UNCHANGED <<LoggedHash, ShownKeys, source.type \in {"git", "website"}>>
  <1>1. /\ source' = source
        /\ version' \in [Snapshot -> {"none", "available", "superseded"}]
        /\ Published' = Published
    BY ActivationKeeps DEF VersionInv
  <1>2. version' = Activated(t)
    BY DEF ActivateContent
  <1>3. CASE source.type \in {"git", "website"}
    <2>1. PICK k : k = VersionKey[t]
      OBVIOUS
    <2>2. k \in Keys /\ LoggedHash[k] # NoSnapshot
      <3>1. t \in Published
        BY DEF Published
      <3> QED
        BY <2>1, <3>1, LogReads, ContentAssumption DEF VersionInv, Keys
    <2>3. ShownKeys' = {k}
      <3>1. \A u \in Snapshot : (version'[u] = "available") = (u = t)
        BY <1>2, <1>3 DEF Activated, Superseding, VersionInv, RowsTyped
      <3> QED
        BY <2>1, <3>1 DEF ShownKeys
    <2>4. LoggedHash' = LoggedHash
      BY <1>1 DEF LoggedHash, VersionsOf
    <2>5. Log!Show(k)
      BY <1>3, <2>2, <2>3, <2>4 DEF Log!Show
    <2> QED
      BY <1>1, <2>2, <2>5 DEF Log!LogNext, Keys
  <1>4. CASE source.type \notin {"git", "website"}
    <2>1. version' = version
      BY <1>2, <1>4 DEF Activated
    <2> QED
      BY <1>1, <2>1, LogStands
  <1> QED
    BY <1>3, <1>4

LEMMA ErasureWipes ==
    ASSUME VersionInv, NEW p \in Ingester, EraseSource(p)
    PROVE  Log!LogNext
  <1>1. version' = [s \in Snapshot |-> "none"] /\ source' = [source EXCEPT !.live = FALSE]
    BY DEF EraseSource, EraseContent
  <1>2. Published' = {}
    BY <1>1 DEF Published
  <1>3. LoggedHash' = [k \in Keys |-> NoSnapshot]
    BY <1>2 DEF LoggedHash, VersionsOf, Keys
  <1>4. ShownKeys' = {}
    BY <1>1 DEF ShownKeys
  <1>5. source'.type = source.type
    BY <1>1 DEF VersionInv, RowsTyped
  <1>6. Log!Wipe
    BY <1>3, <1>4 DEF Log!Wipe, Keys
  <1> QED
    BY <1>5, <1>6 DEF Log!LogNext

LEMMA LogStarts == IngestInit => Log!LogInit
  <1> SUFFICES ASSUME IngestInit
               PROVE  Log!LogInit
    OBVIOUS
  <1>1. version = [s \in Snapshot |-> "none"]
    BY DEF IngestInit, ContentInit
  <1>2. Published = {}
    BY <1>1 DEF Published
  <1>3. LoggedHash = [k \in Keys |-> NoSnapshot]
    BY <1>2 DEF LoggedHash, VersionsOf, Keys
  <1>4. ShownKeys = {}
    BY <1>1 DEF ShownKeys
  <1>5. (source.type \in {"git", "website"}) \in BOOLEAN
    OBVIOUS
  <1> QED
    BY <1>3, <1>4, <1>5 DEF Log!LogInit, Keys

LEMMA LogSteps ==
    VersionInv /\ VersionInv' /\ [IngestNext]_kiVars =>
        [Log!LogNext]_<<LoggedHash, ShownKeys, source.type \in {"git", "website"}>>
  <1> SUFFICES ASSUME VersionInv, VersionInv', [IngestNext]_kiVars
               PROVE  Log!LogNext \/ UNCHANGED <<LoggedHash, ShownKeys, source.type \in {"git", "website"}>>
    OBVIOUS
  <1>1. CASE UNCHANGED <<source, version>>
    BY <1>1, LogStands
  <1>2. CASE \E p \in Ingester : PublishSnapshot(p)
    <2>1. PICK p \in Ingester : PublishSnapshot(p)
      BY <1>2
    <2>2. PICK s : s = ingester[p].snap
      OBVIOUS
    <2>3. s \in Snapshot
      BY <2>1, <2>2 DEF PublishSnapshot, VersionInv, Deliveries, Delivers
    <2> QED
      BY <2>1, <2>2, <2>3, PublicationWrites DEF PublishSnapshot
  <1>3. CASE \E p \in Ingester : ShowAgain(p) \/ CompleteExisting(p) \/ PublishDuplicate(p)
    <2>1. PICK p \in Ingester : ShowAgain(p) \/ CompleteExisting(p) \/ PublishDuplicate(p)
      BY <1>3
    <2>2. \/ UNCHANGED <<source, version>>
          \/ \E t \in Snapshot : version[t] # "none" /\ ActivateContent(t)
      <3>1. CASE ShowAgain(p)
        BY <3>1 DEF ShowAgain, VersionInv, Deliveries, Delivers, kcVars, contentVars
      <3>2. CASE CompleteExisting(p)
        BY <3>2 DEF CompleteExisting, VersionInv, Deliveries, Delivers, kcVars, contentVars
      <3>3. CASE PublishDuplicate(p)
        BY <3>3 DEF PublishDuplicate, Holder, Published
      <3> QED
        BY <2>1, <3>1, <3>2, <3>3
    <2> QED
      BY <2>2, LogStands, ActivationShows
  <1>4. CASE \E p \in Ingester : EraseSource(p)
    BY <1>4, ErasureWipes
  <1>5. \/ UNCHANGED <<source, version>>
        \/ \E p \in Ingester : PublishSnapshot(p)
        \/ \E p \in Ingester : ShowAgain(p) \/ CompleteExisting(p) \/ PublishDuplicate(p)
        \/ \E p \in Ingester : EraseSource(p)
    <2>1. CASE UNCHANGED kiVars
      BY <2>1 DEF kiVars, kcVars, contentVars
    <2>2. CASE DerivedNext
      BY <2>2, DerivedWorkReads
    <2>3. CASE \E p \in Ingester : Ingests(p)
      BY <2>3, ZenonT(120)
         DEF Ingests, IngestStep, OpenJob, ClaimJob, LookupVersion, PutObject, RegisterArtifact, UndoDone,
             UndoUnregistered, UndoKept, UndoDiscard, UndoBroken, FailJob, SweepObject, SweepRow,
             SweepEnds, kcVars, contentVars
    <2>4. CASE \E p \in Ingester : IngestFails(p)
      BY <2>4 DEF IngestFails, PutFails, PublishRefused, SweepFails, IngesterDies, RecoverJobs,
                  kcVars, contentVars
    <2> QED
      BY <2>1, <2>2, <2>3, <2>4 DEF IngestNext
  <1> QED
    BY <1>1, <1>2, <1>3, <1>4, <1>5

\* Ingestion is the append-only log of VersionLog: a version key is written once and never
\* rewritten, content is never stored under two keys, and a Source of one version shows one
\* key of the log (publish_source_snapshot, activate_source_version_as_current).
THEOREM IngestionIsALog == IngestSpec => ImplementsVersionLog
  <1>1. IngestInit => Log!LogInit
    BY LogStarts
  <1>2. VersionInv /\ VersionInv' /\ [IngestNext]_kiVars =>
            [Log!LogNext]_<<LoggedHash, ShownKeys, source.type \in {"git", "website"}>>
    BY LogSteps
  <1> QED
    BY <1>1, <1>2, VersionStart, VersionStep, PTL DEF IngestSpec, ImplementsVersionLog, Log!LogSpec

-----------------------------------------------------------------------------
(* The invariant of derived work                                            *)

Rows == Snapshot \X Dependency
RowFields == {"status", "tries", "holder", "lapsed", "waits"}
WorkerFields == {"at", "row", "seen"}

QueueShaped ==
    /\ inval = [r \in Rows |-> inval[r]]
    /\ \A r \in Rows : DOMAIN inval[r] = RowFields

WorkersShaped ==
    /\ derived = [w \in DerivedWorker |-> derived[w]]
    /\ \A w \in DerivedWorker : DOMAIN derived[w] = WorkerFields

\* Entries and invalidations speak of published versions; an erased Source has none.
Grounded ==
    /\ entry \in [Locator -> Snapshot \cup {Gone, NoEntry}]
    /\ \A l \in Locator : entry[l] \in Snapshot => entry[l] \in Published
    /\ \A r \in Rows : inval[r].status # "none" => r[1] \in Published
    /\ ~source.live => Published = {}

IndexTold == \A s \in Published : \A e \in ToIndex(s) :
    e \in retrieval \/ Unfinished(<<s, "indexes">>)

OverviewTold ==
    UsesEntries /\ overview.made /\ ~overview.stale =>
        \/ overview.deps = CurrentEvidence
        \/ \E s \in Published : Unfinished(<<s, "projections">>)

\* A busy worker has a row of a version that is there, unless the Source was erased.
Works(w) == derived[w].at # "idle" =>
    /\ derived[w].row \in Rows
    /\ source.live => derived[w].row[1] \in Published

\* While its lease stands, what the index worker listed covers what there is to
\* index: publications only take entries away from an older version.
IndexSeen(w) ==
    derived[w].at # "idle" /\ derived[w].row[2] = "indexes" /\ HoldsRow(w) =>
        /\ derived[w].at = "write" => ToIndex(derived[w].row[1]) \subseteq derived[w].seen
        /\ derived[w].at = "done" => ToIndex(derived[w].row[1]) \subseteq retrieval

\* What the overview worker read is current, or a later publication left a request of
\* its own, which this worker will not close.
OtherRow(w) == \E s \in Published :
    Unfinished(<<s, "projections">>) /\ derived[w].row # <<s, "projections">>

OverviewSeen(w) ==
    derived[w].at # "idle" /\ derived[w].row[2] = "projections" /\ UsesEntries /\ source.live =>
        /\ derived[w].at = "write" => derived[w].seen = CurrentEvidence \/ OtherRow(w)
        /\ derived[w].at = "done" =>
              (overview.made /\ ~overview.stale =>
                  overview.deps = CurrentEvidence \/ OtherRow(w))

\* One process of the deployment has the role of the Fabric worker.
OneWorker == \A v, w \in DerivedWorker : v = w

WorkerInv(w) == Works(w) /\ IndexSeen(w) /\ (OneWorker => OverviewSeen(w))

RepairInv ==
    /\ QueueShaped /\ WorkersShaped /\ Grounded
    /\ IndexTold
    /\ OneWorker => OverviewTold
    /\ \A w \in DerivedWorker : WorkerInv(w)

\* A step that leaves the content, the queue and the workers alone.
LEMMA ContentAlone ==
    ASSUME RepairInv, Published' = Published,
           UNCHANGED <<source, entry, retrieval, overview, inval, derived>>
    PROVE  RepairInv'
  <1>1. UsesEntries' = UsesEntries /\ CurrentEvidence' = CurrentEvidence
    BY DEF UsesEntries, CurrentEvidence
  <1>2. \A t \in Snapshot : ToIndex(t)' = ToIndex(t)
    BY <1>1 DEF ToIndex, Evidence
  <1>3. \A r : Unfinished(r)' = Unfinished(r)
    BY DEF Unfinished
  <1>4. QueueShaped' /\ WorkersShaped'
    BY DEF RepairInv, QueueShaped, WorkersShaped
  <1>5. Grounded'
    BY DEF RepairInv, Grounded
  <1>6. IndexTold'
    BY <1>2, <1>3 DEF RepairInv, IndexTold, Published
  <1>7. OneWorker => OverviewTold'
    BY <1>1, <1>3 DEF RepairInv, OverviewTold
  <1>8. ASSUME NEW w \in DerivedWorker
        PROVE  WorkerInv(w)'
    <2>1. WorkerInv(w)
      BY DEF RepairInv
    <2>2. Works(w)'
      BY <2>1 DEF WorkerInv, Works
    <2>3. IndexSeen(w)'
      <3>1. HoldsRow(w)' = HoldsRow(w)
        BY DEF HoldsRow
      <3>2. derived[w].at # "idle" => derived[w].row[1] \in Snapshot
        BY <2>1 DEF WorkerInv, Works, Rows
      <3> QED
        BY <1>2, <2>1, <3>1, <3>2 DEF WorkerInv, IndexSeen
    <2>4. OneWorker => OverviewSeen(w)'
      <3>1. OtherRow(w)' = OtherRow(w)
        BY <1>3 DEF OtherRow
      <3> QED
        BY <1>1, <2>1, <3>1 DEF WorkerInv, OverviewSeen
    <2> QED
      BY <2>2, <2>3, <2>4 DEF WorkerInv, OneWorker
  <1> QED
    BY <1>4, <1>5, <1>6, <1>7, <1>8 DEF RepairInv, OneWorker

-----------------------------------------------------------------------------
(* Publication and erasure keep RepairInv                                   *)

\* A snapshot that is published was not a version before.
LEMMA PublishedNew ==
    ASSUME NEW s \in Snapshot, MayPublish(s)
    PROVE  s \notin Published /\ source.live
  BY DEF MayPublish, Holder

LEMMA RefreshedEntries ==
    ASSUME RepairInv, NEW s \in Snapshot
    PROVE  /\ Refreshed(s) \in [Locator -> Snapshot \cup {Gone, NoEntry}]
           /\ \A l \in Locator : Refreshed(s)[l] \in {entry[l], s, Gone}
           /\ ~UsesEntries => Refreshed(s) = entry
  <1>1. RefreshedEntry(s) \in [Locator -> Snapshot \cup {Gone, NoEntry}]
    BY DEF RefreshedEntry, RepairInv, Grounded
  <1>2. \A l \in Locator : RefreshedEntry(s)[l] \in {entry[l], s, Gone}
    BY DEF RefreshedEntry
  <1> QED
    BY <1>1, <1>2 DEF Refreshed, RepairInv, Grounded

\* What there is to index of an older version shrinks, and nothing that is left of it
\* is taken out of the index.
LEMMA IndexShrinks ==
    ASSUME RepairInv, NEW s \in Snapshot, NEW t \in Published, s \notin Published,
           entry' = Refreshed(s), source' = source
    PROVE  /\ ToIndex(t)' \subseteq ToIndex(t)
           /\ ToIndex(t)' \cap ObsoleteEvidence(s) = {}
  <1>1. t \in Snapshot /\ t # s
    BY DEF Published
  <1>2. CASE UsesEntries
    <2>1. ASSUME NEW e \in ToIndex(t)'
          PROVE  e \in ToIndex(t) /\ e \notin ObsoleteEvidence(s)
      <3>1. PICK l \in Locator : e = <<entry'[l], l>> /\ entry'[l] \in Snapshot
        BY <1>2, <2>1 DEF ToIndex, CurrentEvidence, UsesEntries
      <3>2. e \in Evidence(t)
        BY <1>2, <2>1 DEF ToIndex, Evidence, UsesEntries
      <3>3. entry'[l] = t
        BY <3>1, <3>2 DEF Evidence
      <3>4. entry[l] = t
        BY <1>1, <3>3, RefreshedEntries, ContentAssumption
      <3>5. e \in ToIndex(t)
        BY <1>1, <1>2, <3>1, <3>2, <3>3, <3>4 DEF ToIndex, CurrentEvidence
      <3>6. e \notin ObsoleteEvidence(s)
        <4>1. SUFFICES ASSUME NEW m \in Locator, e = <<entry[m], m>>, Refreshed(s)[m] # entry[m]
                       PROVE  FALSE
          BY DEF ObsoleteEvidence
        <4>2. m = l
          BY <3>1, <4>1
        <4> QED
          BY <3>3, <3>4, <4>1, <4>2
      <3> QED
        BY <3>5, <3>6
    <2> QED
      BY <2>1
  <1>3. CASE ~UsesEntries
    <2>1. Refreshed(s) = entry
      BY <1>3, RefreshedEntries
    <2> QED
      BY <1>3, <2>1 DEF ToIndex, ObsoleteEvidence, UsesEntries, Evidence
  <1> QED
    BY <1>2, <1>3

\* Where nothing material changed there is nothing new to index or to describe.
LEMMA ImmaterialChange ==
    ASSUME RepairInv, NEW s \in Snapshot, s \notin Published, ~MaterialChange(s),
           entry' = Refreshed(s), source' = source
    PROVE  UsesEntries /\ ToIndex(s)' = {} /\ CurrentEvidence' = CurrentEvidence
  <1>1. UsesEntries /\ UsesEntries'
    BY DEF MaterialChange, UsesEntries
  <1>2. \A l \in Locator : entry'[l] # s /\ (entry[l] \in Snapshot => entry'[l] = entry[l])
    BY DEF MaterialChange
  <1>3. \A l \in Locator : entry'[l] \in Snapshot => entry[l] \in Snapshot
    BY <1>2, RefreshedEntries, ContentAssumption
  <1>4. CurrentEvidence' = CurrentEvidence
    BY <1>1, <1>2, <1>3 DEF CurrentEvidence
  <1>5. ToIndex(s)' = {}
    <2>1. ASSUME NEW e \in ToIndex(s)'
          PROVE  FALSE
      <3>1. PICK l \in Locator : e = <<entry'[l], l>>
        BY <1>1, <2>1 DEF ToIndex, CurrentEvidence
      <3>2. entry'[l] = s
        BY <1>1, <2>1, <3>1 DEF ToIndex, Evidence
      <3> QED
        BY <1>2, <3>2
    <2> QED
      BY <2>1
  <1> QED
    BY <1>1, <1>4, <1>5

LEMMA PublicationRepairs ==
    ASSUME RowsTyped, RepairInv, NEW s \in Snapshot, MayPublish(s), PublishContent(s)
    PROVE  RepairInv'
  <1>1. s \notin Published /\ source.live
    BY PublishedNew
  <1>2. source' = source /\ Published' = Published \cup {s}
    BY PublishedGrows
  <1>3. /\ entry' = Refreshed(s) /\ retrieval' = retrieval \ ObsoleteEvidence(s)
        /\ derived' = derived
    BY DEF PublishContent, derivedVars
  <1>4. \A t \in Published : /\ ToIndex(t)' \subseteq ToIndex(t)
                             /\ ToIndex(t)' \cap ObsoleteEvidence(s) = {}
    BY <1>1, <1>2, <1>3, IndexShrinks
  <1>5. UsesEntries' = UsesEntries
    BY <1>2 DEF UsesEntries
  <1>6. CASE MaterialChange(s)
    <2>1. PICK new : new = [NoRow EXCEPT !.status = "pending"]
      OBVIOUS
    <2>2. inval' = [r \in Rows |-> IF r[1] = s THEN new ELSE inval[r]]
      BY <1>6, <2>1 DEF PublishContent, Rows
    <2>3. DOMAIN new = RowFields /\ new.status = "pending"
      BY <2>1 DEF NoRow, RowFields
    <2>4. QueueShaped'
      BY <2>2, <2>3 DEF RepairInv, QueueShaped
    <2>5. WorkersShaped'
      BY <1>3 DEF RepairInv, WorkersShaped
    <2>6. Grounded'
      <3>1. entry' \in [Locator -> Snapshot \cup {Gone, NoEntry}]
        BY <1>3, RefreshedEntries
      <3>2. \A l \in Locator : entry'[l] \in Snapshot => entry'[l] \in Published'
        BY <1>2, <1>3, RefreshedEntries, ContentAssumption DEF RepairInv, Grounded
      <3>3. \A r \in Rows : inval'[r].status # "none" => r[1] \in Published'
        BY <1>2, <2>2 DEF RepairInv, Grounded
      <3> QED
        BY <1>1, <1>2, <3>1, <3>2, <3>3 DEF Grounded
    <2>7. \A d \in Dependency : Unfinished(<<s, d>>)'
      BY <2>2, <2>3 DEF Unfinished, Rows
    <2>8. \A t \in Published, d \in Dependency : inval'[<<t, d>>] = inval[<<t, d>>]
      BY <1>1, <2>2 DEF Rows, Published
    <2>9. IndexTold'
      <3>1. ASSUME NEW t \in Published', NEW e \in ToIndex(t)'
            PROVE  e \in retrieval' \/ Unfinished(<<t, "indexes">>)'
        <4>1. CASE t = s
          BY <2>7, <4>1 DEF Dependency
        <4>2. CASE t \in Published
          <5>1. e \in retrieval \/ Unfinished(<<t, "indexes">>)
            BY <1>4, <3>1, <4>2 DEF RepairInv, IndexTold
          <5>2. e \notin ObsoleteEvidence(s)
            BY <1>4, <3>1, <4>2
          <5>3. Unfinished(<<t, "indexes">>)' = Unfinished(<<t, "indexes">>)
            BY <2>8, <4>2 DEF Unfinished, Dependency
          <5> QED
            BY <1>3, <5>1, <5>2, <5>3
        <4> QED
          BY <1>2, <3>1, <4>1, <4>2
      <3> QED
        BY <3>1 DEF IndexTold
    <2>10. OverviewTold'
      BY <1>2, <2>7 DEF OverviewTold, Dependency
    <2>11. ASSUME NEW w \in DerivedWorker
           PROVE  WorkerInv(w)'
      <3>1. WorkerInv(w)
        BY DEF RepairInv
      <3>2. Works(w)'
        BY <1>2, <1>3, <3>1 DEF WorkerInv, Works
      <3>3. derived[w].at # "idle" => /\ derived[w].row \in Rows /\ derived[w].row[1] \in Published
                                      /\ inval'[derived[w].row] = inval[derived[w].row]
        BY <1>1, <2>2, <3>1 DEF WorkerInv, Works
      <3>4. IndexSeen(w)'
        <4>1. derived[w].at # "idle" => HoldsRow(w)' = HoldsRow(w)
          BY <1>3, <3>3 DEF HoldsRow
        <4> QED
          BY <1>3, <1>4, <3>1, <3>3, <4>1 DEF WorkerInv, IndexSeen
      <3>5. derived[w].at # "idle" => OtherRow(w)'
        <4>1. derived[w].at # "idle" => derived[w].row # <<s, "projections">>
          BY <1>1, <3>3
        <4> QED
          BY <1>2, <1>3, <2>7, <4>1 DEF OtherRow, Dependency
      <3>6. OverviewSeen(w)'
        BY <1>3, <3>5 DEF OverviewSeen
      <3> QED
        BY <3>2, <3>4, <3>6 DEF WorkerInv
    <2> QED
      BY <2>4, <2>5, <2>6, <2>9, <2>10, <2>11 DEF RepairInv
  <1>7. CASE ~MaterialChange(s)
    <2>1. inval' = inval /\ overview' = overview
      BY <1>7 DEF PublishContent
    <2>2. UsesEntries /\ ToIndex(s)' = {} /\ CurrentEvidence' = CurrentEvidence
      BY <1>1, <1>2, <1>3, <1>7, ImmaterialChange
    <2>3. QueueShaped' /\ WorkersShaped'
      BY <1>3, <2>1 DEF RepairInv, QueueShaped, WorkersShaped
    <2>4. Grounded'
      <3>1. entry' \in [Locator -> Snapshot \cup {Gone, NoEntry}]
        BY <1>3, RefreshedEntries
      <3>2. \A l \in Locator : entry'[l] \in Snapshot => entry'[l] \in Published'
        BY <1>2, <1>3, RefreshedEntries, ContentAssumption DEF RepairInv, Grounded
      <3> QED
        BY <1>1, <1>2, <2>1, <3>1, <3>2 DEF RepairInv, Grounded
    <2>5. \A r : Unfinished(r)' = Unfinished(r)
      BY <2>1 DEF Unfinished
    <2>6. IndexTold'
      <3>1. ASSUME NEW t \in Published, NEW e \in ToIndex(t)'
            PROVE  e \in retrieval' \/ Unfinished(<<t, "indexes">>)'
        <4>1. e \in retrieval \/ Unfinished(<<t, "indexes">>)
          BY <1>4, <3>1 DEF RepairInv, IndexTold
        <4>2. e \notin ObsoleteEvidence(s)
          BY <1>4, <3>1
        <4> QED
          BY <1>3, <2>5, <4>1, <4>2
      <3> QED
        BY <1>2, <2>2, <3>1 DEF IndexTold
    <2>7. OneWorker => OverviewTold'
      BY <1>2, <1>5, <2>1, <2>2, <2>5 DEF RepairInv, OverviewTold
    <2>8. ASSUME NEW w \in DerivedWorker
          PROVE  WorkerInv(w)'
      <3>1. WorkerInv(w)
        BY DEF RepairInv
      <3>2. Works(w)'
        BY <1>2, <1>3, <3>1 DEF WorkerInv, Works
      <3>3. derived[w].at # "idle" => derived[w].row[1] \in Published
        BY <1>1, <3>1 DEF WorkerInv, Works
      <3>4. IndexSeen(w)'
        <4>1. HoldsRow(w)' = HoldsRow(w)
          BY <1>3, <2>1 DEF HoldsRow
        <4> QED
          BY <1>3, <1>4, <3>1, <3>3, <4>1 DEF WorkerInv, IndexSeen
      <3>5. OtherRow(w) => OtherRow(w)'
        BY <1>2, <1>3, <2>5 DEF OtherRow
      <3>6. OneWorker => OverviewSeen(w)'
        BY <1>2, <1>3, <1>5, <2>1, <2>2, <3>1, <3>5 DEF WorkerInv, OverviewSeen
      <3> QED
        BY <3>2, <3>4, <3>6 DEF WorkerInv, OneWorker
    <2> QED
      BY <2>3, <2>4, <2>6, <2>7, <2>8 DEF RepairInv, OneWorker
  <1> QED
    BY <1>6, <1>7

LEMMA ErasureRepairs ==
    ASSUME RowsTyped, RepairInv, EraseContent
    PROVE  RepairInv'
  <1>1. /\ version' = [s \in Snapshot |-> "none"] /\ source' = [source EXCEPT !.live = FALSE]
        /\ entry' = [l \in Locator |-> NoEntry] /\ overview' = NoOverview
        /\ inval' = [r \in Rows |-> NoRow] /\ derived' = derived
    BY DEF EraseContent, derivedVars, Rows
  <1>2. Published' = {} /\ ~source'.live
    BY <1>1 DEF Published, RowsTyped
  <1>3. DOMAIN NoRow = RowFields /\ NoRow.status = "none"
    BY DEF NoRow, RowFields
  <1>4. QueueShaped' /\ WorkersShaped'
    BY <1>1, <1>3 DEF RepairInv, QueueShaped, WorkersShaped
  <1>5. Grounded'
    BY <1>1, <1>2, <1>3, ContentAssumption DEF Grounded
  <1>6. IndexTold'
    BY <1>2 DEF IndexTold
  <1>7. OverviewTold'
    BY <1>1 DEF OverviewTold, NoOverview
  <1>8. ASSUME NEW w \in DerivedWorker
        PROVE  WorkerInv(w)'
    <2>1. Works(w)'
      BY <1>1, <1>2 DEF RepairInv, WorkerInv, Works
    <2>2. derived[w].at # "idle" => ~HoldsRow(w)'
      BY <1>1, <1>3, <2>1 DEF HoldsRow, Works
    <2>3. IndexSeen(w)' /\ OverviewSeen(w)'
      BY <1>1, <1>2, <2>2 DEF IndexSeen, OverviewSeen
    <2> QED
      BY <2>1, <2>3 DEF WorkerInv
  <1> QED
    BY <1>4, <1>5, <1>6, <1>7, <1>8 DEF RepairInv

-----------------------------------------------------------------------------
(* The actions of derived work keep RepairInv                               *)

\* No row appears, and nobody but w comes to hold one.
QueueMay(w) ==
    /\ QueueShaped'
    /\ \A r \in Rows : inval'[r].status # "none" => inval[r].status # "none"
    /\ \A v \in DerivedWorker \ {w} : derived[v].at # "idle" /\ HoldsRow(v)' => HoldsRow(v)

\* A step of one worker: its own promise and the two views are left to show.
LEMMA WorkerSteps ==
    ASSUME RepairInv, NEW w \in DerivedWorker, NEW r,
           UNCHANGED <<source, version, entry>>, retrieval \subseteq retrieval',
           derived' = [derived EXCEPT ![w] = r], DOMAIN r = WorkerFields,
           QueueMay(w), IndexTold', OneWorker => OverviewTold', WorkerInv(w)'
    PROVE  RepairInv'
  <1>1. derived'[w] = r /\ \A v \in DerivedWorker \ {w} : derived'[v] = derived[v]
    BY DEF RepairInv, WorkersShaped
  <1>2. WorkersShaped'
    <2>1. derived' = [v \in DerivedWorker |-> derived'[v]]
      BY DEF RepairInv, WorkersShaped
    <2> QED
      BY <1>1, <2>1 DEF RepairInv, WorkersShaped
  <1>3. Published' = Published
    BY DEF Published
  <1>4. Grounded'
    BY <1>3 DEF RepairInv, Grounded, QueueMay
  <1>5. ASSUME NEW v \in DerivedWorker, v # w
        PROVE  WorkerInv(v)'
    <2>1. WorkerInv(v) /\ derived'[v] = derived[v]
      BY <1>1, <1>5 DEF RepairInv
    <2>2. Works(v)'
      BY <1>3, <2>1 DEF WorkerInv, Works
    <2>3. IndexSeen(v)'
      <3>1. derived[v].at # "idle" /\ HoldsRow(v)' => HoldsRow(v)
        BY <1>5 DEF QueueMay
      <3>2. \A t : ToIndex(t)' = ToIndex(t)
        BY DEF ToIndex, UsesEntries, Evidence, CurrentEvidence
      <3> QED
        BY <2>1, <3>1, <3>2 DEF WorkerInv, IndexSeen
    <2>4. ~OneWorker
      BY <1>5 DEF OneWorker
    <2> QED
      BY <2>2, <2>3, <2>4 DEF WorkerInv, OneWorker
  <1> QED
    BY <1>2, <1>4, <1>5 DEF RepairInv, QueueMay, OneWorker

\* A step of the queue alone that keeps open what is open.
LEMMA QueueSteps ==
    ASSUME RepairInv, UNCHANGED <<source, version, entry, retrieval, overview, derived>>,
           QueueShaped',
           \A r \in Rows : inval'[r].status # "none" => inval[r].status # "none",
           \A r \in Rows : Unfinished(r) => Unfinished(r)',
           \A v \in DerivedWorker : derived[v].at # "idle" /\ HoldsRow(v)' => HoldsRow(v)
    PROVE  RepairInv'
  <1>1. Published' = Published /\ Published \subseteq Snapshot
    BY DEF Published
  <1>2. \A t : ToIndex(t)' = ToIndex(t)
    BY DEF ToIndex, UsesEntries, Evidence, CurrentEvidence
  <1>3. \A t \in Published, d \in Dependency : Unfinished(<<t, d>>) => Unfinished(<<t, d>>)'
    BY <1>1 DEF Rows
  <1>4. WorkersShaped' /\ Grounded'
    BY <1>1 DEF RepairInv, WorkersShaped, Grounded
  <1>5. IndexTold'
    BY <1>1, <1>2, <1>3 DEF RepairInv, IndexTold, Dependency
  <1>6. OneWorker => OverviewTold'
    BY <1>1, <1>3 DEF RepairInv, OverviewTold, UsesEntries, CurrentEvidence, Dependency
  <1>7. ASSUME NEW v \in DerivedWorker
        PROVE  WorkerInv(v)'
    <2>1. WorkerInv(v)
      BY DEF RepairInv
    <2>2. Works(v)'
      BY <1>1, <2>1 DEF WorkerInv, Works
    <2>3. IndexSeen(v)'
      BY <1>2, <2>1 DEF WorkerInv, IndexSeen
    <2>4. OtherRow(v) => OtherRow(v)'
      BY <1>1, <1>3 DEF OtherRow, Dependency
    <2>5. OneWorker => OverviewSeen(v)'
      BY <2>1, <2>4 DEF WorkerInv, OverviewSeen, UsesEntries, CurrentEvidence
    <2> QED
      BY <2>2, <2>3, <2>5 DEF WorkerInv, OneWorker
  <1> QED
    BY <1>4, <1>5, <1>6, <1>7 DEF RepairInv, OneWorker

LEMMA BackoffEndsRepairs ==
    ASSUME RepairInv, NEW r \in Rows, BackoffEnds(r)
    PROVE  RepairInv'
  <1>1. UNCHANGED <<source, version, entry, retrieval, overview, derived>>
    BY DEF BackoffEnds, derivedVars
  <1>2. PICK v : v = [inval[r] EXCEPT !.waits = FALSE]
    OBVIOUS
  <1>3. inval' = [inval EXCEPT ![r] = v]
    BY <1>2 DEF BackoffEnds
  <1>4. /\ DOMAIN v = RowFields /\ v.status = inval[r].status
        /\ v.holder = inval[r].holder /\ v.lapsed = inval[r].lapsed
    BY <1>2 DEF RepairInv, QueueShaped, RowFields
  <1>5. inval'[r] = v /\ \A q \in Rows \ {r} : inval'[q] = inval[q]
    BY <1>3 DEF RepairInv, QueueShaped
  <1>6. QueueShaped'
    BY <1>3, <1>4, <1>5 DEF RepairInv, QueueShaped
  <1>7. \A q \in Rows : inval'[q].status = inval[q].status
    BY <1>4, <1>5
  <1>8. \A u \in DerivedWorker : derived[u].at # "idle" /\ HoldsRow(u)' => HoldsRow(u)
    <2>1. \A u \in DerivedWorker : derived[u].at # "idle" => derived[u].row \in Rows
      BY DEF RepairInv, WorkerInv, Works
    <2> QED
      BY <1>1, <1>4, <1>5, <2>1 DEF HoldsRow
  <1> QED
    BY <1>1, <1>6, <1>7, <1>8, QueueSteps DEF Unfinished

\* The rows that move are put back into the queue, so nobody holds them afterwards.
LEMMA RequeueRepairs ==
    ASSUME RepairInv, RecoverDerived \/ RetryFailed
    PROVE  RepairInv'
  <1>1. UNCHANGED <<source, version, entry, retrieval, overview, derived>>
    BY DEF RecoverDerived, RetryFailed, derivedVars
  <1>2. inval' = [r \in Rows |-> inval'[r]]
    BY DEF RecoverDerived, RetryFailed, Rows
  <1>3. ASSUME NEW r \in Rows
        PROVE  \/ inval'[r] = inval[r]
               \/ /\ inval[r].status \in {"running", "failed"}
                  /\ inval'[r].status = "pending" /\ DOMAIN inval'[r] = RowFields
    <2>1. PICK v : v = [Settled(inval[r], "pending") EXCEPT !.waits = FALSE]
      OBVIOUS
    <2>2. DOMAIN v = RowFields /\ v.status = "pending"
      BY <2>1 DEF Settled, RepairInv, QueueShaped, RowFields
    <2>3. CASE RecoverDerived
      <3>1. inval'[r] = IF inval[r].status = "running" /\ inval[r].lapsed THEN v ELSE inval[r]
        BY <2>1, <2>3 DEF RecoverDerived, Rows
      <3> QED
        BY <2>2, <3>1
    <2>4. CASE RetryFailed
      <3>1. inval'[r] = IF inval[r].status = "failed" THEN v ELSE inval[r]
        BY <2>1, <2>4 DEF RetryFailed, Rows
      <3> QED
        BY <2>2, <3>1
    <2> QED
      BY <2>3, <2>4
  <1>4. QueueShaped'
    BY <1>2, <1>3 DEF RepairInv, QueueShaped
  <1>5. \A r \in Rows : inval'[r].status # "none" => inval[r].status # "none"
    BY <1>3
  <1>6. \A r \in Rows : Unfinished(r) => Unfinished(r)'
    BY <1>3 DEF Unfinished
  <1>7. \A v \in DerivedWorker : derived[v].at # "idle" /\ HoldsRow(v)' => HoldsRow(v)
    <2>1. \A v \in DerivedWorker : derived[v].at # "idle" => derived[v].row \in Rows
      BY DEF RepairInv, WorkerInv, Works
    <2> QED
      BY <1>1, <1>3, <2>1 DEF HoldsRow
  <1> QED
    BY <1>1, <1>4, <1>5, <1>6, <1>7, QueueSteps

\* A lease that runs out leaves its row running, but in nobody's hands.
LEMMA Lapses ==
    ASSUME RepairInv, NEW w \in DerivedWorker, derived[w].at # "idle", HoldsRow(w),
           inval' = [inval EXCEPT ![derived[w].row].lapsed = TRUE]
    PROVE  /\ QueueShaped'
           /\ \A q \in Rows : inval'[q].status = inval[q].status
           /\ \A q \in Rows : ~inval'[q].lapsed => inval'[q] = inval[q]
  <1>1. PICK r \in Rows : r = derived[w].row
    BY DEF RepairInv, WorkerInv, Works
  <1>2. PICK v : v = [inval[r] EXCEPT !.lapsed = TRUE]
    OBVIOUS
  <1>3. inval' = [inval EXCEPT ![r] = v]
    BY <1>1, <1>2
  <1>4. DOMAIN v = RowFields /\ v.status = inval[r].status /\ v.lapsed = TRUE
    BY <1>2 DEF RepairInv, QueueShaped, RowFields
  <1>5. inval'[r] = v /\ \A q \in Rows \ {r} : inval'[q] = inval[q]
    BY <1>3 DEF RepairInv, QueueShaped
  <1>6. QueueShaped'
    BY <1>3, <1>4, <1>5 DEF RepairInv, QueueShaped
  <1> QED
    BY <1>4, <1>5, <1>6

LEMMA LeaseRunsOutRepairs ==
    ASSUME RepairInv, NEW w \in DerivedWorker, LeaseRunsOut(w)
    PROVE  RepairInv'
  <1>1. /\ UNCHANGED <<source, version, entry, retrieval, overview, derived>>
        /\ derived[w].at # "idle" /\ HoldsRow(w)
        /\ inval' = [inval EXCEPT ![derived[w].row].lapsed = TRUE]
    BY DEF LeaseRunsOut
  <1>2. /\ QueueShaped'
        /\ \A q \in Rows : inval'[q].status = inval[q].status
        /\ \A q \in Rows : ~inval'[q].lapsed => inval'[q] = inval[q]
    BY <1>1, Lapses
  <1>3. \A v \in DerivedWorker : derived[v].at # "idle" /\ HoldsRow(v)' => HoldsRow(v)
    <2>1. \A v \in DerivedWorker : derived[v].at # "idle" => derived[v].row \in Rows
      BY DEF RepairInv, WorkerInv, Works
    <2> QED
      BY <1>1, <1>2, <2>1 DEF HoldsRow
  <1> QED
    BY <1>1, <1>2, <1>3, QueueSteps DEF Unfinished

\* A reader that finds no current overview makes one of what it sees, in one transaction.
LEMMA ReadSourceOverviewRepairs ==
    ASSUME RepairInv, ReadSourceOverview
    PROVE  RepairInv'
  <1>1. UNCHANGED <<source, version, entry, retrieval, inval, derived>>
    BY DEF ReadSourceOverview, derivedVars
  <1>2. UsesEntries => overview'.deps = CurrentEvidence
    BY DEF ReadSourceOverview, WrittenOverview, ToProject
  <1>3. Published' = Published
    BY <1>1 DEF Published
  <1>4. UsesEntries' = UsesEntries /\ CurrentEvidence' = CurrentEvidence
    BY <1>1 DEF UsesEntries, CurrentEvidence
  <1>5. \A t : ToIndex(t)' = ToIndex(t)
    BY <1>1, <1>4 DEF ToIndex, Evidence
  <1>6. \A r : Unfinished(r)' = Unfinished(r)
    BY <1>1 DEF Unfinished
  <1>7. QueueShaped' /\ WorkersShaped'
    BY <1>1 DEF RepairInv, QueueShaped, WorkersShaped
  <1>8. Grounded'
    BY <1>1, <1>3 DEF RepairInv, Grounded
  <1>9. IndexTold'
    BY <1>1, <1>3, <1>5, <1>6 DEF RepairInv, IndexTold
  <1>10. OverviewTold'
    BY <1>2, <1>4 DEF OverviewTold
  <1>11. ASSUME NEW w \in DerivedWorker
         PROVE  WorkerInv(w)'
    <2>1. WorkerInv(w)
      BY DEF RepairInv
    <2>2. Works(w)'
      BY <1>1, <1>3, <2>1 DEF WorkerInv, Works
    <2>3. IndexSeen(w)'
      <3>1. HoldsRow(w)' = HoldsRow(w)
        BY <1>1 DEF HoldsRow
      <3> QED
        BY <1>1, <1>5, <2>1, <3>1 DEF WorkerInv, IndexSeen
    <2>4. OneWorker => OverviewSeen(w)'
      <3>1. OtherRow(w)' = OtherRow(w)
        BY <1>1, <1>3, <1>6 DEF OtherRow
      <3> QED
        BY <1>1, <1>2, <1>4, <2>1, <3>1 DEF WorkerInv, OverviewSeen
    <2> QED
      BY <2>2, <2>3, <2>4 DEF WorkerInv, OneWorker
  <1> QED
    BY <1>7, <1>8, <1>9, <1>10, <1>11 DEF RepairInv, OneWorker

\* The steps of a worker that write neither view nor row.
LEMMA QueueAlone ==
    ASSUME RepairInv, NEW w \in DerivedWorker, NEW r,
           UNCHANGED <<source, version, entry, retrieval, overview, inval>>,
           derived' = [derived EXCEPT ![w] = r], DOMAIN r = WorkerFields,
           WorkerInv(w)'
    PROVE  RepairInv'
  <1>1. Published' = Published
    BY DEF Published
  <1>2. \A t : ToIndex(t)' = ToIndex(t)
    BY DEF ToIndex, UsesEntries, Evidence, CurrentEvidence
  <1>3. \A q : Unfinished(q)' = Unfinished(q)
    BY DEF Unfinished
  <1>4. IndexTold'
    BY <1>1, <1>2, <1>3 DEF RepairInv, IndexTold
  <1>5. OneWorker => OverviewTold'
    BY <1>1, <1>3 DEF RepairInv, OverviewTold, UsesEntries, CurrentEvidence
  <1>6. QueueMay(w)
    <2>1. QueueShaped'
      BY DEF RepairInv, QueueShaped
    <2>2. \A v \in DerivedWorker \ {w} : derived'[v] = derived[v]
      BY DEF RepairInv, WorkersShaped
    <2> QED
      BY <2>1, <2>2 DEF QueueMay, HoldsRow
  <1> QED
    BY <1>4, <1>5, <1>6, WorkerSteps

LEMMA ListingRepairs ==
    ASSUME RepairInv, NEW w \in DerivedWorker,
           ListEvidence(w) \/ ReadOverview(w)
    PROVE  RepairInv'
  <1>1. PICK s, seen : s = derived[w].row[1]
                       /\ seen = IF derived[w].row[2] = "indexes" THEN ToIndex(s) ELSE ToProject(s)
    OBVIOUS
  <1>2. /\ UNCHANGED <<source, version, entry, retrieval, overview, inval>>
        /\ derived' = [derived EXCEPT ![w].at = "write", ![w].seen = seen]
        /\ derived[w].at # "idle" /\ derived[w].row[2] \in {"indexes", "projections"}
    BY <1>1 DEF ListEvidence, ReadOverview, contentVars
  <1>3. PICK r : r = [derived[w] EXCEPT !.at = "write", !.seen = seen]
    OBVIOUS
  <1>4. derived' = [derived EXCEPT ![w] = r]
    BY <1>2, <1>3
  <1>5. DOMAIN r = WorkerFields /\ r.at = "write" /\ r.seen = seen /\ r.row = derived[w].row
    BY <1>3 DEF RepairInv, WorkersShaped, WorkerFields
  <1>6. derived'[w] = r
    BY <1>4 DEF RepairInv, WorkersShaped
  <1>7. UsesEntries' = UsesEntries /\ CurrentEvidence' = CurrentEvidence
    BY <1>2 DEF UsesEntries, CurrentEvidence
  <1>8. Works(w)'
    <2>1. Published' = Published
      BY <1>2 DEF Published
    <2> QED
      BY <1>2, <1>5, <1>6, <2>1 DEF RepairInv, WorkerInv, Works
  <1>9. IndexSeen(w)'
    <2>1. ToIndex(s)' = ToIndex(s)
      BY <1>2, <1>7 DEF ToIndex, Evidence
    <2> QED
      BY <1>1, <1>5, <1>6, <2>1 DEF IndexSeen
  <1>10. OverviewSeen(w)'
    BY <1>1, <1>5, <1>6, <1>7 DEF OverviewSeen, ToProject
  <1> QED
    BY <1>2, <1>4, <1>5, <1>8, <1>9, <1>10, QueueAlone DEF WorkerInv

LEMMA GivingUpRepairs ==
    ASSUME RepairInv, NEW w \in DerivedWorker,
           SkipOverview(w) \/ RebuildRaises(w)
    PROVE  RepairInv'
  <1>1. PICK at : /\ derived' = [derived EXCEPT ![w].at = at]
                  /\ \/ at = "done" /\ derived[w].row[2] = "projections" /\ ~overview.made
                     \/ at = "raised"
    BY DEF SkipOverview, RebuildRaises
  <1>2. /\ UNCHANGED <<source, version, entry, retrieval, overview, inval>>
        /\ derived[w].at # "idle"
    BY DEF SkipOverview, RebuildRaises, contentVars
  <1>3. PICK r : r = [derived[w] EXCEPT !.at = at]
    OBVIOUS
  <1>4. derived' = [derived EXCEPT ![w] = r]
    BY <1>1, <1>3
  <1>5. DOMAIN r = WorkerFields /\ r.at = at /\ r.row = derived[w].row
    BY <1>3 DEF RepairInv, WorkersShaped, WorkerFields
  <1>6. derived'[w] = r
    BY <1>4 DEF RepairInv, WorkersShaped
  <1>7. Works(w)'
    <2>1. Published' = Published
      BY <1>2 DEF Published
    <2> QED
      BY <1>2, <1>5, <1>6, <2>1 DEF RepairInv, WorkerInv, Works
  <1>8. IndexSeen(w)'
    BY <1>1, <1>5, <1>6 DEF IndexSeen
  <1>9. OverviewSeen(w)'
    BY <1>1, <1>2, <1>5, <1>6 DEF OverviewSeen
  <1> QED
    BY <1>2, <1>4, <1>5, <1>7, <1>8, <1>9, QueueAlone DEF WorkerInv

LEMMA UpsertRepairs ==
    ASSUME RepairInv, NEW w \in DerivedWorker, UpsertRetrieval(w)
    PROVE  RepairInv'
  <1>1. /\ UNCHANGED <<source, version, entry, overview, inval>>
        /\ derived[w].at = "write" /\ derived[w].row[2] = "indexes"
        /\ retrieval' = retrieval \cup derived[w].seen
    BY DEF UpsertRetrieval
  <1>2. PICK r : r = [derived[w] EXCEPT !.at = "done"]
    OBVIOUS
  <1>3. derived' = [derived EXCEPT ![w] = r]
    BY <1>2 DEF UpsertRetrieval
  <1>4. DOMAIN r = WorkerFields /\ r.at = "done" /\ r.row = derived[w].row
    BY <1>2 DEF RepairInv, WorkersShaped, WorkerFields
  <1>5. derived'[w] = r /\ \A v \in DerivedWorker \ {w} : derived'[v] = derived[v]
    BY <1>3 DEF RepairInv, WorkersShaped
  <1>6. Published' = Published
    BY <1>1 DEF Published
  <1>7. \A t : ToIndex(t)' = ToIndex(t)
    BY <1>1 DEF ToIndex, UsesEntries, Evidence, CurrentEvidence
  <1>8. \A q : Unfinished(q)' = Unfinished(q)
    BY <1>1 DEF Unfinished
  <1>9. IndexTold'
    BY <1>1, <1>6, <1>7, <1>8 DEF RepairInv, IndexTold
  <1>10. OneWorker => OverviewTold'
    BY <1>1, <1>6, <1>8 DEF RepairInv, OverviewTold, UsesEntries, CurrentEvidence
  <1>11. QueueMay(w)
    BY <1>1, <1>5 DEF RepairInv, QueueShaped, QueueMay, HoldsRow
  <1>12. Works(w)'
    BY <1>1, <1>4, <1>5, <1>6 DEF RepairInv, WorkerInv, Works
  <1>13. IndexSeen(w)'
    <2>1. WorkerInv(w)
      BY DEF RepairInv
    <2>2. HoldsRow(w)' = HoldsRow(w)
      BY <1>1, <1>4, <1>5 DEF HoldsRow
    <2> QED
      BY <1>1, <1>4, <1>5, <1>7, <2>1, <2>2 DEF WorkerInv, IndexSeen
  <1>14. OverviewSeen(w)'
    BY <1>1, <1>4, <1>5 DEF OverviewSeen
  <1> QED
    BY <1>1, <1>3, <1>4, <1>9, <1>10, <1>11, <1>12, <1>13, <1>14, WorkerSteps DEF WorkerInv

LEMMA WriteOverviewRepairs ==
    ASSUME RepairInv, NEW w \in DerivedWorker, WriteOverview(w)
    PROVE  RepairInv'
  <1>1. PICK s, seen : s = derived[w].row[1] /\ seen = derived[w].seen
    OBVIOUS
  <1>2. /\ UNCHANGED <<source, version, entry, retrieval, inval>>
        /\ derived[w].at = "write" /\ derived[w].row[2] = "projections" /\ version[s] # "none"
        /\ overview' = WrittenOverview(s, seen)
    BY <1>1 DEF WriteOverview
  <1>3. PICK r : r = [derived[w] EXCEPT !.at = "done"]
    OBVIOUS
  <1>4. derived' = [derived EXCEPT ![w] = r]
    BY <1>3 DEF WriteOverview
  <1>5. DOMAIN r = WorkerFields /\ r.at = "done" /\ r.row = derived[w].row
    BY <1>3 DEF RepairInv, WorkersShaped, WorkerFields
  <1>6. derived'[w] = r /\ \A v \in DerivedWorker \ {w} : derived'[v] = derived[v]
    BY <1>4 DEF RepairInv, WorkersShaped
  <1>7. Published' = Published
    BY <1>2 DEF Published
  <1>8. \A t : ToIndex(t)' = ToIndex(t)
    BY <1>2 DEF ToIndex, UsesEntries, Evidence, CurrentEvidence
  <1>9. UsesEntries' = UsesEntries /\ CurrentEvidence' = CurrentEvidence
    BY <1>2 DEF UsesEntries, CurrentEvidence
  <1>10. \A q : Unfinished(q)' = Unfinished(q)
    BY <1>2 DEF Unfinished
  <1>11. source.live
    <2>1. s \in Snapshot
      BY <1>1, <1>2 DEF RepairInv, WorkerInv, Works, Rows
    <2> QED
      BY <1>2, <2>1 DEF RepairInv, Grounded, Published
  <1>12. OneWorker /\ UsesEntries => seen = CurrentEvidence \/ OtherRow(w)
    BY <1>1, <1>2, <1>11 DEF RepairInv, WorkerInv, OverviewSeen
  <1>13. OtherRow(w)' = OtherRow(w)
    BY <1>5, <1>6, <1>7, <1>10 DEF OtherRow
  <1>14. overview'.deps = seen
    BY <1>2 DEF WrittenOverview
  <1>15. IndexTold'
    BY <1>2, <1>7, <1>8, <1>10 DEF RepairInv, IndexTold
  <1>16. OneWorker => OverviewTold'
    BY <1>7, <1>9, <1>10, <1>12, <1>14 DEF OverviewTold, OtherRow
  <1>17. QueueMay(w)
    BY <1>2, <1>6 DEF RepairInv, QueueShaped, QueueMay, HoldsRow
  <1>18. Works(w)'
    BY <1>2, <1>5, <1>6, <1>7 DEF RepairInv, WorkerInv, Works
  <1>19. IndexSeen(w)'
    BY <1>2, <1>5, <1>6 DEF IndexSeen
  <1>20. OneWorker => OverviewSeen(w)'
    BY <1>5, <1>6, <1>9, <1>12, <1>13, <1>14 DEF OverviewSeen
  <1>21. WorkerInv(w)'
    BY <1>18, <1>19, <1>20 DEF WorkerInv, OneWorker
  <1> QED
    BY <1>2, <1>4, <1>5, <1>15, <1>16, <1>17, <1>21, WorkerSteps

LEMMA AtRest == DOMAIN IdleWorker = WorkerFields /\ IdleWorker.at = "idle"
  BY DEF IdleWorker, WorkerFields

LEMMA ClaimDerivedRepairs ==
    ASSUME RepairInv, NEW w \in DerivedWorker, ClaimDerived(w)
    PROVE  RepairInv'
  <1>1. PICK q \in Oldest :
            /\ inval' = [inval EXCEPT ![q] = [status |-> "running", tries |-> @.tries + 1,
                                      holder |-> w, lapsed |-> FALSE, waits |-> FALSE]]
            /\ derived' = [derived EXCEPT ![w] = [at |-> "read", row |-> q, seen |-> {}]]
    BY DEF ClaimDerived
  <1>2. UNCHANGED <<source, version, entry, retrieval, overview>>
    BY DEF ClaimDerived
  <1>3. q \in Rows /\ inval[q].status \in {"pending", "running"}
    BY DEF Oldest, OpenRows, Rows
  <1>4. PICK tries : tries = inval[q].tries + 1
    OBVIOUS
  <1>5. PICK v : v = [status |-> "running", tries |-> tries, holder |-> w,
                      lapsed |-> FALSE, waits |-> FALSE]
    OBVIOUS
  <1>6. inval' = [inval EXCEPT ![q] = v]
    BY <1>1, <1>4, <1>5
  <1>7. DOMAIN v = RowFields /\ v.status = "running" /\ v.holder = w
    BY <1>5 DEF RowFields
  <1>8. inval'[q] = v /\ \A p \in Rows \ {q} : inval'[p] = inval[p]
    BY <1>3, <1>6 DEF RepairInv, QueueShaped
  <1>9. PICK r : r = [at |-> "read", row |-> q, seen |-> {}]
    OBVIOUS
  <1>10. derived' = [derived EXCEPT ![w] = r]
    BY <1>1, <1>9
  <1>11. DOMAIN r = WorkerFields /\ r.at = "read" /\ r.row = q
    BY <1>9 DEF WorkerFields
  <1>12. derived'[w] = r /\ \A u \in DerivedWorker \ {w} : derived'[u] = derived[u]
    BY <1>10 DEF RepairInv, WorkersShaped
  <1>13. Published' = Published /\ Published \subseteq Snapshot
    BY <1>2 DEF Published
  <1>14. \A t \in Published, d \in Dependency : Unfinished(<<t, d>>) => Unfinished(<<t, d>>)'
    BY <1>7, <1>8, <1>13 DEF Unfinished, Rows
  <1>15. QueueMay(w)
    <2>1. QueueShaped'
      BY <1>6, <1>7, <1>8 DEF RepairInv, QueueShaped
    <2>2. \A p \in Rows : inval'[p].status # "none" => inval[p].status # "none"
      BY <1>3, <1>8
    <2>3. ASSUME NEW u \in DerivedWorker \ {w}, derived[u].at # "idle", HoldsRow(u)'
          PROVE  HoldsRow(u)
      <3>1. derived[u].row \in Rows /\ derived'[u] = derived[u]
        BY <1>12, <2>3 DEF RepairInv, WorkerInv, Works
      <3>2. derived[u].row # q
        BY <1>7, <1>8, <2>3, <3>1 DEF HoldsRow
      <3> QED
        BY <1>8, <2>3, <3>1, <3>2 DEF HoldsRow
    <2> QED
      BY <2>1, <2>2, <2>3 DEF QueueMay
  <1>16. IndexTold'
    <2>1. \A t : ToIndex(t)' = ToIndex(t)
      BY <1>2 DEF ToIndex, UsesEntries, Evidence, CurrentEvidence
    <2> QED
      BY <1>2, <1>13, <1>14, <2>1 DEF RepairInv, IndexTold, Dependency
  <1>17. OneWorker => OverviewTold'
    BY <1>2, <1>13, <1>14 DEF RepairInv, OverviewTold, UsesEntries, CurrentEvidence, Dependency
  <1>18. WorkerInv(w)'
    <2>1. q[1] \in Published
      BY <1>3 DEF RepairInv, Grounded
    <2>2. Works(w)'
      BY <1>3, <1>11, <1>12, <1>13, <2>1 DEF Works
    <2>3. IndexSeen(w)' /\ OverviewSeen(w)'
      BY <1>11, <1>12 DEF IndexSeen, OverviewSeen
    <2> QED
      BY <2>2, <2>3 DEF WorkerInv
  <1> QED
    BY <1>2, <1>10, <1>11, <1>15, <1>16, <1>17, <1>18, WorkerSteps

\* A worker that lets go of its row: the row stays open, or it is closed and what it
\* asked for is in the view.
LEMMA LettingGoRepairs ==
    ASSUME RepairInv, NEW w \in DerivedWorker, derived[w].at # "idle",
           UNCHANGED <<source, version, entry, retrieval, overview>>,
           derived' = [derived EXCEPT ![w] = IdleWorker],
           QueueShaped',
           \A q \in Rows : inval'[q].status # "none" => inval[q].status # "none",
           \A q \in Rows : q # derived[w].row => inval'[q] = inval[q],
           ~HoldsRow(w) => inval' = inval,
           HoldsRow(w) => inval'[derived[w].row].lapsed \/ inval'[derived[w].row].status # "running",
           \A q \in Rows : q = derived[w].row /\ HoldsRow(w) /\ derived[w].at # "done" =>
                              Unfinished(q)'
    PROVE  RepairInv'
  <1>1. derived[w].row \in Rows /\ WorkerInv(w)
    BY DEF RepairInv, WorkerInv, Works
  <1>2. PICK s \in Snapshot, d \in Dependency : derived[w].row = <<s, d>>
    BY <1>1 DEF Rows
  <1>3. derived'[w] = IdleWorker /\ \A u \in DerivedWorker \ {w} : derived'[u] = derived[u]
    BY DEF RepairInv, WorkersShaped
  <1>4. Published' = Published /\ Published \subseteq Snapshot
    BY DEF Published
  <1>5. \A t : ToIndex(t)' = ToIndex(t)
    BY DEF ToIndex, UsesEntries, Evidence, CurrentEvidence
  <1>6. UsesEntries' = UsesEntries /\ CurrentEvidence' = CurrentEvidence
    BY DEF UsesEntries, CurrentEvidence
  <1>7. \A q \in Rows : q # <<s, d>> => Unfinished(q)' = Unfinished(q)
    BY <1>2 DEF Unfinished
  <1>8. \/ Unfinished(<<s, d>>) => Unfinished(<<s, d>>)'
        \/ derived[w].at = "done" /\ HoldsRow(w)
    BY <1>1, <1>2 DEF Unfinished
  <1>9. IndexTold'
    <2>1. ASSUME NEW t \in Published, NEW e \in ToIndex(t)
          PROVE  e \in retrieval \/ Unfinished(<<t, "indexes">>)'
      <3>1. e \in retrieval \/ Unfinished(<<t, "indexes">>)
        BY <2>1 DEF RepairInv, IndexTold
      <3>2. CASE <<t, "indexes">> # <<s, d>>
        BY <1>4, <1>7, <3>1, <3>2 DEF Rows, Dependency
      <3>3. CASE <<t, "indexes">> = <<s, d>>
        <4>1. t = s /\ d = "indexes"
          BY <3>3
        <4>2. derived[w].at = "done" /\ HoldsRow(w) => ToIndex(s) \subseteq retrieval
          BY <1>1, <1>2, <4>1 DEF WorkerInv, IndexSeen
        <4> QED
          BY <1>8, <2>1, <3>1, <4>1, <4>2
      <3> QED
        BY <3>2, <3>3
    <2> QED
      BY <1>4, <1>5, <2>1 DEF IndexTold
  <1>10. OneWorker => OverviewTold'
    <2>1. SUFFICES ASSUME OneWorker, UsesEntries, overview.made, ~overview.stale
                   PROVE  overview.deps = CurrentEvidence
                          \/ \E t \in Published : Unfinished(<<t, "projections">>)'
      BY <1>4, <1>6 DEF OverviewTold
    <2>2. CASE d = "projections" /\ derived[w].at = "done" /\ HoldsRow(w)
      <3>1. source.live
        <4>1. inval[<<s, d>>].status # "none"
          BY <1>2, <2>2 DEF HoldsRow
        <4> QED
          BY <1>1, <1>2, <4>1 DEF RepairInv, Grounded
      <3>2. overview.deps = CurrentEvidence \/ OtherRow(w)
        BY <1>1, <1>2, <2>1, <2>2, <3>1 DEF WorkerInv, OverviewSeen
      <3>3. OtherRow(w) => \E t \in Published : Unfinished(<<t, "projections">>)'
        <4>1. ASSUME NEW t \in Published, Unfinished(<<t, "projections">>),
                     derived[w].row # <<t, "projections">>
              PROVE  Unfinished(<<t, "projections">>)'
          BY <1>2, <1>4, <1>7, <4>1 DEF Rows, Dependency
        <4> QED
          BY <4>1 DEF OtherRow
      <3> QED
        BY <3>2, <3>3
    <2>3. CASE ~(d = "projections" /\ derived[w].at = "done" /\ HoldsRow(w))
      <3>1. \/ overview.deps = CurrentEvidence
            \/ \E t \in Published : Unfinished(<<t, "projections">>)
        BY <2>1 DEF RepairInv, OverviewTold
      <3>2. ASSUME NEW t \in Published, Unfinished(<<t, "projections">>)
            PROVE  Unfinished(<<t, "projections">>)'
        <4>1. CASE <<t, "projections">> # <<s, d>>
          BY <1>4, <1>7, <3>2, <4>1 DEF Rows, Dependency
        <4>2. CASE <<t, "projections">> = <<s, d>>
          BY <1>8, <2>3, <3>2, <4>2
        <4> QED
          BY <4>1, <4>2
      <3> QED
        BY <3>1, <3>2
    <2> QED
      BY <2>2, <2>3
  <1>11. QueueMay(w)
    <2>1. ASSUME NEW u \in DerivedWorker \ {w}, derived[u].at # "idle", HoldsRow(u)'
          PROVE  HoldsRow(u)
      <3>1. derived[u].row \in Rows /\ derived'[u] = derived[u]
        BY <1>3, <2>1 DEF RepairInv, WorkerInv, Works
      <3>2. CASE derived[u].row # derived[w].row
        BY <2>1, <3>1, <3>2 DEF HoldsRow
      <3>3. CASE derived[u].row = derived[w].row
        BY <2>1, <3>1, <3>3 DEF HoldsRow
      <3> QED
        BY <3>2, <3>3
    <2> QED
      BY <2>1 DEF QueueMay
  <1>12. WorkerInv(w)'
    BY <1>3, AtRest DEF WorkerInv, Works, IndexSeen, OverviewSeen
  <1>13. DOMAIN IdleWorker = WorkerFields
    BY AtRest
  <1> QED
    BY <1>9, <1>10, <1>11, <1>12, <1>13, WorkerSteps

LEMMA SettlingRepairs ==
    ASSUME RepairInv, NEW w \in DerivedWorker, CompleteDerived(w) \/ FailDerived(w)
    PROVE  RepairInv'
  <1>1. PICK q \in Rows : q = derived[w].row
    BY DEF CompleteDerived, FailDerived, RepairInv, WorkerInv, Works
  <1>2. PICK status : status = IF CompleteDerived(w) THEN "completed"
                               ELSE FailureStatus(inval[q].tries)
    OBVIOUS
  <1>3. PICK v : v = Settled(inval[q], status)
    OBVIOUS
  <1>4. /\ status \in {"completed", "failed", "pending"}
        /\ derived[w].at # "done" => status # "completed"
    BY <1>2 DEF CompleteDerived, FailureStatus
  <1>5. DOMAIN v = RowFields /\ v.status = status
    BY <1>1, <1>3 DEF Settled, RepairInv, QueueShaped, RowFields
  <1>6. inval' = IF HoldsRow(w) THEN [inval EXCEPT ![q] = v] ELSE inval
    BY <1>1, <1>2, <1>3 DEF CompleteDerived, FailDerived
  <1>7. /\ HoldsRow(w) => inval'[q] = v
        /\ \A p \in Rows : p # q => inval'[p] = inval[p]
        /\ QueueShaped'
    BY <1>5, <1>6 DEF RepairInv, QueueShaped
  <1>8. HoldsRow(w) => inval[q].status = "running"
    BY <1>1 DEF HoldsRow
  <1>9. \A p \in Rows : inval'[p].status # "none" => inval[p].status # "none"
    BY <1>6, <1>7, <1>8
  <1>10. /\ UNCHANGED <<source, version, entry, retrieval, overview>> /\ derived[w].at # "idle"
         /\ derived' = [derived EXCEPT ![w] = IdleWorker]
    BY DEF CompleteDerived, FailDerived
  <1>11. HoldsRow(w) => inval'[derived[w].row].lapsed \/ inval'[derived[w].row].status # "running"
    BY <1>1, <1>4, <1>5, <1>7
  <1>12. \A p \in Rows : p = derived[w].row /\ HoldsRow(w) /\ derived[w].at # "done" =>
                          Unfinished(p)'
    BY <1>1, <1>4, <1>5, <1>7 DEF Unfinished
  <1>13. /\ \A p \in Rows : p # derived[w].row => inval'[p] = inval[p]
         /\ ~HoldsRow(w) => inval' = inval
    BY <1>1, <1>6, <1>7
  <1> QED
    BY <1>7, <1>9, <1>10, <1>11, <1>12, <1>13, LettingGoRepairs

LEMMA WorkerDiesRepairs ==
    ASSUME RepairInv, NEW w \in DerivedWorker, WorkerDies(w)
    PROVE  RepairInv'
  <1>1. PICK q \in Rows : q = derived[w].row
    BY DEF WorkerDies, RepairInv, WorkerInv, Works
  <1>2. PICK v : v = [inval[q] EXCEPT !.lapsed = TRUE]
    OBVIOUS
  <1>3. DOMAIN v = RowFields /\ v.status = inval[q].status /\ v.lapsed = TRUE
    BY <1>2 DEF RepairInv, QueueShaped, RowFields
  <1>4. inval' = IF HoldsRow(w) THEN [inval EXCEPT ![q] = v] ELSE inval
    BY <1>1, <1>2 DEF WorkerDies
  <1>5. /\ HoldsRow(w) => inval'[q] = v
        /\ \A p \in Rows : p # q => inval'[p] = inval[p]
        /\ QueueShaped'
    BY <1>3, <1>4 DEF RepairInv, QueueShaped
  <1>6. \A p \in Rows : inval'[p].status = inval[p].status
    BY <1>3, <1>4, <1>5
  <1>7. /\ UNCHANGED <<source, version, entry, retrieval, overview>> /\ derived[w].at # "idle"
        /\ derived' = [derived EXCEPT ![w] = IdleWorker]
    BY DEF WorkerDies
  <1>8. HoldsRow(w) => inval'[derived[w].row].lapsed \/ inval'[derived[w].row].status # "running"
    BY <1>1, <1>3, <1>5
  <1>9. \A p \in Rows : p = derived[w].row /\ HoldsRow(w) => Unfinished(p)'
    BY <1>1, <1>6 DEF Unfinished, HoldsRow
  <1>10. /\ \A p \in Rows : p # derived[w].row => inval'[p] = inval[p]
         /\ ~HoldsRow(w) => inval' = inval
    BY <1>1, <1>4, <1>5
  <1> QED
    BY <1>5, <1>6, <1>7, <1>8, <1>9, <1>10, LettingGoRepairs

LEMMA DerivedRepairs ==
    ASSUME RepairInv, DerivedNext
    PROVE  RepairInv'
  <1>1. CASE \E w \in DerivedWorker : DerivedStep(w)
    BY <1>1, ClaimDerivedRepairs, ListingRepairs, UpsertRepairs, GivingUpRepairs,
       WriteOverviewRepairs, SettlingRepairs DEF DerivedStep
  <1>2. CASE \E w \in DerivedWorker : RebuildRaises(w) \/ LeaseRunsOut(w) \/ WorkerDies(w)
    BY <1>2, GivingUpRepairs, LeaseRunsOutRepairs, WorkerDiesRepairs
  <1>3. CASE \E r \in DOMAIN inval : BackoffEnds(r)
    <2>1. DOMAIN inval = Rows
      BY DEF RepairInv, QueueShaped
    <2> QED
      BY <1>3, <2>1, BackoffEndsRepairs
  <1>4. CASE RecoverDerived \/ RetryFailed
    BY <1>4, RequeueRepairs
  <1>5. CASE ReadSourceOverview
    BY <1>5, ReadSourceOverviewRepairs
  <1> QED
    BY <1>1, <1>2, <1>3, <1>4, <1>5 DEF DerivedNext

LEMMA RepairStart == IngestInit => RepairInv
  <1> SUFFICES ASSUME IngestInit
               PROVE  RepairInv
    OBVIOUS
  <1>1. Published = {}
    BY DEF IngestInit, ContentInit, Published
  <1>2. QueueShaped
    BY DEF IngestInit, ContentInit, QueueShaped, Rows, NoRow, RowFields
  <1>3. WorkersShaped /\ \A w \in DerivedWorker : derived[w].at = "idle"
    BY AtRest DEF IngestInit, ContentInit, WorkersShaped
  <1>4. Grounded
    <2>1. entry = [l \in Locator |-> NoEntry] /\ \A r \in Rows : inval[r].status = "none"
      BY DEF IngestInit, ContentInit, Rows, NoRow
    <2> QED
      BY <1>1, <2>1, ContentAssumption DEF Grounded
  <1>5. IndexTold
    BY <1>1 DEF IndexTold
  <1>6. OverviewTold
    BY DEF IngestInit, ContentInit, OverviewTold, NoOverview
  <1>7. \A w \in DerivedWorker : WorkerInv(w)
    BY <1>3 DEF WorkerInv, Works, IndexSeen, OverviewSeen
  <1> QED
    BY <1>2, <1>3, <1>4, <1>5, <1>6, <1>7 DEF RepairInv

LEMMA RepairStep == VersionInv /\ RepairInv /\ [IngestNext]_kiVars => RepairInv'
  <1> SUFFICES ASSUME VersionInv, RepairInv, [IngestNext]_kiVars
               PROVE  RepairInv'
    OBVIOUS
  <1>1. ASSUME UNCHANGED <<source, version, entry, retrieval, overview, inval, derived>>
        PROVE  RepairInv'
    <2>1. Published' = Published
      BY <1>1 DEF Published
    <2> QED
      BY <1>1, <2>1, ContentAlone
  <1>2. CASE DerivedNext
    BY <1>2, DerivedRepairs
  <1>3. CASE \E p \in Ingester : PublishSnapshot(p)
    <2>1. PICK p \in Ingester : PublishSnapshot(p)
      BY <1>3
    <2>2. PICK s : s = ingester[p].snap
      OBVIOUS
    <2>3. s \in Snapshot
      BY <2>1, <2>2 DEF PublishSnapshot, VersionInv, Deliveries, Delivers
    <2>4. MayPublish(s) /\ PublishContent(s)
      BY <2>1, <2>2 DEF PublishSnapshot
    <2> QED
      BY <2>3, <2>4, PublicationRepairs DEF VersionInv
  <1>4. CASE \E t \in Snapshot : version[t] # "none" /\ ActivateContent(t)
    <2>1. PICK t \in Snapshot : version[t] # "none" /\ ActivateContent(t)
      BY <1>4
    <2>2. Published' = Published
      BY <2>1, ActivationKeeps DEF VersionInv
    <2>3. UNCHANGED <<source, entry, retrieval, overview, inval, derived>>
      BY <2>1 DEF ActivateContent, derivedVars
    <2> QED
      BY <2>2, <2>3, ContentAlone
  <1>5. CASE \E p \in Ingester : EraseSource(p)
    BY <1>5, ErasureRepairs DEF EraseSource, VersionInv
  <1>6. \/ UNCHANGED kcVars
        \/ \E p \in Ingester : PublishSnapshot(p)
        \/ \E t \in Snapshot : version[t] # "none" /\ ActivateContent(t)
        \/ \E p \in Ingester : EraseSource(p)
        \/ DerivedNext
    <2>1. CASE UNCHANGED kiVars
      BY <2>1 DEF kiVars
    <2>2. CASE \E p \in Ingester : ShowAgain(p) \/ CompleteExisting(p) \/ PublishDuplicate(p)
      <3>1. PICK p \in Ingester : ShowAgain(p) \/ CompleteExisting(p) \/ PublishDuplicate(p)
        BY <2>2
      <3>2. CASE ShowAgain(p)
        BY <3>2 DEF ShowAgain, VersionInv, Deliveries, Delivers
      <3>3. CASE CompleteExisting(p)
        BY <3>3 DEF CompleteExisting, VersionInv, Deliveries, Delivers
      <3>4. CASE PublishDuplicate(p)
        BY <3>4 DEF PublishDuplicate, Holder, Published
      <3> QED
        BY <3>1, <3>2, <3>3, <3>4
    <2>3. CASE \E p \in Ingester : Ingests(p)
      BY <2>2, <2>3 DEF Ingests, IngestStep, OpenJob, ClaimJob, LookupVersion, PutObject,
                  RegisterArtifact, UndoDone, UndoUnregistered, UndoKept, UndoDiscard, UndoBroken,
                  FailJob, SweepObject, SweepRow, SweepEnds
    <2>4. CASE \E p \in Ingester : IngestFails(p)
      BY <2>4 DEF IngestFails, PutFails, PublishRefused, SweepFails, IngesterDies, RecoverJobs
    <2> QED
      BY <2>1, <2>3, <2>4 DEF IngestNext
  <1> QED
    BY <1>1, <1>2, <1>3, <1>4, <1>5, <1>6 DEF kcVars, contentVars, derivedVars

\* With the one Fabric worker of the deployment, nothing that was published is missing from
\* the retrieval rows or from an overview served as fresh without a request to rebuild it
\* that is open or was given up visibly, whatever dies or stalls between reading and writing
\* (claim_due, rebuild_entries_for_source_version, rebuild_existing_source_overview).
THEOREM DerivedRepaired == OneWorker /\ IngestSpec => []DerivedRepair
  <1>1. OneWorker => OneWorker'
    BY DEF OneWorker
  <1>2. OneWorker /\ RepairInv => DerivedRepair
    BY DEF RepairInv, IndexTold, OverviewTold, DerivedRepair
  <1>3. []VersionInv /\ [][IngestNext]_kiVars /\ RepairInv => []RepairInv
    BY RepairStep, PTL
  <1> QED
    BY <1>1, <1>2, <1>3, RepairStart, VersionStart, VersionStep, PTL DEF IngestSpec

\* The index part needs no such restriction: however many workers there are, every Evidence
\* Unit a reader may retrieve is indexed or its request is still there.
THEOREM IndexRepaired == IngestSpec => []IndexTold
  <1>1. RepairInv => IndexTold
    BY DEF RepairInv
  <1> QED
    BY <1>1, RepairStart, RepairStep, VersionStart, VersionStep, PTL DEF IngestSpec

=============================================================================
